---------------------------- MODULE ContinuityProofs ----------------------------
(***************************************************************************)
(* What continuity keeps, for every set of chats, works, obligations and   *)
(* requests (continuity.py).  Each transaction composes the effects of its *)
(* helpers; Steps says what its commit did to the ledger, Inv is the       *)
(* inductive invariant.  The last part shows that each commit is one step  *)
(* of the lifecycle of the requests, or none.                              *)
(***************************************************************************)
EXTENDS ContinuityLedgerProofs

-----------------------------------------------------------------------------
(***************************************************************************)
(* The actions, one by one.                                                *)
(***************************************************************************)
\* The endpoint of an actor and the revision of a work move by one, and only under their bounds.
Within(d, e) ==
  /\ \A a \in Actor :
       \/ e.generation[a] = d.generation[a]
       \/ e.generation[a] = d.generation[a] + 1 /\ d.generation[a] < agenda.generations
  /\ \A w \in Work :
       \/ e.work[w].revision \in {d.work[w].revision, 1}
       \/ e.work[w].revision = d.work[w].revision + 1 /\ d.work[w].revision < agenda.revisions

LEMMA WithinSame == \A d, e : e.generation = d.generation /\ e.work = d.work => Within(d, e)
BY DEF Within

LEMMA WithinThen ==
  ASSUME NEW d, NEW m, NEW e, Within(d, m), e.generation = m.generation, e.work = m.work
  PROVE  Within(d, e)
BY DEF Within

LEMMA WithinKeeps ==
  ASSUME NEW d, NEW m, NEW e, NEW P, Within(d, m), Keeps(m, e, P)
  PROVE  Within(d, e)
BY WithinThen DEF Keeps, Extends, Frame

\* A step after which the ledger is good, and that no request notices.
Quietly(d, e) == GoodBut(e, {}) /\ Quiet(d, e) /\ Onward(d, e) /\ Within(d, e)

LEMMA QuietlyKeeps ==
  ASSUME NEW d, NEW m, NEW e, Quietly(d, m), Keeps(m, e, {})
  PROVE  Quietly(d, e)
<1>1. GoodBut(m, {}) /\ Quiet(d, m) /\ Onward(d, m) /\ Within(d, e)
  BY WithinKeeps DEF Quietly
<1>2. Quiet(m, e) /\ Onward(m, e) /\ GoodBut(e, {})
  BY <1>1, QuietKeeps DEF Keeps
<1> QED BY <1>1, <1>2, OnwardTransitive DEF Quietly, Quiet, Alike

LEMMA QuietlyKept ==
  ASSUME NEW d, NEW e, GoodBut(d, {}), Keeps(d, e, {})
  PROVE  Quietly(d, e)
<1>1. Within(d, e)
  BY WithinSame DEF Keeps, Extends, Frame
<1> QED BY <1>1, QuietKeeps DEF Quietly, Keeps

\* A step after which nobody is forgotten.
Remembers(d, e) == Routed(d) => Routed(e)

LEMMA RemembersThen ==
  ASSUME NEW d, NEW m, NEW e, Remembers(d, m), Remembers(m, e)
  PROVE  Remembers(d, e)
BY DEF Remembers

LEMMA RemembersKeeps ==
  ASSUME NEW d, NEW m, NEW e, NEW P, GoodBut(m, P), Remembers(d, m), Keeps(m, e, P)
  PROVE  Remembers(d, e)
<1>1. Routes(m, e, {}, {})
  BY KeepsRoutes DEF GoodBut, Good
<1>2. Remembers(m, e)
  BY <1>1, RoutesDone DEF Remembers
<1> QED BY <1>2 DEF Remembers

LEMMA RemembersKept ==
  ASSUME NEW d, NEW e, NEW P, GoodBut(d, P), Keeps(d, e, P)
  PROVE  Remembers(d, e)
BY RemembersKeeps DEF Remembers

\* No notice is revoked, and no stop is lifted.
LEMMA RemembersSame ==
  ASSUME NEW d \in Ledgers, NEW e \in Ledgers, Thinned(d, e), e.generation = d.generation,
         e.work = d.work, e.obligation = d.obligation, e.assignment = d.assignment,
         d.stopped \subseteq e.stopped,
         \A i \in Indexes(d) : d.activations[i].status \in Live => e.activations[i].status \in Live
  PROVE  Remembers(d, e)
<1>1. \A o \in Obligation : /\ SameNotices(d, e, o)
                            /\ e.generation[Assignee[o]] = d.generation[Assignee[o]]
                            /\ ContinuationAllowed(e, o) => ContinuationAllowed(d, o)
  BY DEF SameNotices, ContinuationAllowed
<1>2. Routes(d, e, {}, {})
  BY <1>1, ThinnedRoutes
<1> QED BY <1>2, RoutesDone DEF Remembers

\* A write of what the invariant does not read.
LEMMA UnreadWrite ==
  ASSUME NEW d, GoodBut(d, {}), NEW e \in Ledgers, SameRead(d, e), e.results = d.results
  PROVE  Quietly(d, e) /\ (d.stopped \subseteq e.stopped => Remembers(d, e))
<1>1. d \in Ledgers
  BY GoodParts
<1>2. GoodBut(e, {})
  BY <1>1, SameReadGood
<1>3. \A r \in Request : PhaseOf(e, r) = PhaseOf(d, r)
  BY DEF PhaseOf, SameRead
<1>4. \A r \in Request : HeldOf(e, r) <=> HeldOf(d, r)
  BY DEF HeldOf, Held0, ActiveCurrent, CurrentClaim, SameRead
<1>5. Onward(d, e)
  BY OnwardSelf DEF SameRead
<1>6. Within(d, e)
  BY WithinSame DEF SameRead
<1>7. ASSUME d.stopped \subseteq e.stopped PROVE Remembers(d, e)
  <2>1. Thinned(d, e)
    BY ThinnedSame DEF SameRead
  <2> QED BY <1>1, <1>7, <2>1, RemembersSame DEF SameRead
<1> QED BY <1>2, <1>3, <1>4, <1>5, <1>6, <1>7 DEF Quietly, Quiet, Alike

\* start_work: nothing is about the work yet.
LEMMA StartWorkStep ==
  ASSUME GoodBut(ledger, {}), NEW w \in Work, NEW a \in Founder, StartWork(w, a)
  PROVE  Quietly(ledger, ledger') /\ Remembers(ledger, ledger')
<1> DEFINE d == ledger
           row == [mode |-> "paused", owner |-> a, revision |-> 1]
           f == [d.work EXCEPT ![w] = row]
           g == IF d.adoptByDefault THEN d.armed \cup {w} ELSE d.armed
           e == [d EXCEPT !.work = f, !.armed = g]
<1>1. /\ d \in Ledgers
      /\ \A v \in Work : WorkKept(d, v)
      /\ \A i \in Indexes(d) : Addressed(d, d.activations[i])
      /\ \A n \in d.incidents : n.nudge \in Indexes(d)
  BY GoodParts
<1>2. d.work[w].mode = "none" /\ ledger' = e
  BY DEF StartWork, Commit
<1>3. row \in WorkRow /\ a \in Actor
  BY ContinuityConstants DEF WorkRow
<1>4. f \in [Work -> WorkRow] /\ f[w] = row /\ \A v \in Work \ {w} : f[v] = d.work[v]
  BY <1>1, <1>3, LedgerFields
<1>5. g \in SUBSET Work /\ d.armed \subseteq g
  BY <1>1 DEF Ledgers
<1> HIDE DEF f, g, d
<1>6. /\ e \in Ledgers /\ e.work = f /\ e.armed = g /\ e.activations = d.activations
      /\ e.generation = d.generation /\ e.obligation = d.obligation /\ e.request = d.request
      /\ e.assignment = d.assignment /\ e.results = d.results /\ e.incidents = d.incidents
      /\ e.wait = d.wait /\ e.handled = d.handled /\ e.replays = d.replays /\ e.stopped = d.stopped
  BY <1>1, <1>4, <1>5 DEF Ledgers
<1> HIDE DEF e
<1>7. Thinned(d, e) /\ Onward(d, e)
  BY <1>6, ThinnedSame
<1>8. Outcomes(e) = Outcomes(d)
  BY <1>6 DEF Outcomes
<1>9. SameDebts(d, e)
  BY <1>5, <1>6, <1>8 DEF SameDebts
<1>10. ASSUME NEW v \in Work
       PROVE  WorkKept(e, v) /\ (d.work[v].mode # "none" => e.work[v].mode # "none")
  <2>1. WorkKept(d, v)
    BY <1>1
  <2>2. PendingReplays(e, v) = PendingReplays(d, v)
    BY <1>6 DEF PendingReplays
  <2>3. CASE v = w
    BY <1>2, <1>3, <1>4, <1>6, <2>1, <2>2, <2>3 DEF WorkKept
  <2>4. CASE v # w
    BY <1>4, <1>6, <2>1, <2>2, <2>4 DEF WorkKept
  <2> QED BY <2>3, <2>4
<1>11. ASSUME NEW i \in Indexes(d) PROVE OwnerStays(d, e, i)
  <2>1. d.activations[i].work # w /\ d.activations[i].work \in Work
    BY <1>1, <1>2, LedgerFields DEF Addressed, Row
  <2>2. e.work[d.activations[i].work] = d.work[d.activations[i].work]
    BY <1>4, <1>6, <2>1
  <2> QED BY <1>6, <2>2 DEF OwnerStays
<1>12. \A n \in e.incidents : n.nudge \in Indexes(d)
  BY <1>1, <1>6
<1>13. GoodBut(d, {})
  BY DEF d
<1>14. GoodBut(e, {}) /\ Quiet(d, e)
  BY <1>6, <1>7, <1>9, <1>10, <1>11, <1>12, <1>13, WorkWriteGood
<1>15. Within(d, e)
  BY <1>4, <1>6 DEF Within
<1>16. Routes(d, e, {}, {w})
  <2>1. \A o \in Obligation : ContinuationAllowed(e, o) => ContinuationAllowed(d, o)
    <3> SUFFICES ASSUME NEW o \in Obligation, ContinuationAllowed(e, o)
                 PROVE  ContinuationAllowed(d, o)
      OBVIOUS
    <3>1. WorkOf[o] \in Work
      BY LedgerConstants
    <3>2. CASE WorkOf[o] = w
      BY <1>2, <3>2 DEF ContinuationAllowed, d
    <3>3. CASE WorkOf[o] # w
      BY <1>4, <1>6, <3>1, <3>3 DEF ContinuationAllowed
    <3> QED BY <3>2, <3>3
  <2>2. \A v \in Work \ {w} : e.work[v] = d.work[v]
    BY <1>4, <1>6
  <2> QED BY <1>1, <1>6, <1>7, <2>1, <2>2, ThinnedRoutes DEF SameNotices
<1>17. OwnerRouted(e, w)
  BY <1>4, <1>6 DEF OwnerRouted, Continues
<1>18. Remembers(d, e)
  BY <1>16, <1>17, RoutesDone DEF Remembers
<1> QED BY <1>2, <1>7, <1>14, <1>15, <1>18 DEF Quietly, d

\* configure_recovery
LEMMA ConfigureRecoveryStep ==
  ASSUME GoodBut(ledger, {}), ConfigureRecovery
  PROVE  Quietly(ledger, ledger') /\ Remembers(ledger, ledger')
<1> DEFINE e == [ledger EXCEPT !.adoptByDefault = ~@]
<1>1. ledger \in Ledgers
  BY GoodParts
<1>2. e \in Ledgers /\ SameRead(ledger, e) /\ e.results = ledger.results
      /\ e.stopped = ledger.stopped
  BY <1>1 DEF Ledgers, SameRead
<1>3. ledger' = e
  BY DEF ConfigureRecovery, Commit
<1> HIDE DEF e
<1> QED BY <1>2, <1>3, UnreadWrite

\* adopt_recovery: the work is armed.
LEMMA AdoptRecoveryStep ==
  ASSUME GoodBut(ledger, {}), NEW w \in Work, AdoptRecovery(w)
  PROVE  Quietly(ledger, ledger') /\ Remembers(ledger, ledger')
<1> DEFINE d == ledger
           e == [ledger EXCEPT !.armed = @ \cup {w}]
<1>1. /\ d \in Ledgers
      /\ \A v \in Work : WorkKept(d, v)
      /\ \A n \in d.incidents : n.nudge \in Indexes(d)
  BY GoodParts
<1>2. ledger' = e
  BY DEF AdoptRecovery, Commit
<1>3. /\ e \in Ledgers /\ e.work = d.work /\ d.armed \subseteq e.armed
      /\ e.activations = d.activations /\ e.results = d.results /\ e.incidents = d.incidents
      /\ e.generation = d.generation /\ e.obligation = d.obligation /\ e.request = d.request
      /\ e.assignment = d.assignment
      /\ e.wait = d.wait /\ e.handled = d.handled /\ e.replays = d.replays /\ e.stopped = d.stopped
  BY <1>1 DEF Ledgers
<1> HIDE DEF e, d
<1>4. Thinned(d, e) /\ Onward(d, e)
  BY <1>3, ThinnedSame
<1>5. SameDebts(d, e)
  BY <1>3 DEF SameDebts, Outcomes
<1>6. \A v \in Work : WorkKept(e, v) /\ (d.work[v].mode # "none" => e.work[v].mode # "none")
  BY <1>1, <1>3 DEF WorkKept, PendingReplays
<1>7. \A i \in Indexes(d) : OwnerStays(d, e, i)
  BY <1>3 DEF OwnerStays
<1>8. \A n \in e.incidents : n.nudge \in Indexes(d)
  BY <1>1, <1>3
<1>9. GoodBut(d, {})
  BY DEF d
<1>10. GoodBut(e, {}) /\ Quiet(d, e)
  BY <1>3, <1>4, <1>5, <1>6, <1>7, <1>8, <1>9, WorkWriteGood
<1>11. Within(d, e)
  BY <1>3, WithinSame
<1>12. Remembers(d, e)
  BY <1>1, <1>3, <1>4, RemembersSame
<1> QED BY <1>2, <1>4, <1>10, <1>11, <1>12 DEF Quietly, d

\* An operation outside the ledger ends.
LEMMA SourceEndsStep ==
  ASSUME GoodBut(ledger, {}), NEW s \in External, NEW outcome \in {"unreadable", "terminal"},
         SourceEnds(s, outcome)
  PROVE  Quietly(ledger, ledger') /\ Remembers(ledger, ledger')
<1> DEFINE e == [ledger EXCEPT !.retained[s] = outcome]
<1>1. ledger \in Ledgers
  BY GoodParts
<1>2. e \in Ledgers /\ SameRead(ledger, e) /\ e.results = ledger.results
      /\ e.stopped = ledger.stopped
  BY <1>1 DEF Ledgers, SameRead
<1>3. ledger' = e
  BY DEF SourceEnds, Commit
<1> HIDE DEF e
<1> QED BY <1>2, <1>3, UnreadWrite

\* observe_signal: a result is recorded and wakes who waits for it.
LEMMA ObserveSignalStep ==
  ASSUME GoodBut(ledger, {}), NEW s \in External, ObserveSignal(s)
  PROVE  Quietly(ledger, ledger') /\ Remembers(ledger, ledger')
<1> DEFINE kind == IF Terminal(ledger, s) THEN "result" ELSE "event"
           m == RecordResult(ledger, <<s, kind>>)
           e == EvaluateWaits(m)
<1>1. ledger' = e
  BY DEF ObserveSignal, Commit
<1>2. kind \in {"result", "event"}
  OBVIOUS
<1> HIDE DEF kind
<1>3. Keeps(ledger, m, {})
  BY <1>2, RecordKeeps
<1>4. Keeps(m, e, {})
  BY <1>3, EvaluateWaitsKeep DEF Keeps
<1> HIDE DEF m, e
<1>5. GoodBut(m, {})
  BY <1>3 DEF Keeps
<1> QED BY <1>1, <1>3, <1>4, <1>5, QuietlyKept, QuietlyKeeps, RemembersKept, RemembersKeeps

\* set_recovery_control, stop: the notices in its scope are revoked.
LEMMA StopStep ==
  ASSUME GoodBut(ledger, {}), NEW scope \in {"project"} \cup Actor \cup Work, NEW a \in Actor,
         Stop(scope, a)
  PROVE  Quietly(ledger, ledger') /\ Remembers(ledger, ledger')
<1> DEFINE d == ledger
           live == Rows(d, LAMBDA x : x.status \in Live /\ Covered(scope, x))
           gone == {n \in d.incidents : n.nudge \notin live}
           h == [d EXCEPT !.stopped = @ \cup {scope}, !.incidents = gone]
           e == Revoke(h, live)
<1>1. /\ d \in Ledgers
      /\ \A v \in Work : WorkKept(d, v)
      /\ \A n \in d.incidents : n.nudge \in Indexes(d)
  BY GoodParts
<1>2. ledger' = e
  BY DEF Stop, Disrupt
<1>3. \A i \in live : d.activations[i].status \in Live /\ Covered(scope, d.activations[i])
  BY DEF Rows
<1> HIDE DEF live
<1>4. gone \in SUBSET IncidentRow
  BY <1>1, LedgerFields
<1>5. /\ h \in Ledgers /\ h.work = d.work /\ h.armed = d.armed
      /\ h.activations = d.activations /\ h.results = d.results /\ h.incidents = gone
      /\ h.generation = d.generation /\ h.obligation = d.obligation /\ h.request = d.request
      /\ h.assignment = d.assignment
      /\ h.wait = d.wait /\ h.handled = d.handled /\ h.replays = d.replays
      /\ h.stopped = d.stopped \cup {scope}
  BY <1>1, <1>4 DEF Ledgers
<1> HIDE DEF h, d
<1>6. /\ e \in Ledgers /\ Rest(h, e) /\ e.incidents = gone
      /\ Thinned(h, e) /\ Onward(h, e) /\ RevokedRows(h, e, live)
  BY <1>5, RevokeEffect
<1> HIDE DEF e
<1>7. Thinned(d, e) /\ Onward(d, e)
  BY <1>5, <1>6, ThinnedSame
<1>8. SameDebts(d, e)
  BY <1>5, <1>6 DEF SameDebts, Outcomes, Rest, Frame
<1>9. \A v \in Work : WorkKept(e, v) /\ (d.work[v].mode # "none" => e.work[v].mode # "none")
  BY <1>1, <1>5, <1>6 DEF WorkKept, PendingReplays, Rest, Frame
<1>10. ASSUME NEW i \in Indexes(d), e.activations[i].status \in Live PROVE OwnerStays(d, e, i)
  <2>1. i \notin live
    BY <1>3, <1>5, <1>6, <1>10 DEF RevokedRows, Live, Indexes
  <2> QED BY <1>5, <1>6, <2>1 DEF OwnerStays, Rest, Frame
<1>11. \A n \in e.incidents : n.nudge \in Indexes(d)
  BY <1>1, <1>6
<1>12. GoodBut(d, {})
  BY DEF d
<1>13. GoodBut(e, {}) /\ Quiet(d, e)
  BY <1>6, <1>7, <1>8, <1>9, <1>10, <1>11, <1>12, WorkWriteGood
<1>14. Within(d, e)
  BY <1>5, <1>6, WithinSame DEF Rest, Frame
<1>15. ASSUME NEW i \in Indexes(d), d.activations[i].status \in Live,
              e.activations[i].status \notin Live
       PROVE  Spared(d, e, i, {}, {})
  <2> DEFINE x == d.activations[i]
             o == x.marks.obligation
  <2>1. i \in live
    BY <1>5, <1>6, <1>15 DEF RevokedRows, Indexes
  <2>2. Covered(scope, x) /\ scope \in e.stopped
    BY <1>3, <1>5, <1>6, <2>1 DEF Rest, Frame
  <2>3. ExplicitStop(e, x.work, x.actor)
    BY <2>2 DEF Covered, ExplicitStop
  <2>4. Addressed(d, x)
    BY <1>12, GoodParts
  <2>5. o \in Obligation => WorkOf[o] = x.work /\ Assignee[o] = x.actor
    BY <2>4, LedgerConstants DEF Addressed
  <2> QED BY <2>3, <2>5 DEF Spared, Owed, Continues
<1>16. Routes(d, e, {}, {})
  <2>1. /\ e.work = d.work /\ e.generation = d.generation /\ e.obligation = d.obligation
        /\ e.assignment = d.assignment /\ d.stopped \subseteq e.stopped
    BY <1>5, <1>6 DEF Rest, Frame
  <2> QED BY <1>1, <1>6, <1>7, <1>15, <2>1, ThinnedRoutes DEF SameNotices, ContinuationAllowed
<1>17. Remembers(d, e)
  BY <1>16, RoutesDone DEF Remembers
<1> QED BY <1>2, <1>7, <1>13, <1>14, <1>17 DEF Quietly, d

\* set_recovery_control, resume: the routes in its scope are restored.
LEMMA ResumeStep ==
  ASSUME GoodBut(ledger, {}), NEW scope, NEW a \in Actor, Resume(scope, a)
  PROVE  Quietly(ledger, ledger') /\ Remembers(ledger, ledger')
<1> DEFINE m == [ledger EXCEPT !.stopped = @ \ {scope}]
           e == RearmScope(m, scope)
<1>1. ledger \in Ledgers
  BY GoodParts
<1>2. m \in Ledgers /\ SameRead(ledger, m) /\ m.results = ledger.results
      /\ m.stopped = ledger.stopped \ {scope}
  BY <1>1 DEF Ledgers, SameRead
<1>3. ledger' = e
  BY DEF Resume, Disrupt
<1> HIDE DEF m
<1>4. Quietly(ledger, m)
  BY <1>2, UnreadWrite
<1>5. /\ Keeps(m, e, {}) /\ \A w \in WorksOfScope(m, scope) : WorkRouted(e, w)
  BY <1>4, RearmScopeKeeps DEF Quietly
<1> DEFINE W == WorksOfScope(m, scope)
           O == {o \in Obligation : WorkOf[o] \in W}
<1>6. /\ m.work = ledger.work /\ m.obligation = ledger.obligation /\ m.assignment = ledger.assignment
      /\ m.generation = ledger.generation /\ m.activations = ledger.activations
  BY <1>2 DEF SameRead
<1>7. ASSUME NEW o \in Obligation \ O, DebtRouted(ledger, o) PROVE DebtRouted(m, o)
  <2>1. WorkOf[o] \in Work /\ DebtKept(ledger, o)
    BY GoodParts, LedgerConstants
  <2>2. ASSUME m.obligation[o].status = "open" PROVE scope \notin {"project", WorkOf[o], Assignee[o]}
    <3>1. m.work[WorkOf[o]].mode # "none"
      BY <1>6, <2>1, <2>2 DEF DebtKept
    <3> QED BY <2>1, <2>2, <3>1 DEF WorksOfScope
  <2>3. ASSUME Owed(m, o) PROVE Owed(ledger, o)
    <3>1. scope \notin {"project", WorkOf[o], Assignee[o]}
      BY <2>2, <2>3 DEF Owed
    <3>2. ExplicitStop(ledger, WorkOf[o], Assignee[o]) => ExplicitStop(m, WorkOf[o], Assignee[o])
      BY <1>2, <3>1 DEF ExplicitStop
    <3> QED BY <1>6, <2>3, <3>2 DEF Owed, ContinuationAllowed
  <2>4. Noticed(m, o) <=> Noticed(ledger, o)
    BY <1>6 DEF Noticed, Indexes
  <2> QED BY <1>6, <1>7, <2>3, <2>4 DEF DebtRouted
<1>8. ASSUME NEW w \in Work \ W, OwnerRouted(ledger, w) PROVE OwnerRouted(m, w)
  <2>1. ASSUME Continues(m, w) PROVE Continues(ledger, w)
    <3>1. scope \notin {"project", w, m.work[w].owner}
      BY <2>1 DEF WorksOfScope, Continues
    <3>2. ExplicitStop(ledger, w, m.work[w].owner) => ExplicitStop(m, w, m.work[w].owner)
      BY <1>2, <3>1 DEF ExplicitStop
    <3> QED BY <1>6, <2>1, <3>2 DEF Continues
  <2> QED BY <1>6, <1>8, <2>1 DEF OwnerRouted, OwnerRoute, Indexes
<1>9. \A o \in Obligation : InStep(ledger, o) => InStep(m, o)
  BY <1>6 DEF InStep, Indexes
<1>10. Routes(m, e, {}, {})
  BY <1>2, <1>5, KeepsRoutes
<1> HIDE DEF e
<1>11. Remembers(ledger, e)
  <2> SUFFICES ASSUME Routed(ledger) PROVE Routed(e)
    BY DEF Remembers
  <2>1. ASSUME NEW o \in Obligation PROVE DebtRouted(e, o) /\ InStep(e, o)
    <3>1. InStep(e, o)
      BY <1>9, <1>10 DEF Routed, Routes
    <3>2. CASE o \in O
      BY <1>5, <3>1, <3>2 DEF WorkRouted
    <3>3. CASE o \notin O
      BY <1>7, <1>10, <3>1, <3>3 DEF Routed, Routes
    <3> QED BY <3>2, <3>3
  <2>2. ASSUME NEW w \in Work PROVE OwnerRouted(e, w)
    <3>1. CASE w \in W
      BY <1>5, <3>1 DEF WorkRouted
    <3>2. CASE w \notin W
      BY <1>8, <1>10, <3>2 DEF Routed, Routes
    <3> QED BY <3>1, <3>2
  <2> QED BY <2>1, <2>2 DEF Routed
<1> QED BY <1>3, <1>4, <1>5, <1>11, QuietlyKeeps

\* reconcile
LEMMA ReconcileStep ==
  ASSUME GoodBut(ledger, {}), NEW due, Reconcile(due)
  PROVE  Quietly(ledger, ledger') /\ Remembers(ledger, ledger')
<1> DEFINE s == ReconcileSources(ledger, WaitSources)
           m == EvaluateWaits(s)
           f == RedeliverRequests(m, Request)
           e == ReconcileRecovery(f, due)
<1>1. ledger' = e
  BY DEF Reconcile, Commit
<1>2. Keeps(ledger, s, {})
  BY ReconcileSourcesKeeps
<1>3. Keeps(s, m, {})
  BY <1>2, EvaluateWaitsKeep DEF Keeps
<1>4. Keeps(m, f, {}) /\ \A r \in Request : Delivered(f, r)
  BY <1>3, RedeliverRequestsKeep DEF Keeps
<1> HIDE DEF f, m, s
<1>5. Keeps(f, e, {})
  BY <1>4, ReconcileRecoveryKeeps DEF Keeps
<1> HIDE DEF e
<1>6. Remembers(ledger, e)
  <2>1. GoodBut(s, {}) /\ GoodBut(m, {}) /\ GoodBut(f, {})
    BY <1>2, <1>3, <1>4 DEF Keeps
  <2> QED BY <1>2, <1>3, <1>4, <1>5, <2>1, RemembersKept, RemembersThen
<1> QED BY <1>1, <1>2, <1>3, <1>4, <1>5, <1>6, QuietlyKept, QuietlyKeeps

\* self_check
LEMMA SelfCheckStep ==
  ASSUME GoodBut(ledger, {}), SelfCheck
  PROVE  Quietly(ledger, ledger') /\ Remembers(ledger, ledger')
<1>1. ledger' = Repaired(ledger)
  BY DEF SelfCheck, Commit
<1>2. Keeps(ledger, Repaired(ledger), {})
  BY RepairedKeeps
<1> QED BY <1>1, <1>2, QuietlyKept, RemembersKept

\* publish_pending marks a row that is still pending: no transaction tells the difference.
LEMMA MarkPublishedStep ==
  ASSUME GoodBut(ledger, {}), NEW i \in Indexes(ledger), MarkPublished(i)
  PROVE  /\ GoodBut(ledger', {}) /\ Quiet(ledger, ledger') /\ Indexes(ledger') = Indexes(ledger)
         /\ Within(ledger, ledger') /\ Remembers(ledger, ledger')
         /\ \A j \in Indexes(ledger) :
              \/ ledger'.activations[j].status = ledger.activations[j].status
              \/ j = i /\ ledger.activations[j].status = "pending"
<1> DEFINE d == ledger
           s == d.activations
           x == s[i]
           y == Marked(x)
           t == [s EXCEPT ![i] = y]
           e == [d EXCEPT !.activations = t]
<1>1. /\ d \in Ledgers
      /\ \A v \in Work : WorkKept(d, v)
      /\ \A n \in d.incidents : n.nudge \in Indexes(d)
  BY GoodParts
<1>2. ledger' = e
  BY DEF MarkPublished
<1>3. s \in Seq(Row) /\ DOMAIN s = Indexes(d) /\ x \in Row
  BY <1>1, LedgerFields DEF Indexes
<1>4. /\ y \in Row /\ y.work = x.work /\ y.actor = x.actor /\ y.revision = x.revision
      /\ y.endpoint = x.endpoint /\ y.generation = x.generation /\ y.reason = x.reason
      /\ y.marks = x.marks
      /\ y.status = IF x.status = "pending" THEN "published" ELSE x.status
  BY <1>3 DEF Marked, Row, Active, Live
<1> HIDE DEF y
<1>5. t \in Seq(Row) /\ DOMAIN t = DOMAIN s
  BY <1>3, <1>4
<1>6. t[i] = y /\ \A j \in DOMAIN s : j # i => t[j] = s[j]
  BY <1>3
<1> HIDE DEF t, d
<1>7. /\ e \in Ledgers /\ e.work = d.work /\ e.armed = d.armed /\ e.activations = t
      /\ e.results = d.results /\ e.incidents = d.incidents
      /\ e.generation = d.generation /\ e.obligation = d.obligation /\ e.request = d.request
      /\ e.assignment = d.assignment
      /\ e.wait = d.wait /\ e.handled = d.handled /\ e.replays = d.replays /\ e.stopped = d.stopped
  BY <1>1, <1>5 DEF Ledgers
<1> HIDE DEF e
<1>8. Indexes(e) = Indexes(d)
  BY <1>3, <1>5, <1>7 DEF Indexes
<1>9. Thinned(d, e)
  <2> SUFFICES ASSUME NEW j \in Indexes(d)
               PROVE  LET v == s[j]
                          u == t[j]
                      IN /\ u.work = v.work /\ u.actor = v.actor /\ u.revision = v.revision
                         /\ u.endpoint = v.endpoint /\ u.generation = v.generation
                         /\ u.reason = v.reason /\ u.marks = v.marks
                         /\ u.status = "claimed" <=> v.status = "claimed"
                         /\ u.status \in Live => v.status \in Live
    BY <1>7, <1>8 DEF Thinned
  <2>1. CASE j = i
    BY <1>4, <1>6, <2>1 DEF Live
  <2>2. CASE j # i
    BY <1>3, <1>6, <2>2
  <2> QED BY <2>1, <2>2
<1>10. SameDebts(d, e)
  BY <1>7 DEF SameDebts, Outcomes
<1>11. \A v \in Work : WorkKept(e, v) /\ (d.work[v].mode # "none" => e.work[v].mode # "none")
  BY <1>1, <1>7 DEF WorkKept, PendingReplays
<1>12. \A j \in Indexes(d) : OwnerStays(d, e, j)
  BY <1>7 DEF OwnerStays
<1>13. \A n \in e.incidents : n.nudge \in Indexes(d)
  BY <1>1, <1>7
<1>14. GoodBut(d, {})
  BY DEF d
<1>15. GoodBut(e, {}) /\ Quiet(d, e)
  BY <1>7, <1>9, <1>10, <1>11, <1>12, <1>13, <1>14, WorkWriteGood
<1>16. \A j \in Indexes(d) : \/ e.activations[j].status = d.activations[j].status
                             \/ j = i /\ d.activations[j].status = "pending"
  BY <1>3, <1>4, <1>6, <1>7
<1>17. Within(d, e)
  BY <1>7, WithinSame
<1>18. Remembers(d, e)
  <2>1. \A j \in Indexes(d) : d.activations[j].status \in Live => e.activations[j].status \in Live
    BY <1>3, <1>4, <1>6, <1>7 DEF Live
  <2> QED BY <1>1, <1>7, <1>9, <2>1, RemembersSame
<1> QED BY <1>2, <1>8, <1>15, <1>16, <1>17, <1>18 DEF d

(***************************************************************************)
(* Checkpoints and transfers.                                              *)
(***************************************************************************)
LEMMA OwnerRow ==
  ASSUME NEW d, NEW P, GoodBut(d, P), NEW i \in Indexes(d), d.activations[i].status \in Live,
         d.activations[i].marks.obligation = None, d.activations[i].marks.request = None
  PROVE  /\ d.activations[i].actor = d.work[d.activations[i].work].owner
         /\ d.activations[i].reason \in OwnerControl \cup {"work_recovery"}
<1>1. Addressed(d, d.activations[i]) /\ LiveKept(d, i)
  BY GoodParts
<1> QED BY <1>1 DEF Addressed, LiveKept

LEMMA WorkRowWrite ==
  ASSUME NEW z \in WorkRow, NEW a, NEW mode
  PROVE  LET p == [z EXCEPT !.owner = a]
             q == [z EXCEPT !.mode = mode]
         IN /\ p.revision = z.revision /\ q.revision = z.revision
            /\ [p EXCEPT !.revision = z.revision + 1]
                  = [mode |-> z.mode, owner |-> a, revision |-> z.revision + 1]
            /\ [q EXCEPT !.revision = z.revision + 1]
                  = [mode |-> mode, owner |-> z.owner, revision |-> z.revision + 1]
<1>1. z = [mode |-> z.mode, owner |-> z.owner, revision |-> z.revision]
  BY DEF WorkRow
<1>2. \A m, o, n, k : [[mode |-> m, owner |-> o, revision |-> n] EXCEPT !.revision = k]
                      = [mode |-> m, owner |-> o, revision |-> k]
  OBVIOUS
<1>3. /\ [z EXCEPT !.owner = a] = [mode |-> z.mode, owner |-> a, revision |-> z.revision]
      /\ [z EXCEPT !.mode = mode] = [mode |-> mode, owner |-> z.owner, revision |-> z.revision]
  BY <1>1
<1> DEFINE p == [z EXCEPT !.owner = a]
           q == [z EXCEPT !.mode = mode]
           n == z.revision + 1
<1>4. p.revision = z.revision /\ q.revision = z.revision
  BY <1>3
<1>5. p = [mode |-> z.mode, owner |-> a, revision |-> z.revision]
      /\ q = [mode |-> mode, owner |-> z.owner, revision |-> z.revision]
  BY <1>3
<1> HIDE DEF p, q, n
<1>6. [p EXCEPT !.revision = n] = [mode |-> z.mode, owner |-> a, revision |-> n]
  BY <1>2, <1>5
<1>7. [q EXCEPT !.revision = n] = [mode |-> mode, owner |-> z.owner, revision |-> n]
  BY <1>2, <1>5
<1> QED BY <1>4, <1>6, <1>7 DEF p, q, n

\* A write of the work w: the owners of the others keep their routes, and so do the assignments
\* but those that a completed product no longer needs.
LEMMA WorkRoutes ==
  ASSUME NEW d, GoodBut(d, {}), NEW e \in Ledgers, Thinned(d, e), NEW w \in Work,
         d.stopped \subseteq e.stopped, e.generation = d.generation,
         e.obligation = d.obligation, e.assignment = d.assignment,
         \A v \in Work \ {w} : e.work[v] = d.work[v],
         d.work[w].mode # "complete",
         \A i \in Indexes(d) : /\ d.activations[i].status \in Live
                               /\ e.activations[i].status \notin Live
            => LET o == d.activations[i].marks.obligation
               IN /\ d.activations[i].work = w
                  /\ o # None => RequestOf(o) = None /\ e.work[w].mode = "complete"
  PROVE  Routes(d, e, {}, {w})
<1>1. /\ d \in Ledgers
      /\ \A i \in Indexes(d) : Addressed(d, d.activations[i])
  BY GoodParts
<1>2. ASSUME NEW o \in Obligation, ContinuationAllowed(e, o) PROVE ContinuationAllowed(d, o)
  <2>1. WorkOf[o] \in Work
    BY LedgerConstants
  <2> QED BY <1>2, <2>1 DEF ContinuationAllowed
<1>3. ASSUME NEW i \in Indexes(d), d.activations[i].status \in Live,
             e.activations[i].status \notin Live
      PROVE  Spared(d, e, i, {}, {w})
  <2> DEFINE x == d.activations[i]
             o == x.marks.obligation
  <2>1. /\ x.work = w
        /\ o # None => RequestOf(o) = None /\ e.work[w].mode = "complete"
    BY <1>3
  <2>2. o # None => x.work = WorkOf[o]
    BY <1>1 DEF Addressed
  <2>3. ASSUME o \in Obligation PROVE ~Owed(e, o)
    <3>1. o # None
      BY <2>3, LedgerConstants
    <3>2. ~ContinuationAllowed(e, o)
      BY <2>1, <2>2, <3>1 DEF ContinuationAllowed
    <3> QED BY <3>2 DEF Owed
  <2> QED BY <2>1, <2>3 DEF Spared
<1>4. \A o \in Obligation : /\ SameNotices(d, e, o)
                            /\ e.generation[Assignee[o]] = d.generation[Assignee[o]]
  BY DEF SameNotices
<1> QED BY <1>1, <1>2, <1>3, <1>4, ThinnedRoutes

\* transfer: the old owner's notices are revoked.
LEMMA TransferStep ==
  ASSUME GoodBut(ledger, {}), NEW w \in Work, NEW to \in Actor, Transfer(w, to)
  PROVE  Quietly(ledger, ledger') /\ Remembers(ledger, ledger')
<1> DEFINE d == ledger
           a == d.work[w].owner
           row == [mode |-> d.work[w].mode, owner |-> to, revision |-> d.work[w].revision + 1]
           f == [d.work EXCEPT ![w] = row]
           m == [d EXCEPT !.work = f]
           rows == Rows(m, LAMBDA x : /\ x.work = w /\ x.actor = a
                                      /\ \/ x.reason \in OwnerControl
                                         \/ x.reason = "work_recovery" /\ x.marks.request = None)
           e == Revoke(m, rows)
           h == IF ExplicitStop(e, w, to) THEN e
                ELSE Create(e, w, to, "ownership_transferred", 0, NoMarks)
<1>1. /\ d \in Ledgers
      /\ \A i \in Indexes(d) : Addressed(d, d.activations[i])
      /\ \A v \in Work : WorkKept(d, v)
      /\ \A n \in d.incidents : n.nudge \in Indexes(d)
  BY GoodParts
<1>2. d.work \in [Work -> WorkRow] /\ d.work[w] \in WorkRow
  BY <1>1, LedgerFields
<1>3. m = [d EXCEPT !.work[w].owner = to, !.work[w].revision = @ + 1]
  <2> DEFINE p == [d.work[w] EXCEPT !.owner = to]
             k == [d EXCEPT !.work = [d.work EXCEPT ![w] = p]]
  <2>1. k = [d EXCEPT !.work[w].owner = to]
    OBVIOUS
  <2>2. k.work = [d.work EXCEPT ![w] = p] /\ k.work[w] = p
    BY <1>1, <1>2 DEF Ledgers
  <2>3. p.revision = d.work[w].revision /\ [p EXCEPT !.revision = d.work[w].revision + 1] = row
    BY <1>2, WorkRowWrite
  <2> HIDE DEF p, k, row
  <2>4. [d EXCEPT !.work[w].owner = to, !.work[w].revision = @ + 1]
          = [k EXCEPT !.work = [k.work EXCEPT ![w] = [k.work[w] EXCEPT !.revision = @ + 1]]]
    BY <2>1
  <2>5. [k.work[w] EXCEPT !.revision = @ + 1] = row
    BY <2>2, <2>3
  <2>6. [k.work EXCEPT ![w] = row] = f
    BY <1>2, <2>2
  <2>7. [k EXCEPT !.work = f] = m
    BY DEF k
  <2> QED BY <2>4, <2>5, <2>6, <2>7
<1>4. ledger' = h /\ d.work[w].mode \notin {"none", "complete"}
  BY <1>3 DEF Transfer, Disrupt, RevokeOwnerControl, Mutable, Owner
<1>5. row \in WorkRow
  BY <1>2 DEF WorkRow
<1>6. f \in [Work -> WorkRow] /\ f[w] = row /\ \A v \in Work \ {w} : f[v] = d.work[v]
  BY <1>2, <1>5
<1>7. row.mode = d.work[w].mode /\ row.owner = to
  OBVIOUS
<1> HIDE DEF f, d, row
<1>8. /\ m \in Ledgers /\ m.work = f /\ m.armed = d.armed /\ m.activations = d.activations
      /\ m.generation = d.generation /\ m.obligation = d.obligation /\ m.request = d.request
      /\ m.assignment = d.assignment /\ m.results = d.results /\ m.incidents = d.incidents
      /\ m.wait = d.wait /\ m.handled = d.handled /\ m.replays = d.replays
      /\ m.stopped = d.stopped
  BY <1>1, <1>6 DEF Ledgers
<1>9. \A i \in Indexes(d) : i \in rows <=>
        LET x == d.activations[i]
        IN /\ x.work = w /\ x.actor = a
           /\ \/ x.reason \in OwnerControl
              \/ x.reason = "work_recovery" /\ x.marks.request = None
  BY <1>8 DEF Rows, Indexes
<1> HIDE DEF m, rows
<1>10. /\ e \in Ledgers /\ Rest(m, e) /\ e.incidents = m.incidents
       /\ Thinned(m, e) /\ Onward(m, e) /\ RevokedRows(m, e, rows)
  BY <1>8, RevokeEffect
<1> HIDE DEF e
<1>11. Thinned(d, e) /\ Onward(d, e)
  BY <1>8, <1>10, ThinnedSame
<1>12. SameDebts(d, e)
  BY <1>8, <1>10 DEF SameDebts, Outcomes, Rest, Frame
<1>13. ASSUME NEW v \in Work
       PROVE  WorkKept(e, v) /\ (d.work[v].mode # "none" => e.work[v].mode # "none")
  <2>1. WorkKept(d, v)
    BY <1>1
  <2>2. PendingReplays(e, v) = PendingReplays(d, v)
    BY <1>8, <1>10 DEF PendingReplays, Rest, Frame
  <2>3. e.work = f /\ e.wait = d.wait /\ e.handled = d.handled
    BY <1>8, <1>10 DEF Rest, Frame
  <2>4. CASE v = w
    BY <1>6, <1>7, <2>1, <2>2, <2>3, <2>4 DEF WorkKept
  <2>5. CASE v # w
    BY <1>6, <2>1, <2>2, <2>3, <2>5 DEF WorkKept
  <2> QED BY <2>4, <2>5
<1>14. GoodBut(d, {})
  BY DEF d
<1>15. ASSUME NEW i \in Indexes(d), e.activations[i].status \in Live PROVE OwnerStays(d, e, i)
  <2> DEFINE x == d.activations[i]
  <2>1. x.work \in Work
    BY <1>1, LedgerFields DEF Row
  <2>2. x.status \in Live /\ i \notin rows
    BY <1>8, <1>10, <1>15 DEF RevokedRows, Live, Indexes
  <2>3. x.marks.obligation = None /\ x.marks.request = None => x.work # w
    BY <1>9, <1>14, <2>2, OwnerRow
  <2>4. e.work = f /\ e.incidents = d.incidents
    BY <1>8, <1>10 DEF Rest, Frame
  <2>5. e.work[x.work].mode = d.work[x.work].mode
    BY <1>6, <1>7, <2>1, <2>4
  <2> HIDE DEF x
  <2>6. x.work # w => e.work[x.work] = d.work[x.work]
    BY <1>6, <2>1, <2>4
  <2> QED BY <2>3, <2>4, <2>5, <2>6 DEF OwnerStays, x
<1>16. \A n \in e.incidents : n.nudge \in Indexes(d)
  BY <1>1, <1>8, <1>10
<1>17. GoodBut(e, {}) /\ Quiet(d, e)
  BY <1>10, <1>11, <1>12, <1>13, <1>14, <1>15, <1>16, WorkWriteGood
<1>18. Quietly(d, e)
  <2>1. e.work = f /\ e.generation = d.generation
    BY <1>8, <1>10 DEF Rest, Frame
  <2>2. d.work[w].revision < agenda.revisions
    BY DEF Transfer, d
  <2>3. row.revision = d.work[w].revision + 1
    BY DEF row
  <2>4. Within(d, e)
    BY <1>6, <2>1, <2>2, <2>3 DEF Within
  <2> QED BY <1>11, <1>17, <2>4 DEF Quietly
<1>19. Keeps(e, h, {})
  <2> DEFINE x == NewRow(e, w, to, "ownership_transferred", 0, NoMarks)
  <2>1. e.work[w].mode \notin {"none", "complete"} /\ e.work[w].owner = to
    BY <1>4, <1>6, <1>7, <1>8, <1>10 DEF Rest, Frame, d
  <2>2. NoMarks \in Marks /\ NoMarks.request = None /\ NoMarks.obligation = None
    BY DEF Marks, NoMarks
  <2>3. x.work = w /\ x.actor = to /\ x.reason = "ownership_transferred" /\ x.marks = NoMarks
        /\ x.endpoint = e.generation[to]
    BY DEF NewRow
  <2>4. e.generation[to] \in Nat
    BY <1>10, LedgerFields
  <2> HIDE DEF x
  <2>5. Addressed(e, x)
    BY <2>1, <2>2, <2>3, <2>4 DEF Addressed, OwnerControl
  <2>6. Fits(e, x) /\ Allowed(e, x)
    BY <2>1, <2>2, <2>3 DEF Fits, Allowed
  <2>7. "ownership_transferred" \in Reasons \ (Recovery \cup {"request_reply"})
    BY DEF Reasons, Recovery, OwnerControl
  <2>8. Keeps(e, Create(e, w, to, "ownership_transferred", 0, NoMarks), {})
    BY <1>17, <2>2, <2>5, <2>6, <2>7, CreateGood DEF Keeps, x
  <2>9. Keeps(e, e, {})
    BY <1>17, KeepsReflexive
  <2> QED BY <2>8, <2>9
<1>20. Routes(d, e, {}, {w})
  <2>1. /\ e.work = f /\ e.generation = d.generation /\ e.obligation = d.obligation
        /\ e.assignment = d.assignment /\ e.stopped = d.stopped
    BY <1>8, <1>10 DEF Rest, Frame
  <2>2. \A v \in Work \ {w} : e.work[v] = d.work[v]
    BY <1>6, <2>1
  <2>3. d.work[w].mode # "complete"
    BY <1>4 DEF d
  <2>4. ASSUME NEW i \in Indexes(d), d.activations[i].status \in Live,
               e.activations[i].status \notin Live
        PROVE  d.activations[i].work = w /\ d.activations[i].marks.obligation = None
    <3>1. i \in rows
      BY <1>8, <1>10, <2>4 DEF RevokedRows, Indexes
    <3>2. /\ d.activations[i].work = w
          /\ d.activations[i].reason \in OwnerControl \cup {"work_recovery"}
      BY <1>9, <3>1
    <3>3. Addressed(d, d.activations[i])
      BY <1>1
    <3> QED BY <3>2, <3>3 DEF Addressed, AssignmentReasons, OwnerControl
  <2> QED BY <1>10, <1>11, <1>14, <2>1, <2>2, <2>3, <2>4, WorkRoutes
<1>21. OwnerRouted(h, w)
  <2>1. e.work[w].owner = to
    BY <1>6, <1>7, <1>8, <1>10 DEF Rest, Frame
  <2>2. CASE ExplicitStop(e, w, to)
    BY <2>1, <2>2 DEF OwnerRouted, Continues
  <2>3. CASE ~ExplicitStop(e, w, to)
    <3>1. NoMarks \in Marks
      BY MarksTyped DEF NoMarks
    <3>2. OwnerRouted(Create(e, w, e.work[w].owner, "ownership_transferred", 0, NoMarks), w)
      BY <1>10, <2>1, <3>1, OwnerCreated DEF OwnerControl
    <3> QED BY <2>1, <2>3, <3>2
  <2> QED BY <2>2, <2>3
<1>22. Remembers(d, h)
  <2>1. Routes(e, h, {}, {w})
    BY <1>10, <1>19, KeepsRoutes
  <2>2. Routes(d, h, {}, {w})
    BY <1>20, <2>1, RoutesThen
  <2> HIDE DEF h
  <2> QED BY <1>21, <2>2, RoutesDone DEF Remembers
<1> QED BY <1>4, <1>18, <1>19, <1>22, QuietlyKeeps DEF d

\* What a write of a wait, of handled results or of replays leaves alone.
Besides(d, e) ==
  /\ e.activations = d.activations /\ e.work = d.work /\ e.incidents = d.incidents
  /\ e.generation = d.generation /\ e.obligation = d.obligation /\ e.request = d.request
  /\ e.assignment = d.assignment /\ e.results = d.results /\ e.armed = d.armed
  /\ e.stopped = d.stopped

LEMMA WaitWrites ==
  ASSUME NEW d \in Ledgers, NEW w \in Work
  PROVE  /\ \A h \in SUBSET Outcome :
              LET e == [d EXCEPT !.handled[w] = h]
              IN /\ e \in Ledgers /\ Besides(d, e) /\ e.wait = d.wait /\ e.replays = d.replays
                 /\ e.handled[w] = h /\ \A v \in Work \ {w} : e.handled[v] = d.handled[v]
         /\ \A h \in SUBSET (Outcome \X Nat) :
              LET e == [d EXCEPT !.replays[w] = h]
              IN /\ e \in Ledgers /\ Besides(d, e) /\ e.wait = d.wait /\ e.handled = d.handled
                 /\ e.replays[w] = h /\ \A v \in Work \ {w} : e.replays[v] = d.replays[v]
         /\ \A h \in WaitRow :
              LET e == [d EXCEPT !.wait[w] = h]
              IN /\ e \in Ledgers /\ Besides(d, e) /\ e.handled = d.handled /\ e.replays = d.replays
                 /\ e.wait[w] = h /\ \A v \in Work \ {w} : e.wait[v] = d.wait[v]
<1>1. /\ d.handled \in [Work -> SUBSET Outcome] /\ d.replays \in [Work -> SUBSET (Outcome \X Nat)]
      /\ d.wait \in [Work -> WaitRow]
  BY DEF Ledgers
<1>2. ASSUME NEW h \in SUBSET Outcome
      PROVE  LET e == [d EXCEPT !.handled[w] = h]
             IN /\ e \in Ledgers /\ Besides(d, e) /\ e.wait = d.wait /\ e.replays = d.replays
                /\ e.handled[w] = h /\ \A v \in Work \ {w} : e.handled[v] = d.handled[v]
  <2> DEFINE f == [d.handled EXCEPT ![w] = h]
             e == [d EXCEPT !.handled = f]
  <2>1. f \in [Work -> SUBSET Outcome] /\ f[w] = h /\ \A v \in Work \ {w} : f[v] = d.handled[v]
    BY <1>1
  <2> HIDE DEF f
  <2>2. /\ e \in Ledgers /\ Besides(d, e) /\ e.wait = d.wait /\ e.replays = d.replays
        /\ e.handled = f
    BY <2>1 DEF Ledgers, Besides
  <2> QED BY <2>1, <2>2 DEF f
<1>3. ASSUME NEW h \in SUBSET (Outcome \X Nat)
      PROVE  LET e == [d EXCEPT !.replays[w] = h]
             IN /\ e \in Ledgers /\ Besides(d, e) /\ e.wait = d.wait /\ e.handled = d.handled
                /\ e.replays[w] = h /\ \A v \in Work \ {w} : e.replays[v] = d.replays[v]
  <2> DEFINE f == [d.replays EXCEPT ![w] = h]
             e == [d EXCEPT !.replays = f]
  <2>1. f \in [Work -> SUBSET (Outcome \X Nat)] /\ f[w] = h /\ \A v \in Work \ {w} : f[v] = d.replays[v]
    BY <1>1
  <2> HIDE DEF f
  <2>2. /\ e \in Ledgers /\ Besides(d, e) /\ e.wait = d.wait /\ e.handled = d.handled
        /\ e.replays = f
    BY <2>1 DEF Ledgers, Besides
  <2> QED BY <2>1, <2>2 DEF f
<1>4. ASSUME NEW h \in WaitRow
      PROVE  LET e == [d EXCEPT !.wait[w] = h]
             IN /\ e \in Ledgers /\ Besides(d, e) /\ e.handled = d.handled /\ e.replays = d.replays
                /\ e.wait[w] = h /\ \A v \in Work \ {w} : e.wait[v] = d.wait[v]
  <2> DEFINE f == [d.wait EXCEPT ![w] = h]
             e == [d EXCEPT !.wait = f]
  <2>1. f \in [Work -> WaitRow] /\ f[w] = h /\ \A v \in Work \ {w} : f[v] = d.wait[v]
    BY <1>1
  <2> HIDE DEF f
  <2>2. /\ e \in Ledgers /\ Besides(d, e) /\ e.handled = d.handled /\ e.replays = d.replays
        /\ e.wait = f
    BY <2>1 DEF Ledgers, Besides
  <2> QED BY <2>1, <2>2 DEF f
<1> QED BY <1>2, <1>3, <1>4

\* _record_replay_decisions: what was pending is pending still, unless it was decided.
LEMMA RecordReplaysEffect ==
  ASSUME NEW d \in Ledgers, NEW w \in Work, NEW n \in Nat, NEW handled, NEW again \in SUBSET Outcome
  PROVE  LET e == RecordReplays(d, w, n, handled, again)
         IN /\ e \in Ledgers /\ Besides(d, e) /\ e.wait = d.wait /\ e.handled = d.handled
            /\ \A v \in Work \ {w} : e.replays[v] = d.replays[v]
            /\ PendingReplays(e, w) \subseteq (PendingReplays(d, w) \ handled) \cup again
<1> DEFINE old == d.replays[w]
           h == {p \in old : p[1] \notin handled \cup again} \cup {<<c, n>> : c \in again}
           e == RecordReplays(d, w, n, handled, again)
<1>1. old \in SUBSET (Outcome \X Nat)
  BY DEF Ledgers
<1>2. h \in SUBSET (Outcome \X Nat)
  BY <1>1
<1>3. e = [d EXCEPT !.replays[w] = h]
  BY DEF RecordReplays
<1>4. \A p \in h : \/ p \in old /\ p[1] \notin handled
                   \/ p[1] \in again
  OBVIOUS
<1> HIDE DEF h, e
<1>5. /\ e \in Ledgers /\ Besides(d, e) /\ e.wait = d.wait /\ e.handled = d.handled
      /\ e.replays[w] = h /\ \A v \in Work \ {w} : e.replays[v] = d.replays[v]
  <2>1. LET x == [d EXCEPT !.replays[w] = h]
        IN /\ x \in Ledgers /\ Besides(d, x) /\ x.wait = d.wait /\ x.handled = d.handled
           /\ x.replays[w] = h /\ \A v \in Work \ {w} : x.replays[v] = d.replays[v]
    BY ONLY <1>2, d \in Ledgers, w \in Work, WaitWrites
  <2> QED BY ONLY <1>3, <2>1
<1>6. PendingReplays(e, w) \subseteq (PendingReplays(d, w) \ handled) \cup again
  BY <1>4, <1>5 DEF PendingReplays
<1> QED BY <1>5, <1>6 DEF e

(***************************************************************************)
(* AdvanceWork: no notice of the previous revision stays live.             *)
(***************************************************************************)
NextWork(d, w, mode) ==
  [d.work EXCEPT ![w] = [mode |-> mode, owner |-> d.work[w].owner, revision |-> d.work[w].revision + 1]]

Advanced(d, e, w, mode) ==
  /\ e \in Ledgers /\ Thinned(d, e) /\ Onward(d, e)
  /\ e.work = NextWork(d, w, mode) /\ e.wait = d.wait /\ e.handled = d.handled
  /\ e.replays = d.replays
  /\ e.generation = d.generation /\ e.obligation = d.obligation /\ e.request = d.request
  /\ e.assignment = d.assignment /\ e.results = d.results /\ e.armed = d.armed
  /\ e.stopped = d.stopped
  /\ e.incidents \subseteq d.incidents
  /\ \A i \in Indexes(d) : d.activations[i].status \in Live /\ e.activations[i].status \notin Live =>
       LET o == d.activations[i].marks.obligation
       IN /\ d.activations[i].work = w
          /\ o # None => RequestOf(o) = None /\ mode = "complete"
  /\ \A i \in Indexes(d) : e.activations[i].status \in Live =>
       LET x == d.activations[i]
           o == x.marks.obligation
       IN /\ o = None /\ x.marks.request = None => x.work # w
          /\ mode = "complete" /\ o # None /\ RequestOf(o) = None => x.work # w
          /\ \A n \in d.incidents : n.nudge = i => n \in e.incidents

LEMMA AdvanceEffect ==
  ASSUME GoodBut(ledger, {}), NEW w \in Work, NEW mode \in {"paused", "continue", "waiting", "complete"},
         Mutable(w)
  PROVE  Advanced(ledger, AdvanceWork(w, mode), w, mode)
<1> DEFINE d == ledger
           a == d.work[w].owner
           f == NextWork(d, w, mode)
           m == [d EXCEPT !.work = f]
           rows == Rows(m, LAMBDA x : x.work = w /\ x.reason = "work_recovery" /\ x.marks.request = None)
           c == CloseIncidents(m, rows)
           owned == Rows(c, LAMBDA x : /\ x.work = w /\ x.actor = a
                                       /\ \/ x.reason \in OwnerControl
                                          \/ x.reason = "work_recovery" /\ x.marks.request = None)
           products == Rows(c, LAMBDA x : /\ x.work = w
                                          /\ x.reason \notin {"request_message", "request_reply"}
                                          /\ x.marks.request = None
                                          /\ x.marks.obligation # None
                                               => RequestOf(x.marks.obligation) = None)
           gone == IF mode = "complete" THEN products ELSE owned
           e == Revoke(c, gone)
<1>1. /\ d \in Ledgers
      /\ \A i \in Indexes(d) : Addressed(d, d.activations[i])
  BY GoodParts
<1>2. d.work \in [Work -> WorkRow] /\ d.work[w] \in WorkRow
  BY <1>1, LedgerFields
<1>3. m = [d EXCEPT !.work[w].mode = mode, !.work[w].revision = @ + 1]
  <2> DEFINE p == [d.work[w] EXCEPT !.mode = mode]
             k == [d EXCEPT !.work = [d.work EXCEPT ![w] = p]]
             row == [mode |-> mode, owner |-> d.work[w].owner, revision |-> d.work[w].revision + 1]
  <2>1. k = [d EXCEPT !.work[w].mode = mode]
    OBVIOUS
  <2>2. k.work = [d.work EXCEPT ![w] = p] /\ k.work[w] = p
    BY <1>1, <1>2 DEF Ledgers
  <2>3. p.revision = d.work[w].revision /\ [p EXCEPT !.revision = d.work[w].revision + 1] = row
    BY <1>2, WorkRowWrite
  <2>4. f = [d.work EXCEPT ![w] = row]
    BY DEF NextWork
  <2> HIDE DEF p, k, row, f
  <2>5. [d EXCEPT !.work[w].mode = mode, !.work[w].revision = @ + 1]
          = [k EXCEPT !.work = [k.work EXCEPT ![w] = [k.work[w] EXCEPT !.revision = @ + 1]]]
    BY <2>1
  <2>6. [k.work[w] EXCEPT !.revision = @ + 1] = row
    BY <2>2, <2>3
  <2>7. [k.work EXCEPT ![w] = row] = f
    BY <1>2, <2>2, <2>4
  <2>8. [k EXCEPT !.work = f] = m
    BY DEF k
  <2> QED BY <2>5, <2>6, <2>7, <2>8
<1>4. AdvanceWork(w, mode) = e
  BY <1>3 DEF AdvanceWork, RevokeProduct, RevokeOwnerControl, Owner
<1>5. f \in [Work -> WorkRow]
  BY <1>2 DEF NextWork, WorkRow
<1> HIDE DEF f, d
<1>6. /\ m \in Ledgers /\ m.work = f /\ m.armed = d.armed /\ m.activations = d.activations
      /\ m.generation = d.generation /\ m.obligation = d.obligation /\ m.request = d.request
      /\ m.assignment = d.assignment /\ m.results = d.results /\ m.incidents = d.incidents
      /\ m.wait = d.wait /\ m.handled = d.handled /\ m.replays = d.replays
      /\ m.stopped = d.stopped
  BY <1>1, <1>5 DEF Ledgers
<1>7. \A i \in rows : i \in Indexes(d) /\ d.activations[i].work = w
                      /\ d.activations[i].reason = "work_recovery"
                      /\ d.activations[i].marks.request = None
  BY <1>6 DEF Rows, Indexes
<1> HIDE DEF m, rows
<1>8. /\ c \in Ledgers /\ Rest(m, c) /\ c.activations = m.activations
      /\ c.incidents = {n \in m.incidents : n.nudge \notin rows}
  BY <1>6, CloseEffect
<1>9. Indexes(c) = Indexes(d) /\ \A i \in Indexes(d) : c.activations[i] = d.activations[i]
  BY <1>6, <1>8 DEF Indexes
<1> HIDE DEF c
<1>10. \A i \in Indexes(d) :
        LET x == d.activations[i]
        IN /\ i \in owned <=>
                /\ x.work = w /\ x.actor = a
                /\ \/ x.reason \in OwnerControl
                   \/ x.reason = "work_recovery" /\ x.marks.request = None
           /\ i \in products <=>
                /\ x.work = w
                /\ x.reason \notin {"request_message", "request_reply"}
                /\ x.marks.request = None
                /\ x.marks.obligation # None => RequestOf(x.marks.obligation) = None
  BY <1>9 DEF Rows
<1> HIDE DEF owned, products
<1>11. /\ e \in Ledgers /\ Rest(c, e) /\ e.incidents = c.incidents
       /\ Thinned(c, e) /\ Onward(c, e) /\ RevokedRows(c, e, gone)
  BY <1>8, RevokeEffect
<1> HIDE DEF e
<1>12. Thinned(d, e) /\ Onward(d, e)
  BY <1>6, <1>8, <1>11, ThinnedSame
<1>13. GoodBut(d, {})
  BY DEF d
<1>14. ASSUME NEW i \in Indexes(d), e.activations[i].status \in Live
       PROVE  LET x == d.activations[i]
                  o == x.marks.obligation
              IN /\ o = None /\ x.marks.request = None => x.work # w
                 /\ mode = "complete" /\ o # None /\ RequestOf(o) = None => x.work # w
                 /\ \A n \in d.incidents : n.nudge = i => n \in e.incidents
  <2> DEFINE x == d.activations[i]
             o == x.marks.obligation
  <2>1. x.status \in Live /\ i \notin gone
    BY <1>9, <1>11, <1>14 DEF RevokedRows, Live
  <2>2. o = None /\ x.marks.request = None =>
          x.actor = d.work[x.work].owner /\ x.reason \in OwnerControl \cup {"work_recovery"}
    BY <1>13, <2>1, OwnerRow
  <2>3. Addressed(d, x)
    BY <1>1
  <2>4. x.reason = "work_recovery" => o = None
    BY <2>3 DEF Addressed, AssignmentReasons
  <2>5. o # None /\ RequestOf(o) = None => x.marks.request = None
    BY <2>3 DEF Addressed
  <2>6. o # None /\ RequestOf(o) = None => x.reason \notin {"request_message", "request_reply"}
    <3> SUFFICES ASSUME o # None, RequestOf(o) = None, x.reason \in {"request_message", "request_reply"}
                 PROVE  FALSE
      OBVIOUS
    <3>1. x.marks.request # None
      BY <2>3 DEF Addressed
    <3> QED BY <2>5, <3>1
  <2>7. i \notin owned \/ mode = "complete"
    BY <2>1
  <2>8. i \notin products \/ mode # "complete"
    BY <2>1
  <2>9. o = None /\ x.marks.request = None => x.work # w
    <3> SUFFICES ASSUME o = None, x.marks.request = None, x.work = w PROVE FALSE
      OBVIOUS
    <3>1. i \in owned
      BY <1>10, <2>2
    <3>2. i \in products
      BY <1>10, <2>2 DEF OwnerControl
    <3> QED BY <2>7, <2>8, <3>1, <3>2
  <2>10. mode = "complete" /\ o # None /\ RequestOf(o) = None => x.work # w
    BY <1>10, <2>5, <2>6, <2>8
  <2>11. i \notin rows
    BY <1>7, <2>4, <2>9
  <2>12. \A n \in d.incidents : n.nudge = i => n \in e.incidents
    BY <1>6, <1>8, <1>11, <2>11
  <2> QED BY <2>9, <2>10, <2>12
<1>15. e.incidents \subseteq d.incidents
  BY <1>6, <1>8, <1>11
<1>16. /\ e.work = f /\ e.wait = d.wait /\ e.handled = d.handled
       /\ e.replays = d.replays
       /\ e.generation = d.generation /\ e.obligation = d.obligation /\ e.request = d.request
       /\ e.assignment = d.assignment /\ e.results = d.results /\ e.armed = d.armed
       /\ e.stopped = d.stopped
  BY <1>6, <1>8, <1>11 DEF Rest, Frame
<1>17. ASSUME NEW i \in Indexes(d), d.activations[i].status \in Live,
              e.activations[i].status \notin Live
       PROVE  LET o == d.activations[i].marks.obligation
              IN /\ d.activations[i].work = w
                 /\ o # None => RequestOf(o) = None /\ mode = "complete"
  <2>1. i \in gone
    BY <1>9, <1>11, <1>17 DEF RevokedRows, Live
  <2>2. CASE mode = "complete"
    BY <1>10, <2>1, <2>2
  <2>3. CASE mode # "complete"
    <3>1. i \in owned
      BY <2>1, <2>3
    <3>2. /\ d.activations[i].work = w
          /\ d.activations[i].reason \in OwnerControl \cup {"work_recovery"}
      BY <1>10, <3>1
    <3>3. Addressed(d, d.activations[i])
      BY <1>1
    <3>4. d.activations[i].marks.obligation = None
      BY <3>2, <3>3 DEF Addressed, AssignmentReasons, OwnerControl
    <3> QED BY <3>2, <3>4
  <2> QED BY <2>2, <2>3
<1> HIDE DEF gone
<1> QED BY <1>4, <1>11, <1>12, <1>14, <1>15, <1>16, <1>17 DEF Advanced, d, f

\* A checkpoint of the work w, whatever it writes about waits and handled results.
LEMMA AdvancedGood ==
  ASSUME NEW d, GoodBut(d, {}), NEW w \in Work, d.work[w].mode \notin {"none", "complete"},
         d.work[w].revision < agenda.revisions,
         NEW mode \in {"paused", "continue", "waiting", "complete"},
         NEW m, Advanced(d, m, w, mode), NEW e \in Ledgers, Besides(m, e),
         e.wait[w].sources # {} <=> mode = "waiting",
         PendingReplays(e, w) \cap e.handled[w] = {},
         \A v \in Work \ {w} : /\ e.wait[v] = d.wait[v] /\ e.handled[v] = d.handled[v]
                               /\ e.replays[v] = d.replays[v]
  PROVE  Quietly(d, e) /\ Routes(d, e, {}, {w})
<1>1. /\ d \in Ledgers
      /\ \A v \in Work : WorkKept(d, v)
      /\ \A n \in d.incidents : n.nudge \in Indexes(d)
  BY GoodParts
<1>2. /\ m \in Ledgers /\ Thinned(d, m) /\ Onward(d, m)
      /\ m.work = NextWork(d, w, mode)
      /\ m.generation = d.generation /\ m.obligation = d.obligation /\ m.request = d.request
      /\ m.assignment = d.assignment /\ m.results = d.results /\ m.armed = d.armed
      /\ m.incidents \subseteq d.incidents
  BY DEF Advanced
<1>3. e.activations = m.activations /\ e.work = m.work /\ e.incidents = m.incidents
  BY DEF Besides
<1>4. Thinned(d, e) /\ Onward(d, e)
  BY <1>2, <1>3, ThinnedSame
<1>5. SameDebts(d, e)
  BY <1>2 DEF SameDebts, Outcomes, Besides
<1>6. d.work \in [Work -> WorkRow]
  BY <1>1, LedgerFields
<1>7. /\ e.work[w].mode = mode /\ e.work[w].owner = d.work[w].owner
      /\ \A v \in Work \ {w} : e.work[v] = d.work[v]
  BY <1>2, <1>3, <1>6 DEF NextWork
<1>8. ASSUME NEW v \in Work
      PROVE  WorkKept(e, v) /\ (d.work[v].mode # "none" => e.work[v].mode # "none")
  <2>1. WorkKept(d, v)
    BY <1>1
  <2>2. CASE v = w
    BY <1>7, <2>1, <2>2 DEF WorkKept
  <2>3. CASE v # w
    <3>1. PendingReplays(e, v) = PendingReplays(d, v)
      BY <2>3 DEF PendingReplays
    <3> QED BY <1>7, <2>1, <2>3, <3>1 DEF WorkKept
  <2> QED BY <2>2, <2>3
<1>9. ASSUME NEW i \in Indexes(d), e.activations[i].status \in Live PROVE OwnerStays(d, e, i)
  <2> DEFINE x == d.activations[i]
             o == x.marks.obligation
  <2>1. /\ o = None /\ x.marks.request = None => x.work # w
        /\ mode = "complete" /\ o # None /\ RequestOf(o) = None => x.work # w
        /\ \A n \in d.incidents : n.nudge = i => n \in e.incidents
    BY <1>3, <1>9 DEF Advanced
  <2>2. x.work \in Work
    BY <1>1, LedgerFields DEF Row
  <2>3. x.work # w => e.work[x.work] = d.work[x.work]
    BY <1>7, <2>2
  <2> HIDE DEF x
  <2> QED BY <1>7, <2>1, <2>3 DEF OwnerStays, x
<1>10. \A n \in e.incidents : n.nudge \in Indexes(d)
  BY <1>1, <1>2, <1>3
<1>11. GoodBut(e, {}) /\ Quiet(d, e)
  BY <1>4, <1>5, <1>8, <1>9, <1>10, WorkWriteGood
<1>12. Within(d, e)
  <2>1. e.generation = d.generation
    BY <1>2 DEF Besides
  <2>2. e.work[w].revision = d.work[w].revision + 1
    BY <1>2, <1>3, <1>6 DEF NextWork
  <2> QED BY <1>7, <2>1, <2>2 DEF Within
<1>13. Routes(d, e, {}, {w})
  <2>1. e.generation = d.generation /\ e.stopped = d.stopped
        /\ e.obligation = d.obligation /\ e.assignment = d.assignment
    BY DEF Advanced, Besides
  <2>2. \A i \in Indexes(d) : /\ d.activations[i].status \in Live
                              /\ e.activations[i].status \notin Live
          => LET o == d.activations[i].marks.obligation
             IN /\ d.activations[i].work = w
                /\ o # None => RequestOf(o) = None /\ e.work[w].mode = "complete"
    BY <1>3, <1>7 DEF Advanced
  <2> QED BY <1>4, <1>7, <2>1, <2>2, WorkRoutes
<1> QED BY <1>4, <1>11, <1>12, <1>13 DEF Quietly

\* work_checkpoint with a wait.
LEMMA CheckpointWaitingStep ==
  ASSUME GoodBut(ledger, {}), NEW w \in Work, NEW any \in WaitModes, NEW sources \in SUBSET Sources,
         NEW handled, NEW reprocess, CheckpointWaiting(w, any, sources, handled, reprocess)
  PROVE  Quietly(ledger, ledger') /\ Remembers(ledger, ledger')
<1> DEFINE d == ledger
           m == AdvanceWork(w, "waiting")
           acknowledged == (d.handled[w] \cup handled) \ reprocess
           h == [m EXCEPT !.handled[w] = acknowledged]
           n == m.work[w].revision
           p == RecordReplays(h, w, n, handled, reprocess)
           wait == [any |-> any, sources |-> sources,
                    handled |-> {c \in acknowledged : Source(c) \in sources}]
           e == [p EXCEPT !.wait[w] = wait]
           read == ReconcileSources(e, sources)
           woken == IF ExplicitStop(read, w, Owner(w)) THEN read ELSE EvaluateWait(read, w)
           last == RedeliverRequests(woken, RequestsOf(w))
<1>1. /\ ledger' = last /\ Mutable(w) /\ sources # {}
      /\ handled \subseteq HandleableInWait(d, w, Owner(w), sources)
      /\ reprocess \subseteq Outcomes(d)
  BY DEF CheckpointWaiting, Commit
<1>2. d \in Ledgers /\ WorkKept(d, w)
  BY GoodParts
<1>3. handled \in SUBSET Outcome /\ reprocess \in SUBSET Outcome
  BY <1>1, <1>2, OutcomesTyped DEF HandleableInWait, Handleable
<1>4. Advanced(d, m, w, "waiting")
  BY <1>1, AdvanceEffect
<1>5. m \in Ledgers /\ m.handled = d.handled /\ m.replays = d.replays /\ m.wait = d.wait
  BY <1>4 DEF Advanced
<1>6. acknowledged \in SUBSET Outcome
  BY <1>2, <1>3 DEF Ledgers
<1>7. PendingReplays(d, w) \cap d.handled[w] = {}
  BY <1>2 DEF WorkKept
<1>8. d.work[w].mode \notin {"none", "complete"} /\ d.work[w].revision < agenda.revisions
  BY <1>1 DEF Mutable, CheckpointWaiting
<1>9. \A pending \in SUBSET ((PendingReplays(d, w) \ handled) \cup reprocess) :
        pending \cap acknowledged = {}
  BY <1>7
<1>10. WaitRow = [any : BOOLEAN, sources : SUBSET Sources, handled : SUBSET Outcome]
  BY DEF WaitRow
<1>11. wait \in WaitRow /\ wait.sources = sources
  BY <1>6, <1>10, ContinuityConstants
<1> HIDE DEF m, d, acknowledged, wait
<1>12. /\ h \in Ledgers /\ Besides(m, h) /\ h.wait = m.wait /\ h.replays = m.replays
       /\ h.handled[w] = acknowledged /\ \A v \in Work \ {w} : h.handled[v] = m.handled[v]
  BY <1>5, <1>6, WaitWrites
<1>13. n \in Nat
  BY <1>5, LedgerFields DEF WorkRow
<1> HIDE DEF h, n
<1>14. /\ p \in Ledgers /\ Besides(h, p) /\ p.wait = h.wait /\ p.handled = h.handled
       /\ \A v \in Work \ {w} : p.replays[v] = h.replays[v]
       /\ PendingReplays(p, w) \subseteq (PendingReplays(h, w) \ handled) \cup reprocess
  BY <1>3, <1>12, <1>13, RecordReplaysEffect
<1> HIDE DEF p
<1>15. /\ e \in Ledgers /\ Besides(p, e) /\ e.handled = p.handled /\ e.replays = p.replays
       /\ e.wait[w] = wait /\ \A v \in Work \ {w} : e.wait[v] = p.wait[v]
  BY <1>11, <1>14, WaitWrites
<1> HIDE DEF e
<1>16. Besides(m, e)
  BY <1>12, <1>14, <1>15 DEF Besides
<1>17. PendingReplays(e, w) = PendingReplays(p, w) /\ PendingReplays(h, w) = PendingReplays(d, w)
  BY <1>5, <1>12, <1>15 DEF PendingReplays
<1>18. PendingReplays(e, w) \cap e.handled[w] = {}
  BY <1>9, <1>12, <1>14, <1>15, <1>17
<1>19. e.wait[w].sources # {}
  BY <1>1, <1>11, <1>15
<1>20. \A v \in Work \ {w} : /\ e.wait[v] = d.wait[v] /\ e.handled[v] = d.handled[v]
                             /\ e.replays[v] = d.replays[v]
  BY <1>5, <1>12, <1>14, <1>15
<1>21. GoodBut(d, {})
  BY DEF d
<1>22. Quietly(d, e) /\ Routes(d, e, {}, {w})
  BY <1>4, <1>8, <1>15, <1>16, <1>18, <1>19, <1>20, <1>21, AdvancedGood
<1>23. Keeps(e, read, {})
  BY <1>22, ReconcileSourcesKeeps DEF Quietly
<1> HIDE DEF read
<1>24. Keeps(read, woken, {})
  BY <1>23, EvaluateWaitKeeps, KeepsReflexive DEF Keeps
<1> HIDE DEF woken
<1>25. Keeps(woken, last, {})
  BY <1>24, RedeliverRequestsKeep DEF Keeps, RequestsOf
<1> HIDE DEF last
<1>26. Remembers(d, e)
  <2>1. d.work \in [Work -> WorkRow]
    BY <1>2, LedgerFields
  <2>2. e.work[w].mode = "waiting"
    BY <1>4, <1>16, <2>1 DEF Advanced, Besides, NextWork
  <2>3. OwnerRouted(e, w)
    BY <2>2 DEF OwnerRouted, Continues
  <2> QED BY <1>22, <2>3, RoutesDone DEF Remembers
<1>27. Remembers(d, read)
  BY <1>22, <1>23, <1>26, RemembersKeeps DEF Quietly
<1>28. Remembers(d, woken)
  BY <1>23, <1>24, <1>27, RemembersKeeps DEF Keeps
<1>29. Remembers(d, last)
  BY <1>24, <1>25, <1>28, RemembersKeeps DEF Keeps
<1> QED BY <1>1, <1>22, <1>23, <1>24, <1>25, <1>29, QuietlyKeeps DEF d

\* work_checkpoint without one.
LEMMA CheckpointStep ==
  ASSUME GoodBut(ledger, {}), NEW w \in Work, NEW mode \in {"paused", "continue", "complete"},
         NEW handled, Checkpoint(w, mode, handled)
  PROVE  Quietly(ledger, ledger') /\ Remembers(ledger, ledger')
<1> DEFINE d == ledger
           m == AdvanceWork(w, mode)
           acknowledged == m.handled[w] \cup handled
           h == [m EXCEPT !.handled[w] = acknowledged]
           c == ClearWait(h, w)
           n == m.work[w].revision
           p == RecordReplays(c, w, n, handled, {})
           e == IF mode = "complete" THEN [p EXCEPT !.replays[w] = {}] ELSE p
           routed == IF mode = "continue" /\ ~ExplicitStop(e, w, Owner(w))
                     THEN Create(e, w, Owner(w), "continue_checkpoint", 0, NoMarks)
                     ELSE e
           last == RedeliverRequests(routed, RequestsOf(w))
<1>1. /\ ledger' = last /\ Mutable(w) /\ handled \subseteq Handleable(d, w, Owner(w))
  BY DEF Checkpoint, Commit
<1>2. d \in Ledgers /\ WorkKept(d, w)
  BY GoodParts
<1>3. handled \in SUBSET Outcome
  BY <1>1, <1>2, OutcomesTyped DEF Handleable
<1>4. Advanced(d, m, w, mode)
  BY <1>1, AdvanceEffect
<1>5. m \in Ledgers /\ m.handled = d.handled /\ m.replays = d.replays /\ m.wait = d.wait
      /\ m.work = NextWork(d, w, mode)
  BY <1>4 DEF Advanced
<1>6. acknowledged \in SUBSET Outcome
  BY <1>3, <1>5 DEF Ledgers
<1>7. PendingReplays(d, w) \cap d.handled[w] = {}
  BY <1>2 DEF WorkKept
<1>8. /\ d.work[w].mode \notin {"none", "complete"} /\ Owner(w) = d.work[w].owner
      /\ d.work[w].revision < agenda.revisions
  BY <1>1 DEF Mutable, Owner, Checkpoint
<1>9. \A pending \in SUBSET (PendingReplays(d, w) \ handled) : pending \cap acknowledged = {}
  BY <1>5, <1>7
<1>10. NoWait \in WaitRow /\ NoWait.sources = {}
  BY DEF NoWait, WaitRow
<1> HIDE DEF m, d, acknowledged
<1>11. /\ h \in Ledgers /\ Besides(m, h) /\ h.wait = m.wait /\ h.replays = m.replays
       /\ h.handled[w] = acknowledged /\ \A v \in Work \ {w} : h.handled[v] = m.handled[v]
  BY <1>5, <1>6, WaitWrites
<1> HIDE DEF h
<1>12. c = [h EXCEPT !.wait[w] = NoWait]
  BY DEF ClearWait
<1> HIDE DEF c
<1>13. /\ c \in Ledgers /\ Besides(h, c) /\ c.handled = h.handled /\ c.replays = h.replays
       /\ c.wait[w] = NoWait /\ \A v \in Work \ {w} : c.wait[v] = h.wait[v]
  BY <1>10, <1>11, <1>12, WaitWrites
<1>14. n \in Nat
  BY <1>5, LedgerFields DEF WorkRow
<1> HIDE DEF n
<1>15. /\ p \in Ledgers /\ Besides(c, p) /\ p.wait = c.wait /\ p.handled = c.handled
       /\ \A v \in Work \ {w} : p.replays[v] = c.replays[v]
       /\ PendingReplays(p, w) \subseteq (PendingReplays(c, w) \ handled) \cup {}
  BY <1>3, <1>13, <1>14, RecordReplaysEffect
<1> HIDE DEF p
<1>16. /\ e \in Ledgers /\ Besides(p, e) /\ e.wait = p.wait /\ e.handled = p.handled
       /\ (\A v \in Work \ {w} : e.replays[v] = p.replays[v])
       /\ PendingReplays(e, w) \subseteq PendingReplays(p, w)
  <2>1. CASE mode = "complete"
    <3> DEFINE k == [p EXCEPT !.replays[w] = {}]
    <3>1. {} \in SUBSET (Outcome \X Nat)
      OBVIOUS
    <3>2. /\ k \in Ledgers /\ Besides(p, k) /\ k.wait = p.wait /\ k.handled = p.handled
          /\ k.replays[w] = {} /\ \A v \in Work \ {w} : k.replays[v] = p.replays[v]
      <4>1. \A z \in SUBSET (Outcome \X Nat) :
              LET x == [p EXCEPT !.replays[w] = z]
              IN /\ x \in Ledgers /\ Besides(p, x) /\ x.wait = p.wait /\ x.handled = p.handled
                 /\ x.replays[w] = z /\ \A v \in Work \ {w} : x.replays[v] = p.replays[v]
        BY <1>15, WaitWrites
      <4> QED BY <3>1, <4>1
    <3>3. e = k
      BY <2>1
    <3> HIDE DEF k, e
    <3> QED BY <3>2, <3>3 DEF PendingReplays
  <2>2. CASE mode # "complete"
    BY <1>15, <2>2 DEF Besides
  <2> QED BY <2>1, <2>2
<1> HIDE DEF e
<1>17. Besides(m, e)
  BY <1>11, <1>13, <1>15, <1>16 DEF Besides
<1>18. PendingReplays(c, w) = PendingReplays(d, w)
  BY <1>5, <1>11, <1>13 DEF PendingReplays
<1>19. PendingReplays(e, w) \cap e.handled[w] = {}
  BY <1>9, <1>11, <1>13, <1>15, <1>16, <1>18
<1>20. e.wait[w].sources = {}
  BY <1>10, <1>13, <1>15, <1>16
<1>21. \A v \in Work \ {w} : /\ e.wait[v] = d.wait[v] /\ e.handled[v] = d.handled[v]
                             /\ e.replays[v] = d.replays[v]
  BY <1>5, <1>11, <1>13, <1>15, <1>16
<1>22. GoodBut(d, {})
  BY DEF d
<1>23. Quietly(d, e) /\ Routes(d, e, {}, {w})
  BY <1>4, <1>8, <1>16, <1>17, <1>19, <1>20, <1>21, <1>22, AdvancedGood
<1>24. Keeps(e, routed, {})
  <2>1. Keeps(e, e, {})
    BY <1>23, KeepsReflexive DEF Quietly
  <2>2. CASE mode = "continue"
    <3>1. d.work \in [Work -> WorkRow]
      BY <1>2, LedgerFields
    <3>2. e.work[w].mode = "continue" /\ e.work[w].owner = Owner(w)
      BY <1>5, <1>8, <1>17, <2>2, <3>1 DEF Besides, NextWork
    <3>3. Keeps(e, Create(e, w, e.work[w].owner, "continue_checkpoint", 0, NoMarks), {})
      BY <1>23, <3>2, ContinuationKeeps DEF Quietly
    <3> QED BY <2>1, <3>2, <3>3
  <2>3. CASE mode # "continue"
    BY <2>1, <2>3
  <2> QED BY <2>2, <2>3
<1>26. OwnerRouted(routed, w)
  <2>1. d.work \in [Work -> WorkRow]
    BY <1>2, LedgerFields
  <2>2. e.work[w].mode = mode /\ e.work[w].owner = Owner(w) /\ Owner(w) = d.work[w].owner
    BY <1>5, <1>8, <1>17, <2>1 DEF Besides, NextWork
  <2>3. CASE mode = "continue" /\ ~ExplicitStop(e, w, Owner(w))
    <3>1. NoMarks \in Marks
      BY MarksTyped DEF NoMarks
    <3>2. Owner(w) \in Actor
      BY <1>2, <1>8, <2>2 DEF WorkKept
    <3>3. OwnerRouted(Create(e, w, e.work[w].owner, "continue_checkpoint", 0, NoMarks), w)
      BY <1>16, <2>2, <3>1, <3>2, OwnerCreated DEF OwnerControl
    <3> QED BY <2>2, <2>3, <3>3
  <2>4. CASE ~(mode = "continue" /\ ~ExplicitStop(e, w, Owner(w)))
    <3>1. routed = e
      BY <2>4
    <3> HIDE DEF routed
    <3>2. OwnerRouted(e, w)
      BY <2>2, <2>4 DEF OwnerRouted, Continues
    <3> QED BY <3>1, <3>2
  <2> QED BY <2>3, <2>4
<1> HIDE DEF routed
<1>27. Remembers(d, routed)
  <2>1. Routes(e, routed, {}, {w})
    BY <1>16, <1>24, KeepsRoutes
  <2>2. Routes(d, routed, {}, {w})
    BY <1>23, <2>1, RoutesThen
  <2> QED BY <1>26, <2>2, RoutesDone DEF Remembers
<1>25. Keeps(routed, last, {})
  BY <1>24, RedeliverRequestsKeep DEF Keeps, RequestsOf
<1> HIDE DEF last
<1>28. Remembers(d, last)
  BY <1>24, <1>25, <1>27, RemembersKeeps DEF Keeps
<1> QED BY <1>1, <1>23, <1>24, <1>25, <1>28, QuietlyKeeps DEF d

-----------------------------------------------------------------------------
(***************************************************************************)
(* Writes to the assignments in O and to the requests in R.                *)
(***************************************************************************)
Others(d, e, O, R) ==
  /\ e.generation = d.generation /\ e.work = d.work /\ e.wait = d.wait /\ e.handled = d.handled
  /\ e.replays = d.replays /\ e.armed = d.armed
  /\ \A o \in Obligation \ O : SameNotices(d, e, o)
  /\ \A r \in Request \ R :
       /\ e.request[r] = d.request[r]
       /\ DebtOf[r] # None =>
            /\ DebtOf[r] \notin O
            /\ <<DebtOf[r], "result">> \in Outcomes(e) <=> <<DebtOf[r], "result">> \in Outcomes(d)

\* What an assignment that is written to must be afterwards.
DebtWritten(d, e, o) ==
  /\ DebtKept(e, o)
  /\ d.obligation[o].status # "none" =>
       e.obligation[o].status # "none" /\ d.obligation[o].generation <= e.obligation[o].generation
  /\ \A i \in Indexes(d) : d.activations[i].marks.obligation = o => NoticeKept(e, i)

RequestWritten(d, e, r) ==
  /\ RequestKept(e, r)
  /\ d.request[r].status # "none" => e.request[r].status # "none"
  /\ d.request[r].answered => e.request[r].answered

\* Nothing that is live is about what is written.
Apart(d, e, i, O, R) ==
  LET x == d.activations[i]
  IN /\ x.marks.obligation \notin O
     /\ x.marks.obligation = None => x.marks.request \notin R
     /\ \A n \in d.incidents : n.nudge = i => n \in e.incidents

LEMMA DebtWriteGood ==
  ASSUME NEW d, NEW P, GoodBut(d, P), NEW e \in Ledgers, NEW O \in SUBSET Obligation,
         NEW R \in SUBSET Request, Thinned(d, e), Others(d, e, O, R),
         \A o \in O : DebtWritten(d, e, o) /\ Settled(e, o),
         \A r \in R : RequestWritten(d, e, r),
         \A i \in Indexes(d) : e.activations[i].status \in Live => Apart(d, e, i, O, R),
         \A n \in e.incidents : n.nudge \in Indexes(d)
  PROVE  GoodBut(e, P) /\ \A r \in Request \ R : Alike(d, e, r)
<1>1. /\ d \in Ledgers
      /\ \A w \in Work : WorkKept(d, w)
      /\ \A o \in Obligation : DebtKept(d, o)
      /\ \A r \in Request : RequestKept(d, r)
      /\ \A o \in Obligation \ P : Settled(d, o)
  BY GoodParts
<1>2. /\ e.generation = d.generation /\ e.work = d.work /\ e.wait = d.wait /\ e.handled = d.handled
      /\ e.replays = d.replays /\ e.armed = d.armed
      /\ \A o \in Obligation \ O : SameNotices(d, e, o)
      /\ \A r \in Request \ R :
           /\ e.request[r] = d.request[r]
           /\ DebtOf[r] # None =>
                /\ DebtOf[r] \notin O
                /\ <<DebtOf[r], "result">> \in Outcomes(e) <=> <<DebtOf[r], "result">> \in Outcomes(d)
  BY DEF Others
<1>3. \A o \in Obligation \ O : e.obligation[o] = d.obligation[o]
  BY <1>2 DEF SameNotices
<1>4. Grown(d, e)
  <2>1. \A a \in Actor : d.generation[a] \in Nat
    BY <1>1, LedgerFields
  <2>2. \A o \in Obligation : d.obligation[o].generation \in Nat
    BY <1>1, LedgerFields DEF DebtRow
  <2>3. \A o \in Obligation :
           d.obligation[o].status # "none" =>
             e.obligation[o].status # "none" /\ d.obligation[o].generation <= e.obligation[o].generation
    BY <1>3, <2>2 DEF DebtWritten
  <2>4. \A r \in Request : /\ d.request[r].status # "none" => e.request[r].status # "none"
                           /\ d.request[r].answered => e.request[r].answered
    BY <1>2 DEF RequestWritten
  <2> QED BY <1>2, <2>1, <2>3, <2>4 DEF Grown
<1>5. \A w \in Work : WorkKept(e, w)
  BY <1>1, <1>2 DEF WorkKept, PendingReplays
<1>6. ASSUME NEW o \in Obligation PROVE DebtKept(e, o)
  <2>1. CASE o \in O
    BY <2>1 DEF DebtWritten
  <2>2. CASE o \notin O
    BY <1>1, <1>2, <1>4, <2>2, DebtThinned
  <2> QED BY <2>1, <2>2
<1>7. ASSUME NEW r \in Request PROVE RequestKept(e, r)
  <2>1. CASE r \in R
    BY <2>1 DEF RequestWritten
  <2>2. CASE r \notin R
    <3>1. e.request[r] = d.request[r]
      BY <1>2, <2>2
    <3>2. DebtOf[r] # None =>
            /\ e.obligation[DebtOf[r]].status = d.obligation[DebtOf[r]].status
            /\ <<DebtOf[r], "result">> \in Outcomes(e) <=> <<DebtOf[r], "result">> \in Outcomes(d)
      BY <1>2, <1>3, <2>2, LedgerConstants
    <3> QED BY <1>1, <1>4, <3>1, <3>2, RequestThinned
  <2> QED BY <2>1, <2>2
<1>8. ASSUME NEW o \in Obligation
      PROVE  \/ SameNotices(d, e, o)
             \/ \A i \in Indexes(d) : d.activations[i].marks.obligation = o => NoticeKept(e, i)
  BY <1>2 DEF DebtWritten
<1>9. ASSUME NEW i \in Indexes(d), e.activations[i].status \in Live PROVE Stays(d, e, i)
  <2> DEFINE x == d.activations[i]
  <2>1. x.marks.obligation \in Obligation \cup {None} /\ x.marks.request \in Request \cup {None}
    BY <1>1, LedgerFields DEF Row, Marks
  <2>2. Apart(d, e, i, O, R)
    BY <1>9
  <2>3. x.marks.obligation # None => e.obligation[x.marks.obligation] = d.obligation[x.marks.obligation]
    BY <1>3, <2>1, <2>2 DEF Apart
  <2>4. x.marks.obligation = None /\ x.marks.request # None
          => e.request[x.marks.request] = d.request[x.marks.request]
    BY <1>2, <2>1, <2>2 DEF Apart
  <2> QED BY <1>2, <2>2, <2>3, <2>4 DEF Apart, Stays
<1>10. ASSUME NEW o \in Obligation \ P PROVE Settled(e, o)
  <2>1. Assignee[o] \in Actor
    BY LedgerConstants
  <2>2. CASE o \in O
    BY <2>2
  <2>3. CASE o \notin O
    BY <1>1, <1>2, <1>3, <2>1, <2>3, SettledThinned
  <2> QED BY <2>2, <2>3
<1>11. GoodBut(e, P)
  BY <1>1, <1>4, <1>5, <1>6, <1>7, <1>8, <1>9, <1>10, ThinnedGood
<1>12. ASSUME NEW r \in Request \ R PROVE Alike(d, e, r)
  <2>1. e.request[r] = d.request[r]
    BY <1>2
  <2>2. DebtOf[r] # None => e.obligation[DebtOf[r]] = d.obligation[DebtOf[r]] /\ DebtKept(d, DebtOf[r])
    BY <1>1, <1>2, <1>3, LedgerConstants
  <2>3. PhaseOf(e, r) = PhaseOf(d, r)
    BY <2>1 DEF PhaseOf
  <2>4. r \in Request /\ RequestKept(d, r)
    BY <1>1
  <2> QED BY <1>1, <1>2, <2>1, <2>2, <2>3, <2>4, AlikeThinned
<1> QED BY <1>11, <1>12

\* One request moves; the others are left alone.
Moves(d, e, r, from, to, held, holds) ==
  /\ PhaseOf(d, r) = from /\ PhaseOf(e, r) = to
  /\ HeldOf(d, r) <=> held
  /\ HeldOf(e, r) <=> holds
  /\ \A q \in Request \ {r} : Alike(d, e, q)

LEMMA MovesQuietly ==
  ASSUME NEW d, NEW m, NEW e, NEW r \in Request, NEW from, NEW to, NEW held, NEW holds,
         Moves(d, m, r, from, to, held, holds), Quiet(m, e)
  PROVE  Moves(d, e, r, from, to, held, holds)
BY DEF Moves, Quiet, Alike

\* A write of the assignments in O: the others keep their routes, and so do the owners.
LEMMA DebtRoutes ==
  ASSUME NEW d \in Ledgers, \A i \in Indexes(d) : Addressed(d, d.activations[i]),
         NEW e \in Ledgers, Thinned(d, e), NEW O \in SUBSET Obligation,
         d.stopped \subseteq e.stopped, e.generation = d.generation, e.work = d.work,
         \A o \in Obligation \ O : SameNotices(d, e, o),
         \A i \in Indexes(d) : /\ d.activations[i].status \in Live
                               /\ e.activations[i].status \notin Live
            => \/ d.activations[i].marks.obligation \in O
               \/ d.activations[i].reason \in Recovery
  PROVE  Routes(d, e, O, {})
<1>1. ASSUME NEW o \in Obligation, ContinuationAllowed(e, o) PROVE ContinuationAllowed(d, o)
  BY <1>1 DEF ContinuationAllowed
<1>2. ASSUME NEW i \in Indexes(d), d.activations[i].status \in Live,
             e.activations[i].status \notin Live
      PROVE  Spared(d, e, i, O, {})
  <2> DEFINE x == d.activations[i]
  <2>1. Addressed(d, x) /\ None \notin Obligation
    BY LedgerConstants
  <2>2. x.marks.obligation \in O \/ x.reason \in Recovery
    BY <1>2
  <2> HIDE DEF x
  <2>3. x.reason \notin OwnerControl
    BY <2>1, <2>2 DEF Addressed, Recovery, OwnerControl, AssignmentReasons
  <2>4. x.reason = "work_recovery" => x.marks.obligation = None
    BY <2>1 DEF Addressed, AssignmentReasons
  <2> QED BY <2>1, <2>2, <2>3, <2>4 DEF Spared, Recovery, x
<1> QED BY <1>1, <1>2, ThinnedRoutes

\* A step that revokes nudges only.
LEMMA RemembersBut ==
  ASSUME NEW d, GoodBut(d, {}), NEW e \in Ledgers, Thinned(d, e), d.stopped \subseteq e.stopped,
         e.generation = d.generation, e.work = d.work,
         \A o \in Obligation : SameNotices(d, e, o),
         \A i \in Indexes(d) : /\ d.activations[i].status \in Live
                               /\ e.activations[i].status \notin Live
            => d.activations[i].reason \in Recovery
  PROVE  Remembers(d, e)
<1>1. d \in Ledgers /\ \A i \in Indexes(d) : Addressed(d, d.activations[i])
  BY GoodParts
<1>2. Routes(d, e, {}, {})
  BY <1>1, DebtRoutes
<1> QED BY <1>2, RoutesDone DEF Remembers

\* Nobody has claimed a notice of a new debt.
LEMMA NewInStep ==
  ASSUME NEW d \in Ledgers, NEW e \in Ledgers, Added(d, e), NEW o,
         \A i \in Indexes(d) : d.activations[i].marks.obligation # o
  PROVE  InStep(e, o)
BY DEF Added, InStep

\* A request that is owed, answered or unsent.
LEMMA Phases ==
  ASSUME NEW d, NEW r
  PROVE  /\ d.request[r].status = "none" => PhaseOf(d, r) = "unsent"
         /\ d.request[r].status \in {"delivery_pending", "claimed"} => PhaseOf(d, r) = "owed"
         /\ d.request[r].status = "reply_ready" => PhaseOf(d, r) = "answered"
         /\ d.request[r].status = "handled" => PhaseOf(d, r) = "handled"
         /\ d.request[r].status = "closed_no_reply" => PhaseOf(d, r) = "read"
BY DEF PhaseOf

\* The status of one request is written.
LEMMA StatusWrite ==
  ASSUME NEW d \in Ledgers, NEW r \in Request,
         NEW s \in {"none", "delivery_pending", "claimed", "reply_ready", "handled", "closed_no_reply"},
         NEW e, e = [d EXCEPT !.request[r].status = s]
  PROVE  /\ e \in Ledgers /\ Frame(d, e) /\ e.activations = d.activations
         /\ e.results = d.results /\ e.incidents = d.incidents /\ e.replyOwner = d.replyOwner
         /\ e.request[r].status = s /\ e.request[r].message = d.request[r].message
         /\ e.request[r].reply = d.request[r].reply
         /\ e.request[r].answered = d.request[r].answered
         /\ \A p \in Request \ {r} : e.request[p] = d.request[p]
<1> DEFINE q == [d.request[r] EXCEPT !.status = s]
<1>1. d.request[r] \in RequestRow
  BY LedgerFields
<1>2. /\ q \in RequestRow /\ q.status = s /\ q.message = d.request[r].message
      /\ q.reply = d.request[r].reply /\ q.answered = d.request[r].answered
  BY <1>1 DEF RequestRow
<1>3. e = [d EXCEPT !.request = [d.request EXCEPT ![r] = q]]
  OBVIOUS
<1> HIDE DEF q
<1> DEFINE f == [d EXCEPT !.request = [d.request EXCEPT ![r] = q]]
<1>4. /\ f \in Ledgers /\ Frame(d, f) /\ f.activations = d.activations
      /\ f.results = d.results /\ f.incidents = d.incidents /\ f.replyOwner = d.replyOwner
      /\ f.request[r] = q
      /\ \A p \in Request \ {r} : f.request[p] = d.request[p]
  BY <1>2, RequestWrite
<1>5. e = f
  BY <1>3
<1> HIDE DEF f
<1> QED BY <1>2, <1>4, <1>5

\* One debt is written.
OnlyDebt(d, e, o) ==
  /\ e.generation = d.generation /\ e.work = d.work /\ e.wait = d.wait /\ e.handled = d.handled
  /\ e.replays = d.replays /\ e.armed = d.armed /\ e.stopped = d.stopped
  /\ e.assignment = d.assignment /\ e.request = d.request /\ e.results = d.results
  /\ e.activations = d.activations /\ e.incidents = d.incidents
  /\ \A p \in Obligation \ {o} : e.obligation[p] = d.obligation[p]

LEMMA DebtWrite ==
  ASSUME NEW d \in Ledgers, NEW o \in Obligation, NEW q \in DebtRow
  PROVE  LET e == [d EXCEPT !.obligation = [d.obligation EXCEPT ![o] = q]]
         IN e \in Ledgers /\ OnlyDebt(d, e, o) /\ e.obligation[o] = q
<1> DEFINE f == [d.obligation EXCEPT ![o] = q]
           e == [d EXCEPT !.obligation = f]
<1>1. d.obligation \in [Obligation -> DebtRow]
  BY LedgerFields
<1>2. f \in [Obligation -> DebtRow] /\ f[o] = q /\ \A p \in Obligation \ {o} : f[p] = d.obligation[p]
  BY <1>1
<1> HIDE DEF f
<1>3. /\ e \in Ledgers /\ e.obligation = f
      /\ e.generation = d.generation /\ e.work = d.work /\ e.wait = d.wait /\ e.handled = d.handled
      /\ e.replays = d.replays /\ e.armed = d.armed /\ e.stopped = d.stopped
      /\ e.assignment = d.assignment /\ e.request = d.request /\ e.results = d.results
      /\ e.activations = d.activations /\ e.incidents = d.incidents
  BY <1>2 DEF Ledgers
<1> HIDE DEF e
<1> QED BY <1>2, <1>3 DEF OnlyDebt, e, f

\* request_progress: the assignee says it is at work on the request.
LEMMA RequestProgressStep ==
  ASSUME GoodBut(ledger, {}), NEW r \in Request, RequestProgress(r)
  PROVE  Quietly(ledger, ledger') /\ Remembers(ledger, ledger')
<1> DEFINE d == ledger
           e == [d EXCEPT !.request[r].status = "claimed"]
<1>1. /\ d \in Ledgers
      /\ \A q \in Request : RequestKept(d, q)
      /\ \A i \in Indexes(d) : Addressed(d, d.activations[i])
      /\ \A n \in d.incidents : n.nudge \in Indexes(d)
  BY GoodParts
<1>2. ledger' = e
  BY DEF RequestProgress, Commit
<1>3. DebtOf[r] # None /\ d.request[r].status # "none" /\ ~d.request[r].answered
  BY DEF RequestProgress, Responding
<1>4. GoodBut(d, {})
  BY DEF d
<1> HIDE DEF d
<1>5. /\ e \in Ledgers /\ Frame(d, e) /\ e.activations = d.activations
      /\ e.results = d.results /\ e.incidents = d.incidents
      /\ e.request[r].status = "claimed" /\ e.request[r].reply = d.request[r].reply
      /\ e.request[r].message = d.request[r].message
      /\ e.request[r].answered = d.request[r].answered
      /\ \A p \in Request \ {r} : e.request[p] = d.request[p]
  <2> DEFINE s == "claimed"
  <2>1. s \in {"none", "delivery_pending", "claimed", "reply_ready", "handled", "closed_no_reply"}
    OBVIOUS
  <2>2. e = [d EXCEPT !.request[r].status = s]
    OBVIOUS
  <2> HIDE DEF s, e
  <2>3. /\ e \in Ledgers /\ Frame(d, e) /\ e.activations = d.activations
        /\ e.results = d.results /\ e.incidents = d.incidents
        /\ e.request[r].status = s /\ e.request[r].reply = d.request[r].reply
        /\ e.request[r].message = d.request[r].message
        /\ e.request[r].answered = d.request[r].answered
        /\ \A p \in Request \ {r} : e.request[p] = d.request[p]
    BY <1>1, <2>1, <2>2, StatusWrite
  <2> QED BY <2>3 DEF s
<1> HIDE DEF e
<1>6. Thinned(d, e) /\ Onward(d, e)
  BY <1>5, ThinnedSame
<1>7. Outcomes(e) = Outcomes(d) /\ Indexes(e) = Indexes(d)
  BY <1>5 DEF Outcomes, Indexes
<1>8. Others(d, e, {}, {r})
  BY <1>5, <1>7 DEF Others, Frame, SameNotices
<1>9. RequestKept(d, r) /\ d.request[r] \in RequestRow
  BY <1>1, LedgerFields
<1>10. d.request[r].status \in {"delivery_pending", "claimed"} /\ d.request[r].reply = 0
  BY <1>3, <1>9 DEF RequestKept, RequestRow
<1>11. RequestWritten(d, e, r)
  <2>1. e.request[r].message # 0 =>
           /\ e.request[r].message \in Indexes(e)
           /\ e.activations[e.request[r].message].marks.request = r
    BY <1>1, <1>5, <1>6, <1>9, MessageThinned
  <2>2. RequestKept(e, r)
    BY <1>3, <1>5, <1>7, <1>9, <1>10, <2>1 DEF RequestKept, Frame
  <2> QED BY <1>5, <2>2 DEF RequestWritten
<1>12. ASSUME NEW i \in Indexes(d) PROVE Apart(d, e, i, {}, {r})
  <2>1. Addressed(d, d.activations[i])
    BY <1>1
  <2>2. ASSUME d.activations[i].marks.obligation = None, d.activations[i].marks.request = r PROVE FALSE
    <3>1. r # None
      BY LedgerConstants
    <3>2. d.activations[i].reason \in {"work_recovery", "request_reply", "request_message"}
      BY <2>1, <2>2, <3>1 DEF Addressed
    <3> QED BY <1>3, <2>1, <2>2, <3>1, <3>2 DEF Addressed
  <2> QED BY <1>5, <2>2 DEF Apart
<1>13. \A n \in e.incidents : n.nudge \in Indexes(d)
  BY <1>1, <1>5
<1>14. GoodBut(e, {}) /\ \A q \in Request \ {r} : Alike(d, e, q)
  <2> DEFINE O == {}
             R == {r}
  <2>1. O \in SUBSET Obligation /\ R \in SUBSET Request
    OBVIOUS
  <2>2. /\ \A o \in O : DebtWritten(d, e, o) /\ Settled(e, o)
        /\ \A q \in R : RequestWritten(d, e, q)
    BY <1>11
  <2>3. Others(d, e, O, R) /\ \A i \in Indexes(d) : e.activations[i].status \in Live => Apart(d, e, i, O, R)
    BY <1>8, <1>12
  <2> HIDE DEF O, R
  <2>4. GoodBut(e, {}) /\ \A q \in Request \ R : Alike(d, e, q)
    BY <1>4, <1>5, <1>6, <1>13, <2>1, <2>2, <2>3, DebtWriteGood
  <2> QED BY <2>4 DEF R
<1>15. Alike(d, e, r)
  <2>1. PhaseOf(e, r) = PhaseOf(d, r)
    BY <1>5, <1>10, Phases
  <2>2. HeldOf(e, r) <=> HeldOf(d, r)
    BY <1>5, <1>10 DEF HeldOf, CurrentClaim, Frame
  <2> QED BY <2>1, <2>2 DEF Alike
<1>16. Within(d, e)
  BY <1>5, WithinSame DEF Frame
<1>17. Remembers(d, e)
  BY <1>4, <1>5, <1>6, RemembersBut DEF SameNotices, Frame
<1> QED BY <1>2, <1>6, <1>14, <1>15, <1>16, <1>17 DEF Quietly, Quiet, d

\* request_handle: the return actor is done with its reply.
LEMMA RequestHandleStep ==
  ASSUME GoodBut(ledger, {}), NEW r \in Request, RequestHandle(r)
  PROVE  /\ GoodBut(ledger', {}) /\ Onward(ledger, ledger') /\ Within(ledger, ledger')
         /\ Moves(ledger, ledger', r, "answered", "handled", TRUE, FALSE)
         /\ Remembers(ledger, ledger')
<1> DEFINE d == ledger
           nudges == Rows(d, LAMBDA x : x.marks.request = r /\ x.reason = "work_recovery")
           a == [d EXCEPT !.request[r].status = "handled"]
           b == Revoke(a, nudges)
           e == CloseIncidents(b, nudges)
<1>1. /\ d \in Ledgers
      /\ \A q \in Request : RequestKept(d, q)
      /\ \A i \in Indexes(d) : Addressed(d, d.activations[i]) /\ LiveKept(d, i)
      /\ \A n \in d.incidents : n.nudge \in Indexes(d)
  BY GoodParts
<1>2. ledger' = e
  BY DEF RequestHandle, Commit
<1>3. d.request[r].status = "reply_ready" /\ HoldsReply(r)
  BY DEF RequestHandle
<1>4. GoodBut(d, {})
  BY DEF d
<1>5. /\ d.request[r].reply # 0 /\ Held0(d, r)
      /\ d.activations[d.request[r].reply].status = "claimed"
  BY <1>3 DEF HoldsReply, ActiveCurrent, Held0
<1>6. \A i \in Indexes(d) : i \in nudges
        <=> d.activations[i].marks.request = r /\ d.activations[i].reason = "work_recovery"
  BY DEF Rows
<1> HIDE DEF d, nudges
<1>7. /\ a \in Ledgers /\ Frame(d, a) /\ a.activations = d.activations
      /\ a.results = d.results /\ a.incidents = d.incidents
      /\ a.request[r].status = "handled" /\ a.request[r].reply = d.request[r].reply
      /\ a.request[r].message = d.request[r].message
      /\ a.request[r].answered = d.request[r].answered
      /\ \A p \in Request \ {r} : a.request[p] = d.request[p]
  <2> DEFINE s == "handled"
  <2>1. s \in {"none", "delivery_pending", "claimed", "reply_ready", "handled", "closed_no_reply"}
    OBVIOUS
  <2>2. a = [d EXCEPT !.request[r].status = s]
    OBVIOUS
  <2> HIDE DEF s, a
  <2>3. /\ a \in Ledgers /\ Frame(d, a) /\ a.activations = d.activations
        /\ a.results = d.results /\ a.incidents = d.incidents
        /\ a.request[r].status = s /\ a.request[r].reply = d.request[r].reply
        /\ a.request[r].message = d.request[r].message
        /\ a.request[r].answered = d.request[r].answered
        /\ \A p \in Request \ {r} : a.request[p] = d.request[p]
    BY <1>1, <2>1, <2>2, StatusWrite
  <2> QED BY <2>3 DEF s
<1> HIDE DEF a
<1>8. /\ b \in Ledgers /\ Rest(a, b) /\ b.incidents = a.incidents
      /\ Thinned(a, b) /\ Onward(a, b) /\ RevokedRows(a, b, nudges)
  BY <1>7, RevokeEffect
<1> HIDE DEF b
<1>9. /\ e \in Ledgers /\ Rest(b, e) /\ e.activations = b.activations
      /\ e.incidents = {n \in b.incidents : n.nudge \notin nudges}
  BY <1>8, CloseEffect
<1> HIDE DEF e
<1>10. Thinned(d, e) /\ Onward(d, e)
  BY <1>7, <1>8, <1>9, ThinnedSame
<1>11. /\ Frame(d, e) /\ e.results = d.results /\ e.request = a.request
       /\ e.incidents = {n \in d.incidents : n.nudge \notin nudges}
  BY <1>7, <1>8, <1>9 DEF Rest, Frame
<1>12. Outcomes(e) = Outcomes(d) /\ Indexes(e) = Indexes(d)
  BY <1>10, <1>11 DEF Outcomes, Thinned
<1>13. Others(d, e, {}, {r})
  BY <1>7, <1>11, <1>12 DEF Others, Frame, SameNotices
<1>14. RequestKept(d, r)
  BY <1>1
<1>15. DebtOf[r] # None /\ d.obligation[DebtOf[r]].status = "resolved" /\ d.request[r].answered
       /\ d.request[r].reply \in Indexes(d)
  BY <1>3, <1>5, <1>14 DEF RequestKept
<1>16. RequestWritten(d, e, r)
  <2> DEFINE k == d.request[r].reply
  <2>1. e.activations[k].reason = d.activations[k].reason
        /\ e.activations[k].marks = d.activations[k].marks
        /\ e.activations[k].status = "claimed"
    BY <1>5, <1>10, <1>15 DEF Thinned
  <2>2. /\ e.request[r].status = "handled" /\ e.request[r].reply = k /\ e.request[r].answered
        /\ k # 0 /\ k \in Indexes(e) /\ e.work = d.work /\ e.obligation = d.obligation
    BY <1>5, <1>7, <1>11, <1>12, <1>15 DEF Frame
  <2>3. /\ d.activations[k].reason = "request_reply" /\ d.activations[k].marks.request = r
        /\ d.work[WorkOf[r]].mode # "none" /\ <<DebtOf[r], "result">> \in Outcomes(d)
    BY <1>3, <1>5, <1>14, <1>15 DEF RequestKept
  <2> HIDE DEF k
  <2>4. e.request[r].message # 0 =>
           /\ e.request[r].message \in Indexes(e)
           /\ e.activations[e.request[r].message].marks.request = r
    BY <1>1, <1>7, <1>9, <1>10, <1>11, <1>14, MessageThinned
  <2>5. RequestKept(e, r)
    BY <1>12, <1>15, <2>1, <2>2, <2>3, <2>4 DEF RequestKept
  <2> QED BY <2>2, <2>5 DEF RequestWritten
<1>17. ASSUME NEW i \in Indexes(d), e.activations[i].status \in Live PROVE Apart(d, e, i, {}, {r})
  <2> DEFINE x == d.activations[i]
  <2>1. Addressed(d, x) /\ LiveKept(d, i)
    BY <1>1
  <2>2. x.status \in Live /\ i \notin nudges
    BY <1>7, <1>8, <1>9, <1>12, <1>17 DEF RevokedRows, Live, Indexes
  <2>3. ASSUME x.marks.obligation = None, x.marks.request = r PROVE FALSE
    <3>1. r # None
      BY LedgerConstants
    <3>2. x.reason \in {"work_recovery", "request_reply", "request_message"}
      BY <2>1, <2>3, <3>1 DEF Addressed
    <3>3. x.reason = "request_reply"
      BY <1>6, <1>15, <2>1, <2>2, <2>3, <3>2 DEF Addressed
    <3>4. d.request[r].reply = i
      BY <2>1, <2>2, <2>3, <3>3 DEF LiveKept
    <3> QED BY <1>5, <2>2, <3>4 DEF Live
  <2> QED BY <1>11, <2>2, <2>3 DEF Apart
<1>18. \A n \in e.incidents : n.nudge \in Indexes(d)
  BY <1>1, <1>11
<1>19. GoodBut(e, {}) /\ \A q \in Request \ {r} : Alike(d, e, q)
  <2> DEFINE O == {}
             R == {r}
  <2>1. O \in SUBSET Obligation /\ R \in SUBSET Request
    OBVIOUS
  <2>2. /\ \A o \in O : DebtWritten(d, e, o) /\ Settled(e, o)
        /\ \A q \in R : RequestWritten(d, e, q)
    BY <1>16
  <2>3. Others(d, e, O, R) /\ \A i \in Indexes(d) : e.activations[i].status \in Live => Apart(d, e, i, O, R)
    BY <1>13, <1>17
  <2> HIDE DEF O, R
  <2>4. GoodBut(e, {}) /\ \A q \in Request \ R : Alike(d, e, q)
    BY <1>4, <1>9, <1>10, <1>18, <2>1, <2>2, <2>3, DebtWriteGood
  <2> QED BY <2>4 DEF R
<1>20. HeldOf(d, r)
  BY <1>3, <1>5 DEF HeldOf
<1>21. ~HeldOf(e, r)
  BY <1>7, <1>11, <1>15 DEF HeldOf, Frame
<1>22. PhaseOf(d, r) = "answered" /\ PhaseOf(e, r) = "handled"
  BY <1>3, <1>7, <1>11, Phases
<1>23. Moves(d, e, r, "answered", "handled", TRUE, FALSE)
  BY <1>19, <1>20, <1>21, <1>22 DEF Moves
<1>24. Within(d, e)
  BY <1>11, WithinSame DEF Frame
<1>25. Remembers(d, e)
  <2>1. ASSUME NEW i \in Indexes(d), d.activations[i].status \in Live,
               e.activations[i].status \notin Live
        PROVE  d.activations[i].reason \in Recovery
    <3>1. i \in nudges
      BY <1>7, <1>8, <1>9, <2>1 DEF RevokedRows, Indexes
    <3> QED BY <1>6, <3>1 DEF Recovery
  <2>2. /\ e.generation = d.generation /\ e.work = d.work /\ e.stopped = d.stopped
        /\ \A o \in Obligation : SameNotices(d, e, o)
    BY <1>11 DEF Frame, SameNotices
  <2> QED BY <1>4, <1>9, <1>10, <2>1, <2>2, RemembersBut
<1> QED BY <1>2, <1>10, <1>19, <1>23, <1>24, <1>25 DEF d

\* A new debt: nothing is about it yet.
NoRows(d, o) == \A i \in Indexes(d) : d.activations[i].marks.obligation # o

LEMMA NewObligationEffect ==
  ASSUME NEW d \in Ledgers, NEW o \in Obligation,
         \A i \in Indexes(d) : Addressed(d, d.activations[i]),
         d.obligation[o].status = "none", DebtKept(d, o), d.work[WorkOf[o]].mode # "none"
  PROVE  LET e == NewObligation(d, o)
         IN /\ e \in Ledgers /\ OnlyDebt(d, e, o) /\ e.obligation[o].status = "open"
            /\ e.obligation[o].generation = 1 /\ e.obligation[o].claim = 0
            /\ e.assignment[o].mode = "none" /\ NoRows(d, o)
            /\ DebtWritten(d, e, o) /\ Settled(e, o)
<1> DEFINE q == [status |-> "open", generation |-> 1, claim |-> 0]
           e == NewObligation(d, o)
           f == [d EXCEPT !.obligation = [d.obligation EXCEPT ![o] = q]]
<1>1. q \in DebtRow /\ q.status = "open" /\ q.generation = 1 /\ q.claim = 0
  BY DEF DebtRow
<1>2. e = f
  BY DEF NewObligation
<1> HIDE DEF q
<1>3. f \in Ledgers /\ OnlyDebt(d, f, o) /\ f.obligation[o] = q
  BY <1>1, DebtWrite
<1> HIDE DEF f, e
<1>4. /\ e \in Ledgers /\ OnlyDebt(d, e, o) /\ e.obligation[o].status = "open"
      /\ e.obligation[o].generation = 1 /\ e.obligation[o].claim = 0
  BY <1>1, <1>2, <1>3
<1>5. o # None
  BY LedgerConstants
<1>6. NoRows(d, o)
  BY <1>5 DEF NoRows, Addressed
<1>7. e.assignment[o].mode = "none"
  BY <1>4 DEF DebtKept, OnlyDebt
<1>8. e.activations = d.activations /\ Indexes(e) = Indexes(d) /\ e.work = d.work
  BY <1>4 DEF OnlyDebt, Indexes
<1>9. DebtKept(e, o)
  BY <1>4, <1>8 DEF DebtKept
<1>10. Settled(e, o)
  BY <1>6, <1>8 DEF Settled, NoRows, Current
<1>11. DebtWritten(d, e, o)
  BY <1>6, <1>9 DEF DebtWritten, NoRows
<1> QED BY <1>4, <1>6, <1>7, <1>10, <1>11 DEF e

\* DebtWriteGood for one assignment, no request pointing to it.
LEMMA OneDebtGood ==
  ASSUME NEW d, NEW P, GoodBut(d, P), NEW e \in Ledgers, NEW o \in Obligation,
         Thinned(d, e), Others(d, e, {o}, {}), DebtWritten(d, e, o), Settled(e, o),
         \A i \in Indexes(d) : e.activations[i].status \in Live => Apart(d, e, i, {o}, {}),
         \A n \in e.incidents : n.nudge \in Indexes(d)
  PROVE  GoodBut(e, P) /\ Quiet(d, e)
<1> DEFINE O == {o}
           R == {}
<1>1. O \in SUBSET Obligation /\ R \in SUBSET Request
  OBVIOUS
<1>2. /\ \A p \in O : DebtWritten(d, e, p) /\ Settled(e, p)
      /\ \A q \in R : RequestWritten(d, e, q)
  OBVIOUS
<1>3. Others(d, e, O, R) /\ \A i \in Indexes(d) : e.activations[i].status \in Live => Apart(d, e, i, O, R)
  OBVIOUS
<1> HIDE DEF O, R
<1>4. GoodBut(e, P) /\ \A q \in Request \ R : Alike(d, e, q)
  BY <1>1, <1>2, <1>3, DebtWriteGood
<1> QED BY <1>4 DEF R, Quiet

LEMMA PlainDebt ==
  ASSUME NEW o \in Obligation, RequestOf(o) = None, NEW r \in Request
  PROVE  DebtOf[r] # o
<1> SUFFICES ASSUME DebtOf[r] = o PROVE FALSE
  OBVIOUS
<1>1. RequestOf(o) \in Request
  BY DEF RequestOf
<1> QED BY <1>1, LedgerConstants

\* open_obligation
LEMMA OpenObligationStep ==
  ASSUME GoodBut(ledger, {}), NEW o \in Obligation, OpenObligation(o)
  PROVE  Quietly(ledger, ledger') /\ Remembers(ledger, ledger')
<1> DEFINE d == ledger
           m == NewObligation(d, o)
           e == ScheduleObligation(m, o)
<1>1. /\ d \in Ledgers /\ DebtKept(d, o)
      /\ \A i \in Indexes(d) : Addressed(d, d.activations[i])
      /\ \A n \in d.incidents : n.nudge \in Indexes(d)
  BY GoodParts
<1>2. /\ ledger' = e /\ d.obligation[o].status = "none" /\ RequestOf(o) = None
      /\ d.work[WorkOf[o]].mode \notin {"none", "complete"}
  BY DEF OpenObligation, Commit, Mutable
<1>3. GoodBut(d, {})
  BY DEF d
<1> HIDE DEF d
<1>4. /\ m \in Ledgers /\ OnlyDebt(d, m, o) /\ m.obligation[o].status = "open"
      /\ m.assignment[o].mode = "none" /\ NoRows(d, o)
      /\ DebtWritten(d, m, o) /\ Settled(m, o)
  BY <1>1, <1>2, NewObligationEffect
<1> HIDE DEF m
<1>5. m.activations = d.activations /\ m.results = d.results /\ m.incidents = d.incidents
      /\ m.work = d.work
  BY <1>4 DEF OnlyDebt
<1>6. Thinned(d, m) /\ Onward(d, m)
  BY <1>5, ThinnedSame
<1>7. Outcomes(m) = Outcomes(d)
  BY <1>5 DEF Outcomes
<1>8. \A r \in Request : DebtOf[r] # o
  BY <1>2, PlainDebt
<1>9. Others(d, m, {o}, {})
  BY <1>4, <1>7, <1>8 DEF Others, OnlyDebt, SameNotices
<1>10. \A i \in Indexes(d) : Apart(d, m, i, {o}, {})
  BY <1>4, <1>5 DEF Apart, NoRows
<1>11. \A n \in m.incidents : n.nudge \in Indexes(d)
  BY <1>1, <1>5
<1>12. GoodBut(m, {}) /\ Quiet(d, m)
  BY <1>3, <1>4, <1>6, <1>9, <1>10, <1>11, OneDebtGood
<1>13. Quietly(d, m)
  <2>1. Within(d, m)
    BY <1>4, WithinSame DEF OnlyDebt
  <2> QED BY <1>6, <1>12, <2>1 DEF Quietly
<1>14. Open(m, o)
  BY <1>2, <1>4, <1>5 DEF Open
<1>15. Keeps(m, e, {})
  BY <1>2, <1>12, <1>14, ScheduleObligationKeeps
<1>17. DebtRouted(e, o)
  <2>1. CASE ExplicitStop(m, WorkOf[o], Assignee[o])
    <3>1. e = m
      BY <2>1 DEF ScheduleObligation
    <3> QED BY <2>1, <3>1 DEF DebtRouted, Owed
  <2>2. CASE ~ExplicitStop(m, WorkOf[o], Assignee[o])
    <3>1. Noticed(e, o)
      BY <1>2, <1>12, <1>14, <2>2, ScheduleObligationKeeps
    <3> QED BY <3>1 DEF DebtRouted
  <2> QED BY <2>1, <2>2
<1> HIDE DEF e
<1>18. Remembers(d, e)
  <2>1. Routes(d, m, {o}, {})
    <3>1. /\ m.generation = d.generation /\ m.work = d.work /\ m.stopped = d.stopped
          /\ \A p \in Obligation \ {o} : SameNotices(d, m, p)
      BY <1>4 DEF OnlyDebt, SameNotices
    <3> QED BY <1>1, <1>4, <1>5, <1>6, <3>1, DebtRoutes
  <2>2. Routes(m, e, {o}, {})
    BY <1>4, <1>15, KeepsRoutes
  <2>3. Routes(d, e, {o}, {})
    BY <2>1, <2>2, RoutesThen
  <2>4. e \in Ledgers /\ Added(m, e)
    BY <1>15 DEF Keeps, GoodBut, Good, Extends
  <2>5. \A i \in Indexes(m) : m.activations[i].marks.obligation # o
    BY <1>4, <1>5 DEF NoRows, Indexes
  <2>6. InStep(e, o)
    BY <1>4, <2>4, <2>5, NewInStep
  <2> QED BY <1>17, <2>3, <2>6, RoutesDone DEF Remembers
<1>16. Quietly(d, e)
  BY <1>13, <1>15, QuietlyKeeps
<1> QED BY <1>2, <1>16, <1>18 DEF d

\* The claim on record of an open assignment is current.
LEMMA ClaimHeld ==
  ASSUME NEW d \in Ledgers, NEW o \in Obligation, DebtKept(d, o), CurrentClaim(d, o) # 0
  PROVE  LET i == d.obligation[o].claim
         IN /\ i # 0 /\ i \in Indexes(d) /\ d.activations[i].status = "claimed"
            /\ Current(d, i, o) /\ d.activations[i].reason \in AssignmentReasons
<1> DEFINE i == d.obligation[o].claim
<1>1. i # 0
  BY DEF CurrentClaim
<1>2. /\ i \in Indexes(d) /\ d.activations[i].status = "claimed"
      /\ d.activations[i].marks.obligation = o /\ d.activations[i].reason \in AssignmentReasons
      /\ d.activations[i].generation = d.obligation[o].generation
  BY <1>1 DEF DebtKept
<1>3. d.activations[i].reason # "assignment_recovery"
  BY <1>2 DEF AssignmentReasons
<1> QED BY <1>1, <1>2, <1>3 DEF Current

\* resolve_obligation
LEMMA ResolveObligationStep ==
  ASSUME GoodBut(ledger, {}), NEW o \in Obligation, ResolveObligation(o)
  PROVE  Quietly(ledger, ledger') /\ Remembers(ledger, ledger')
<1> DEFINE d == ledger
           q == [d.obligation[o] EXCEPT !.status = "resolved"]
           a == [d EXCEPT !.obligation = [d.obligation EXCEPT ![o] = q]]
           rows == Rows(a, LAMBDA x : x.marks.obligation = o)
           b == Revoke(a, rows)
           c == RecordResult(b, <<o, "result">>)
           gone == Rows(c, LAMBDA x : x.reason = "assignment_recovery" /\ x.marks.obligation = o)
           m == CloseIncidents(c, gone)
           e == EvaluateWait(m, WorkOf[o])
<1>1. /\ d \in Ledgers /\ DebtKept(d, o)
      /\ \A n \in d.incidents : n.nudge \in Indexes(d)
  BY GoodParts
<1>2. RequestOf(o) = None /\ d.obligation[o].status = "open"
  BY DEF ResolveObligation, Resolvable, HoldsClaim
<1>3. ledger' = e
  <2>1. a = [ledger EXCEPT !.obligation[o].status = "resolved"]
    OBVIOUS
  <2>2. ledger' = EvaluateWait(CloseAssignmentIncidents(RecordResult(RevokeObligation(
                     [ledger EXCEPT !.obligation[o].status = "resolved"], o), <<o, "result">>), o), WorkOf[o])
    BY DEF ResolveObligation, Commit
  <2> HIDE DEF a
  <2> QED BY <2>1, <2>2 DEF RevokeObligation, CloseAssignmentIncidents
<1>4. GoodBut(d, {})
  BY DEF d
<1> HIDE DEF d
<1>5. d.obligation[o] \in DebtRow
  BY <1>1, LedgerFields
<1>6. /\ q \in DebtRow /\ q.status = "resolved" /\ q.generation = d.obligation[o].generation
      /\ q.claim = d.obligation[o].claim
  BY <1>5 DEF DebtRow
<1> HIDE DEF q
<1>7. a \in Ledgers /\ OnlyDebt(d, a, o) /\ a.obligation[o] = q
  BY <1>1, <1>6, DebtWrite
<1> HIDE DEF a
<1>8. \A i \in Indexes(d) : i \in rows <=> d.activations[i].marks.obligation = o
  BY <1>7 DEF Rows, OnlyDebt, Indexes
<1> HIDE DEF rows
<1>9. /\ b \in Ledgers /\ Rest(a, b) /\ b.incidents = a.incidents
      /\ Thinned(a, b) /\ Onward(a, b) /\ RevokedRows(a, b, rows)
  BY <1>7, RevokeEffect
<1> HIDE DEF b
<1>10. <<o, "result">> \in Outcome
  BY DEF Outcome, Sources
<1>11. /\ c \in Ledgers /\ SameRead(b, c) /\ Frame(b, c) /\ Outcomes(c) = Outcomes(b) \cup {<<o, "result">>}
  BY <1>9, <1>10, RecordEffect
<1> HIDE DEF c
<1>12. gone \subseteq rows
  <2>1. Indexes(c) = Indexes(d) /\ \A i \in Indexes(d) : c.activations[i].marks = d.activations[i].marks
    BY <1>7, <1>9, <1>11 DEF SameRead, Thinned, OnlyDebt, Indexes
  <2> QED BY <1>8, <2>1 DEF Rows
<1> HIDE DEF gone
<1>13. /\ m \in Ledgers /\ Rest(c, m) /\ m.activations = c.activations
       /\ m.incidents = {n \in c.incidents : n.nudge \notin gone}
  BY <1>11, CloseEffect
<1> HIDE DEF m
<1>14. a.activations = d.activations /\ c.activations = b.activations /\ Indexes(a) = Indexes(d)
  BY <1>7, <1>11 DEF OnlyDebt, SameRead, Indexes
<1>15. Thinned(d, m) /\ Onward(d, m)
  <2>1. Thinned(d, b) /\ Onward(d, b)
    BY <1>9, <1>14, ThinnedSame
  <2>2. m.activations = b.activations
    BY <1>13, <1>14
  <2> QED BY <2>1, <2>2 DEF Thinned, Onward, Indexes
<1>16. /\ m.generation = d.generation /\ m.work = d.work /\ m.wait = d.wait /\ m.handled = d.handled
       /\ m.replays = d.replays /\ m.armed = d.armed /\ m.assignment = d.assignment
       /\ m.request = d.request /\ m.obligation[o] = q
       /\ \A p \in Obligation \ {o} : m.obligation[p] = d.obligation[p]
       /\ m.incidents = {n \in d.incidents : n.nudge \notin gone}
  BY <1>7, <1>9, <1>11, <1>13 DEF Rest, Frame, OnlyDebt, SameRead
<1>29. m.stopped = d.stopped
  BY <1>7, <1>9, <1>11, <1>13 DEF Rest, Frame, OnlyDebt
<1>17. Outcomes(m) = Outcomes(d) \cup {<<o, "result">>}
  BY <1>7, <1>9, <1>11, <1>13 DEF Rest, OnlyDebt, Outcomes
<1>18. \A r \in Request : DebtOf[r] # o
  BY <1>2, PlainDebt
<1>19. Others(d, m, {o}, {})
  BY <1>16, <1>17, <1>18 DEF Others, SameNotices
<1>20. ASSUME NEW i \in Indexes(d), m.activations[i].status \in Live PROVE Apart(d, m, i, {o}, {})
  <2>1. i \notin rows
    BY <1>9, <1>13, <1>14, <1>20 DEF RevokedRows, Live
  <2> QED BY <1>8, <1>12, <1>16, <2>1 DEF Apart
<1>21. \A n \in m.incidents : n.nudge \in Indexes(d)
  BY <1>1, <1>16
<1>22. DebtWritten(d, m, o)
  <2>1. DebtKept(m, o)
    <3>1. d.obligation[o].claim # 0 =>
            LET k == d.obligation[o].claim
            IN /\ k \in Indexes(m) /\ m.activations[k].status = "claimed"
               /\ m.activations[k].marks.obligation = o /\ m.activations[k].reason \in AssignmentReasons
               /\ m.activations[k].generation = d.obligation[o].generation
      BY <1>1, <1>15 DEF DebtKept, Thinned
    <3>2. d.work[WorkOf[o]].mode # "none"
      BY <1>1, <1>2 DEF DebtKept
    <3> QED BY <1>6, <1>16, <3>1, <3>2 DEF DebtKept
  <2>2. ASSUME NEW i \in Indexes(d), d.activations[i].marks.obligation = o
        PROVE  NoticeKept(m, i)
    <3>1. m.activations[i].marks.obligation = o /\ m.obligation[o].status = "resolved"
      BY <1>6, <1>15, <1>16, <2>2 DEF Thinned
    <3> QED BY ONLY <3>1 DEF NoticeKept
  <2>3. d.obligation[o].generation \in Nat
    BY <1>5 DEF DebtRow
  <2> QED BY <1>6, <1>16, <2>1, <2>2, <2>3 DEF DebtWritten
<1>23. Settled(m, o)
  BY <1>6, <1>16 DEF Settled
<1>24. GoodBut(m, {}) /\ Quiet(d, m)
  BY <1>4, <1>13, <1>15, <1>19, <1>20, <1>21, <1>22, <1>23, OneDebtGood
<1>25. Quietly(d, m)
  <2>1. Within(d, m)
    BY <1>16, WithinSame
  <2> QED BY <1>15, <1>24, <2>1 DEF Quietly
<1>26. WorkOf[o] \in Work
  BY LedgerConstants
<1>27. Keeps(m, e, {})
  BY <1>24, <1>26, EvaluateWaitKeeps
<1> HIDE DEF e
<1>28. Quietly(d, e)
  BY <1>25, <1>27, QuietlyKeeps
<1>30. Remembers(d, m)
  <2>1. ASSUME NEW i \in Indexes(d), d.activations[i].status \in Live,
               m.activations[i].status \notin Live
        PROVE  d.activations[i].marks.obligation = o
    <3>1. i \in rows
      BY <1>9, <1>13, <1>14, <2>1 DEF RevokedRows
    <3> QED BY <1>8, <3>1
  <2>2. \A i \in Indexes(d) : Addressed(d, d.activations[i])
    BY <1>4, GoodParts
  <2>3. \A p \in Obligation \ {o} : SameNotices(d, m, p)
    BY <1>16 DEF SameNotices
  <2>4. Routes(d, m, {o}, {})
    BY <1>1, <1>13, <1>15, <1>16, <1>29, <2>1, <2>2, <2>3, DebtRoutes
  <2>5. DebtRouted(m, o) /\ InStep(m, o)
    BY <1>6, <1>16 DEF DebtRouted, Owed, InStep
  <2> QED BY <2>4, <2>5, RoutesDone DEF Remembers
<1>31. Remembers(d, e)
  BY <1>24, <1>27, <1>30, RemembersKeeps
<1> QED BY <1>3, <1>28, <1>31 DEF d

\* No request moves, and nobody takes hold of one.
Loses(d, e) == \A r \in Request : PhaseOf(e, r) = PhaseOf(d, r) /\ (HeldOf(e, r) => HeldOf(d, r))

LEMMA LosesKeeps ==
  ASSUME NEW d, NEW m, NEW e, NEW P, GoodBut(m, P), Loses(d, m), Onward(d, m), Keeps(m, e, P)
  PROVE  GoodBut(e, P) /\ Loses(d, e) /\ Onward(d, e)
<1>1. Quiet(m, e) /\ Onward(m, e) /\ GoodBut(e, P)
  BY QuietKeeps DEF Keeps
<1> QED BY <1>1, OnwardTransitive DEF Loses, Quiet, Alike

\* The assignment is written, with what its assignee has handled.
AssignmentWritten(d, e, o, h, row) == e = [d EXCEPT !.handledBy[o] = h, !.assignment[o] = row]

LEMMA AssignmentWrite ==
  ASSUME NEW d \in Ledgers, NEW o \in Obligation, NEW h \in SUBSET Outcome, NEW row \in AssignmentRow,
         NEW e, AssignmentWritten(d, e, o, h, row)
  PROVE  /\ e \in Ledgers /\ e.assignment[o] = row
         /\ e.generation = d.generation /\ e.work = d.work /\ e.wait = d.wait
         /\ e.handled = d.handled /\ e.replays = d.replays /\ e.armed = d.armed
         /\ e.obligation = d.obligation /\ e.request = d.request /\ e.results = d.results
         /\ e.activations = d.activations /\ e.incidents = d.incidents
         /\ e.stopped = d.stopped
         /\ \A p \in Obligation \ {o} : e.assignment[p] = d.assignment[p]
<1> DEFINE f == [d.handledBy EXCEPT ![o] = h]
           g == [d.assignment EXCEPT ![o] = row]
           k == [d EXCEPT !.handledBy = f, !.assignment = g]
<1>1. d.handledBy \in [Obligation -> SUBSET Outcome] /\ d.assignment \in [Obligation -> AssignmentRow]
  BY DEF Ledgers
<1>2. /\ f \in [Obligation -> SUBSET Outcome] /\ g \in [Obligation -> AssignmentRow]
      /\ g[o] = row /\ \A p \in Obligation \ {o} : g[p] = d.assignment[p]
  BY <1>1
<1>3. e = k
  BY DEF AssignmentWritten
<1> HIDE DEF f, g
<1>4. /\ k \in Ledgers /\ k.assignment = g
      /\ k.generation = d.generation /\ k.work = d.work /\ k.wait = d.wait
      /\ k.handled = d.handled /\ k.replays = d.replays /\ k.armed = d.armed
      /\ k.obligation = d.obligation /\ k.request = d.request /\ k.results = d.results
      /\ k.activations = d.activations /\ k.incidents = d.incidents
      /\ k.stopped = d.stopped
  BY <1>2 DEF Ledgers
<1> HIDE DEF k
<1> QED BY <1>2, <1>3, <1>4

\* What assignment_checkpoint writes before it creates the next notice: the assignment, at its
\* present generation or the next one, with nothing live about it.
Checkpointed(d, m, o, mode) ==
  /\ Thinned(d, m) /\ Onward(d, m)
  /\ m.generation = d.generation /\ m.work = d.work /\ m.wait = d.wait /\ m.handled = d.handled
  /\ m.replays = d.replays /\ m.armed = d.armed /\ m.request = d.request
  /\ Outcomes(m) = Outcomes(d)
  /\ \A p \in Obligation \ {o} : SameNotices(d, m, p)
  /\ m.assignment[o].mode = mode /\ m.obligation[o].status = "open"
  /\ \/ mode = "paused" /\ m.obligation[o] = d.obligation[o]
     \/ /\ mode \in {"continue", "waiting"} /\ m.obligation[o].claim = 0
        /\ m.obligation[o].generation = d.obligation[o].generation + 1
  /\ \A i \in Indexes(d) : d.activations[i].marks.obligation = o => m.activations[i].status \notin Live
  /\ \A n \in m.incidents : n \in d.incidents
  /\ \A n \in d.incidents : n \in m.incidents \/ d.activations[n.nudge].marks.obligation = o
  /\ m.stopped = d.stopped
  /\ \A i \in Indexes(d) : d.activations[i].status \in Live /\ m.activations[i].status \notin Live
       => d.activations[i].marks.obligation = o

LEMMA CheckpointedGood ==
  ASSUME NEW d, GoodBut(d, {}), NEW m \in Ledgers, NEW o \in Obligation, NEW mode,
         Checkpointed(d, m, o, mode), d.obligation[o].status = "open", CurrentClaim(d, o) # 0
  PROVE  /\ GoodBut(m, {}) /\ Loses(d, m)
         /\ mode # "paused" =>
              \A i \in Indexes(m) : m.activations[i].marks.obligation = o => ~Current(m, i, o)
<1> DEFINE O == {o}
           R == {r \in Request : DebtOf[r] = o}
<1>1. /\ d \in Ledgers
      /\ \A p \in Obligation : DebtKept(d, p)
      /\ \A r \in Request : RequestKept(d, r)
      /\ \A i \in Indexes(d) : Addressed(d, d.activations[i]) /\ NoticeKept(d, i)
      /\ \A n \in d.incidents : n.nudge \in Indexes(d)
      /\ \A p \in Obligation : Settled(d, p)
  BY GoodParts
<1>2. /\ Thinned(d, m) /\ m.generation = d.generation /\ m.work = d.work /\ m.wait = d.wait
      /\ m.handled = d.handled /\ m.replays = d.replays /\ m.armed = d.armed
      /\ m.request = d.request /\ Outcomes(m) = Outcomes(d)
      /\ \A p \in Obligation \ {o} : SameNotices(d, m, p)
      /\ m.assignment[o].mode = mode /\ m.obligation[o].status = "open"
      /\ \A i \in Indexes(d) : d.activations[i].marks.obligation = o => m.activations[i].status \notin Live
      /\ \A n \in m.incidents : n \in d.incidents
      /\ \A n \in d.incidents : n \in m.incidents \/ d.activations[n.nudge].marks.obligation = o
  BY DEF Checkpointed
<1>3. \/ mode = "paused" /\ m.obligation[o] = d.obligation[o]
      \/ /\ mode \in {"continue", "waiting"} /\ m.obligation[o].claim = 0
         /\ m.obligation[o].generation = d.obligation[o].generation + 1
  BY DEF Checkpointed
<1>4. Indexes(m) = Indexes(d)
  BY <1>2 DEF Thinned
<1>5. d.obligation[o].generation \in Nat
  BY <1>1, LedgerFields DEF DebtRow
<1>6. o # None
  BY LedgerConstants
<1>7. ASSUME mode # "paused", NEW i \in Indexes(d), d.activations[i].marks.obligation = o
      PROVE  ~Current(m, i, o)
  <2>1. d.activations[i].generation <= d.obligation[o].generation
    BY <1>1, <1>6, <1>7 DEF Addressed
  <2>2. m.activations[i].generation = d.activations[i].generation /\ d.activations[i].generation \in Nat
    BY <1>1, <1>2, LedgerFields DEF Thinned, Row
  <2> QED BY <1>3, <1>5, <1>7, <2>1, <2>2 DEF Current
<1>8. ASSUME mode = "paused", NEW i \in Indexes(d), d.activations[i].marks.obligation = o,
             Current(m, i, o), m.activations[i].status \in Active
      PROVE  /\ m.activations[i].status = "claimed" /\ m.obligation[o].claim = i
             /\ m.activations[i].endpoint = m.generation[Assignee[o]]
  <2>1. m.activations[i].status = "claimed"
    BY <1>2, <1>8 DEF Active
  <2>2. /\ d.activations[i].status = "claimed" /\ Current(d, i, o)
        /\ m.activations[i].endpoint = d.activations[i].endpoint
        /\ m.obligation[o] = d.obligation[o]
    BY <1>2, <1>3, <1>8, <2>1 DEF Thinned, Current
  <2>3. d.obligation[o].claim = i
    BY <1>1, <1>6, <1>8, <2>2 DEF NoticeKept, Active
  <2>4. d.activations[i].endpoint = d.generation[Assignee[o]]
    BY <1>1, <2>2 DEF Settled, Active
  <2> QED BY <1>2, <2>1, <2>2, <2>3, <2>4
<1>9. DebtWritten(d, m, o)
  <2>1. d.work[WorkOf[o]].mode # "none" /\ DebtKept(d, o)
    BY <1>1 DEF DebtKept
  <2>2. DebtKept(m, o)
    <3>1. CASE mode = "paused"
      <4>1. m.obligation[o] = d.obligation[o]
        BY <1>3, <3>1
      <4> QED BY <1>2, <2>1, <4>1 DEF DebtKept, Thinned
    <3>2. CASE mode # "paused"
      BY <1>2, <1>3, <2>1, <3>2 DEF DebtKept
    <3> QED BY <3>1, <3>2
  <2>3. ASSUME NEW i \in Indexes(d), d.activations[i].marks.obligation = o PROVE NoticeKept(m, i)
    <3>1. m.activations[i].marks.obligation = o
      BY <1>2, <2>3 DEF Thinned
    <3>2. CASE mode # "paused"
      BY <1>7, <2>3, <3>1, <3>2 DEF NoticeKept
    <3>3. CASE mode = "paused"
      <4> SUFFICES ASSUME Current(m, i, o), m.activations[i].status \in Active PROVE NoticeKept(m, i)
        BY <3>1 DEF NoticeKept
      <4>1. m.activations[i].status = "claimed" /\ m.obligation[o].claim = i
        BY <1>8, <2>3, <3>3
      <4>2. \A j \in Indexes(m) : Current(m, j, o) /\ m.activations[j].status \in Active => j = i
        <5> SUFFICES ASSUME NEW j \in Indexes(m), Current(m, j, o), m.activations[j].status \in Active
                     PROVE  j = i
          OBVIOUS
        <5>1. d.activations[j].marks.obligation = o
          BY <1>2, <1>4 DEF Current, Thinned
        <5> QED BY <1>4, <1>8, <3>3, <4>1, <5>1
      <4> QED BY <1>2, <3>1, <3>3, <4>1, <4>2 DEF NoticeKept, Live
    <3> QED BY <3>2, <3>3
  <2>4. d.obligation[o].generation <= m.obligation[o].generation
    BY <1>3, <1>5
  <2> QED BY <1>2, <2>2, <2>3, <2>4 DEF DebtWritten
<1>10. Settled(m, o)
  <2> SUFFICES ASSUME NEW i \in Indexes(m), Current(m, i, o), m.activations[i].status \in Active
               PROVE  m.activations[i].endpoint = m.generation[Assignee[o]]
    BY DEF Settled
  <2>1. d.activations[i].marks.obligation = o /\ i \in Indexes(d)
    BY <1>2, <1>4 DEF Current, Thinned
  <2> QED BY <1>7, <1>8, <2>1
<1>11. ASSUME NEW r \in R PROVE ~d.request[r].answered /\ RequestWritten(d, m, r)
  <2>1. RequestKept(d, r) /\ DebtOf[r] = o /\ o # None
    BY <1>1, <1>6
  <2>2. ~d.request[r].answered
    BY <2>1 DEF RequestKept
  <2>3. d.request[r].reply = 0
    BY <2>1, <2>2 DEF RequestKept
  <2>4. m.request[r].message # 0 =>
           /\ m.request[r].message \in Indexes(m)
           /\ m.activations[m.request[r].message].marks.request = r
    BY <1>1, <1>2, <2>1, MessageThinned
  <2>5. RequestKept(m, r)
    BY <1>2, <2>1, <2>2, <2>3, <2>4 DEF RequestKept
  <2> QED BY <1>2, <2>2, <2>5 DEF RequestWritten
<1>12. Others(d, m, O, R)
  BY <1>2, LedgerConstants DEF Others
<1>13. ASSUME NEW i \in Indexes(d), m.activations[i].status \in Live PROVE Apart(d, m, i, O, R)
  <2> DEFINE x == d.activations[i]
  <2>1. x.marks.obligation # o
    BY <1>2, <1>13
  <2>2. \A n \in d.incidents : n.nudge = i => n \in m.incidents
    BY <1>2, <2>1
  <2>3. ASSUME x.marks.obligation = None, x.marks.request \in R PROVE FALSE
    <3>1. /\ ~d.request[x.marks.request].answered /\ DebtOf[x.marks.request] = o
          /\ x.marks.request # None
      BY <1>11, <2>3, LedgerConstants
    <3>2. x.reason \in {"work_recovery", "request_reply", "request_message"}
      BY <1>1, <2>3, <3>1 DEF Addressed
    <3> QED BY <1>1, <1>6, <2>3, <3>1, <3>2 DEF Addressed
  <2> QED BY <2>1, <2>2, <2>3 DEF Apart
<1>14. \A n \in m.incidents : n.nudge \in Indexes(d)
  BY <1>1, <1>2
<1>15. O \in SUBSET Obligation /\ R \in SUBSET Request
  OBVIOUS
<1>16. \A p \in O : DebtWritten(d, m, p) /\ Settled(m, p)
  BY <1>9, <1>10
<1>17. \A r \in R : DebtOf[r] = o
  OBVIOUS
<1> HIDE DEF O, R
<1>18. GoodBut(m, {}) /\ \A r \in Request \ R : Alike(d, m, r)
  BY <1>2, <1>11, <1>12, <1>13, <1>14, <1>15, <1>16, DebtWriteGood
<1>19. ASSUME NEW r \in R PROVE PhaseOf(m, r) = PhaseOf(d, r) /\ HeldOf(d, r)
  BY <1>2, <1>6, <1>17 DEF PhaseOf, HeldOf
<1>20. Loses(d, m)
  BY <1>18, <1>19 DEF Loses, Alike
<1>21. \A i \in Indexes(m) : m.activations[i].marks.obligation = o => d.activations[i].marks.obligation = o
  BY <1>2, <1>4 DEF Thinned
<1> QED BY <1>4, <1>7, <1>18, <1>20, <1>21

\* The next generation of an assignment, nobody holding it.
LEMMA BumpWrite ==
  ASSUME NEW d \in Ledgers, NEW o \in Obligation
  PROVE  LET e == [d EXCEPT !.obligation[o].generation = @ + 1, !.obligation[o].claim = 0]
         IN /\ e \in Ledgers /\ OnlyDebt(d, e, o) /\ e.obligation[o].claim = 0
            /\ e.obligation[o].status = d.obligation[o].status
            /\ e.obligation[o].generation = d.obligation[o].generation + 1
<1> DEFINE n == d.obligation[o].generation + 1
           p == [d.obligation[o] EXCEPT !.generation = n]
           q == [p EXCEPT !.claim = 0]
           h == [d.obligation EXCEPT ![o] = p]
           k == [d EXCEPT !.obligation = h]
           f == [d EXCEPT !.obligation = [d.obligation EXCEPT ![o] = q]]
           e == [d EXCEPT !.obligation[o].generation = @ + 1, !.obligation[o].claim = 0]
<1>1. d.obligation \in [Obligation -> DebtRow]
  BY LedgerFields
<1>2. n \in Nat
  BY <1>1 DEF DebtRow
<1> HIDE DEF n
<1>3. p \in DebtRow /\ p.generation = n /\ p.status = d.obligation[o].status
  BY <1>1, <1>2 DEF DebtRow
<1>4. k = [d EXCEPT !.obligation[o].generation = @ + 1]
  BY DEF n
<1>5. e = [k EXCEPT !.obligation[o].claim = 0]
  BY <1>4
<1>6. k.obligation = h
  BY DEF Ledgers
<1>7. h[o] = p
  BY <1>1
<1>8. e = [k EXCEPT !.obligation = [h EXCEPT ![o] = q]]
  <2> HIDE DEF h, k, p, e
  <2> QED BY <1>5, <1>6, <1>7
<1> HIDE DEF p
<1>9. q \in DebtRow /\ q.generation = n /\ q.status = d.obligation[o].status /\ q.claim = 0
  BY <1>3 DEF DebtRow
<1> HIDE DEF q
<1>10. [h EXCEPT ![o] = q] = [d.obligation EXCEPT ![o] = q]
  BY <1>1
<1> HIDE DEF h
<1>11. e = f
  <2> HIDE DEF e
  <2>1. [k EXCEPT !.obligation = [h EXCEPT ![o] = q]] = [d EXCEPT !.obligation = [h EXCEPT ![o] = q]]
    OBVIOUS
  <2> HIDE DEF k
  <2> QED BY <1>8, <1>10, <2>1
<1>12. f \in Ledgers /\ OnlyDebt(d, f, o) /\ f.obligation[o] = q
  BY <1>9, DebtWrite
<1> HIDE DEF f, e
<1> QED BY <1>9, <1>11, <1>12 DEF e, n

\* assignment_checkpoint: the assignee says how it goes on.
LEMMA AssignmentCheckpointStep ==
  ASSUME GoodBut(ledger, {}), NEW o \in Obligation, NEW mode \in {"paused", "continue", "waiting"},
         NEW any \in BOOLEAN, NEW sources \in SUBSET Sources, NEW handled, NEW reprocess,
         AssignmentCheckpoint(o, mode, any, sources, handled, reprocess)
  PROVE  /\ GoodBut(ledger', {}) /\ Loses(ledger, ledger') /\ Onward(ledger, ledger')
         /\ Within(ledger, ledger') /\ Remembers(ledger, ledger')
<1> DEFINE d == ledger
           kept == IF mode = "waiting" THEN sources ELSE d.assignment[o].sources
           ack == (d.handledBy[o] \cup handled) \ reprocess
           next == [d EXCEPT !.obligation[o].generation = @ + 1, !.obligation[o].claim = 0]
           a == IF mode = "paused" THEN d ELSE next
           rows == Rows(a, LAMBDA x : x.marks.obligation = o)
           b == Revoke(a, rows)
           row == [mode |-> mode, any |-> any, sources |-> sources,
                   handled |-> {c \in ack : Source(c) \in kept}]
           s == [b EXCEPT !.handledBy[o] = ack, !.assignment[o] = row]
           gone == Rows(s, LAMBDA x : x.reason = "assignment_recovery" /\ x.marks.obligation = o)
           m == CloseIncidents(s, gone)
           stopped == ExplicitStop(m, WorkOf[o], Assignee[o])
           read == ReconcileSources(m, sources)
           notice == Create(m, WorkOf[o], Assignee[o], "assignment_continue",
                            m.obligation[o].generation, [NoMarks EXCEPT !.obligation = o])
           woken == EvaluateAssignmentWait(read, o)
<1>1. d \in Ledgers /\ \A n \in d.incidents : n.nudge \in Indexes(d)
  BY GoodParts
<1>2. /\ d.obligation[o].status = "open" /\ CurrentClaim(d, o) # 0
      /\ handled \subseteq HandleableInAssignment(d, o, sources)
  BY DEF AssignmentCheckpoint, HoldsClaim
<1>3. ledger' = CASE mode = "continue" /\ ~stopped -> notice
                  [] mode = "waiting" /\ ~stopped -> woken
                  [] OTHER -> read
  BY DEF AssignmentCheckpoint, Commit, RevokeObligation, CloseAssignmentIncidents
<1>4. GoodBut(d, {})
  BY DEF d
<1> HIDE DEF d
<1>5. /\ a \in Ledgers /\ OnlyDebt(d, a, o) /\ a.obligation[o].status = "open"
      /\ \/ mode = "paused" /\ a.obligation[o] = d.obligation[o]
         \/ /\ mode \in {"continue", "waiting"} /\ a.obligation[o].claim = 0
            /\ a.obligation[o].generation = d.obligation[o].generation + 1
  <2>1. CASE mode = "paused"
    <3>1. a = d
      BY <2>1
    <3> HIDE DEF a
    <3> QED BY <1>1, <1>2, <2>1, <3>1 DEF OnlyDebt
  <2>2. CASE mode # "paused"
    <3>1. a = next
      BY <2>2
    <3>2. /\ next \in Ledgers /\ OnlyDebt(d, next, o) /\ next.obligation[o].claim = 0
          /\ next.obligation[o].status = d.obligation[o].status
          /\ next.obligation[o].generation = d.obligation[o].generation + 1
      BY <1>1, BumpWrite
    <3> HIDE DEF a, next
    <3> QED BY <1>2, <2>2, <3>1, <3>2
  <2> QED BY <2>1, <2>2
<1> HIDE DEF next, a
<1>6. \A i \in Indexes(d) : i \in rows <=> d.activations[i].marks.obligation = o
  BY <1>5 DEF Rows, OnlyDebt, Indexes
<1> HIDE DEF rows
<1>7. /\ b \in Ledgers /\ Rest(a, b) /\ b.incidents = a.incidents
      /\ Thinned(a, b) /\ Onward(a, b) /\ RevokedRows(a, b, rows)
  BY <1>5, RevokeEffect
<1> HIDE DEF b
<1>8. ack \in SUBSET Outcome
  <2>1. d.handledBy \in [Obligation -> SUBSET Outcome]
    BY <1>1 DEF Ledgers
  <2>2. handled \subseteq Outcome
    BY <1>1, <1>2, LedgerFields DEF HandleableInAssignment
  <2> QED BY <2>1, <2>2
<1> HIDE DEF ack, kept
<1>9. row \in AssignmentRow /\ row.mode = mode
  BY <1>8 DEF AssignmentRow
<1> HIDE DEF row
<1>10. /\ s \in Ledgers /\ s.assignment[o] = row
       /\ s.generation = b.generation /\ s.work = b.work /\ s.wait = b.wait
       /\ s.handled = b.handled /\ s.replays = b.replays /\ s.armed = b.armed
       /\ s.obligation = b.obligation /\ s.request = b.request /\ s.results = b.results
       /\ s.activations = b.activations /\ s.incidents = b.incidents
       /\ s.stopped = b.stopped
       /\ \A p \in Obligation \ {o} : s.assignment[p] = b.assignment[p]
  <2>1. AssignmentWritten(b, s, o, ack, row)
    BY DEF AssignmentWritten
  <2> HIDE DEF s
  <2> QED BY <1>7, <1>8, <1>9, <2>1, AssignmentWrite
<1> HIDE DEF s
<1>11. gone \subseteq rows /\ gone \subseteq Indexes(d)
  <2>1. Indexes(s) = Indexes(d) /\ \A i \in Indexes(d) : s.activations[i].marks = d.activations[i].marks
    BY <1>5, <1>7, <1>10 DEF Thinned, OnlyDebt, Indexes
  <2> QED BY <1>6, <2>1 DEF Rows
<1> HIDE DEF gone
<1>12. /\ m \in Ledgers /\ Rest(s, m) /\ m.activations = s.activations
       /\ m.incidents = {n \in s.incidents : n.nudge \notin gone}
  BY <1>10, CloseEffect
<1> HIDE DEF m
<1>13. Checkpointed(d, m, o, mode)
  <2>1. a.activations = d.activations /\ m.activations = b.activations /\ Indexes(a) = Indexes(d)
    BY <1>5, <1>10, <1>12 DEF OnlyDebt, Indexes
  <2>2. Thinned(d, m) /\ Onward(d, m)
    <3>1. Thinned(d, b) /\ Onward(d, b)
      BY <1>7, <2>1, ThinnedSame
    <3> QED BY <2>1, <3>1 DEF Thinned, Onward, Indexes
  <2>3. /\ m.generation = d.generation /\ m.work = d.work /\ m.wait = d.wait /\ m.handled = d.handled
        /\ m.replays = d.replays /\ m.armed = d.armed /\ m.request = d.request
        /\ m.results = d.results /\ m.obligation = a.obligation
        /\ m.incidents = {n \in d.incidents : n.nudge \notin gone}
        /\ m.assignment[o] = row
        /\ \A p \in Obligation \ {o} : m.assignment[p] = d.assignment[p]
    BY <1>5, <1>7, <1>10, <1>12 DEF Rest, Frame, OnlyDebt
  <2>4. \A p \in Obligation \ {o} : SameNotices(d, m, p)
    BY <1>5, <2>3 DEF SameNotices, OnlyDebt
  <2>5. \A i \in Indexes(d) : d.activations[i].marks.obligation = o => m.activations[i].status \notin Live
    BY <1>6, <1>7, <2>1 DEF RevokedRows, Live
  <2>6. \A n \in d.incidents : n \in m.incidents \/ d.activations[n.nudge].marks.obligation = o
    BY <1>6, <1>11, <2>3
  <2>7. Outcomes(m) = Outcomes(d)
    BY <2>3 DEF Outcomes
  <2>8. m.stopped = d.stopped
    BY <1>5, <1>7, <1>10, <1>12 DEF Rest, Frame, OnlyDebt
  <2>9. \A i \in Indexes(d) : d.activations[i].status \in Live /\ m.activations[i].status \notin Live
          => d.activations[i].marks.obligation = o
    BY <1>6, <1>7, <2>1 DEF RevokedRows
  <2> QED BY <1>5, <1>9, <2>2, <2>3, <2>4, <2>5, <2>6, <2>7, <2>8, <2>9 DEF Checkpointed
<1>14. /\ GoodBut(m, {}) /\ Loses(d, m)
       /\ mode # "paused" =>
            \A i \in Indexes(m) : m.activations[i].marks.obligation = o => ~Current(m, i, o)
  BY <1>2, <1>4, <1>12, <1>13, CheckpointedGood
<1>15. Onward(d, m) /\ m.obligation[o].status = "open" /\ m.assignment[o].mode = mode
  BY <1>13 DEF Checkpointed
<1>16. Keeps(m, read, {})
  BY <1>14, ReconcileSourcesKeeps
<1>17. Keeps(m, woken, {})
  <2> HIDE DEF read, woken
  <2>1. GoodBut(read, {})
    BY <1>16 DEF Keeps
  <2>2. Keeps(read, woken, {})
    BY <2>1, EvaluateAssignmentWaitKeeps DEF woken
  <2> QED BY <1>14, <1>16, <2>2, KeepsTransitive
<1>18. ASSUME mode = "continue" PROVE Keeps(m, notice, {})
  <2> DEFINE marks == [NoMarks EXCEPT !.obligation = o]
             reason == "assignment_continue"
  <2>1. marks \in Marks /\ marks.obligation = o /\ marks.request = None
    BY ObligationMarks
  <2>2. reason \in AssignmentReasons \ {"request_message"} /\ reason \in Single
    BY DEF AssignmentReasons, Single
  <2>3. \A j \in Indexes(m) : ~Current(m, j, o)
    BY <1>14, <1>18 DEF Current
  <2> HIDE DEF marks
  <2>4. Keeps(m, Create(m, WorkOf[o], Assignee[o], reason, m.obligation[o].generation, marks), {})
    BY <1>14, <1>15, <1>18, <2>1, <2>2, <2>3, NoticeKeeps
  <2> QED BY <2>4 DEF marks
<1>23. ASSUME mode = "continue" PROVE Noticed(notice, o)
  <2> DEFINE marks == [NoMarks EXCEPT !.obligation = o]
             reason == "assignment_continue"
  <2>1. marks \in Marks /\ marks.obligation = o
    BY ObligationMarks
  <2>2. reason \in AssignmentReasons
    BY DEF AssignmentReasons
  <2>3. m.obligation[o].generation \in Nat
    BY <1>12, LedgerFields DEF DebtRow
  <2> HIDE DEF marks
  <2>4. Noticed(Create(m, WorkOf[o], Assignee[o], reason, m.obligation[o].generation, marks), o)
    BY <1>12, <2>1, <2>2, <2>3, NoticeCreated
  <2> QED BY <2>4 DEF marks
<1>24. mode = "continue" => ledger' = notice \/ ExplicitStop(m, WorkOf[o], Assignee[o])
  BY <1>3
<1> HIDE DEF read, woken, notice, stopped
<1>19. (ledger' = notice /\ mode = "continue") \/ ledger' = woken \/ ledger' = read
  BY <1>3
<1>20. Keeps(m, ledger', {})
  BY <1>16, <1>17, <1>18, <1>19
<1>21. Within(d, m)
  BY <1>13, WithinSame DEF Checkpointed
<1>22. Within(d, ledger')
  BY <1>20, <1>21, WithinKeeps
<1>25. Routes(d, m, {o}, {})
  <2>1. /\ Thinned(d, m) /\ m.stopped = d.stopped /\ m.generation = d.generation /\ m.work = d.work
        /\ \A p \in Obligation \ {o} : SameNotices(d, m, p)
        /\ \A i \in Indexes(d) : d.activations[i].status \in Live /\ m.activations[i].status \notin Live
             => d.activations[i].marks.obligation = o
    BY <1>13 DEF Checkpointed
  <2>2. \A i \in Indexes(d) : Addressed(d, d.activations[i])
    BY <1>4, GoodParts
  <2> QED BY <1>1, <1>12, <2>1, <2>2, DebtRoutes
<1>26. DebtRouted(ledger', o) /\ InStep(ledger', o)
  <2>1. /\ ledger'.obligation = m.obligation /\ ledger'.assignment = m.assignment
        /\ ledger'.stopped = m.stopped
    BY <1>20 DEF Keeps, Extends, Frame
  <2>2. InStep(ledger', o)
    BY <1>15, <2>1 DEF InStep
  <2>3. CASE mode = "paused"
    <3>1. d.obligation[o].claim # 0
      BY <1>2 DEF CurrentClaim
    <3>2. m.obligation[o] = d.obligation[o]
      BY <1>13, <2>3 DEF Checkpointed
    <3> QED BY <2>1, <2>2, <3>1, <3>2 DEF DebtRouted
  <2>4. CASE mode = "waiting"
    BY <1>15, <2>1, <2>2, <2>4 DEF DebtRouted, Owed
  <2>5. CASE mode = "continue"
    <3>1. CASE ExplicitStop(m, WorkOf[o], Assignee[o])
      BY <2>1, <2>2, <3>1 DEF DebtRouted, Owed, ExplicitStop
    <3>2. CASE ~ExplicitStop(m, WorkOf[o], Assignee[o])
      <4>1. Noticed(ledger', o)
        BY <1>23, <1>24, <2>5, <3>2
      <4> QED BY <2>2, <4>1 DEF DebtRouted
    <3> QED BY <3>1, <3>2
  <2> QED BY <2>3, <2>4, <2>5
<1>27. Remembers(d, ledger')
  <2>1. Routes(m, ledger', {o}, {})
    BY <1>12, <1>20, KeepsRoutes
  <2>2. Routes(d, ledger', {o}, {})
    BY <1>25, <2>1, RoutesThen
  <2> QED BY <1>26, <2>2, RoutesDone DEF Remembers
<1> QED BY <1>14, <1>15, <1>20, <1>22, <1>27, LosesKeeps DEF d

\* The reminders of a request.
LEMMA RequestRemindersKeep ==
  ASSUME NEW d, NEW P, GoodBut(d, P), NEW r \in Request, NEW n \in Nat, DebtOf[r] # None,
         d.obligation[DebtOf[r]].status = "open", d.obligation[DebtOf[r]].generation = 1,
         d.assignment[DebtOf[r]].mode = "none"
  PROVE  Keeps(d, Repeat(n, d, LAMBDA e : Create(e, WorkOf[r], Assignee[r], "obligation_reminder", 1,
                                           [NoMarks EXCEPT !.request = r, !.obligation = DebtOf[r]])), P)
<1> DEFINE H(e, k) == Create(e, WorkOf[r], Assignee[r], "obligation_reminder", 1,
                                           [NoMarks EXCEPT !.request = r, !.obligation = DebtOf[r]])
           S == 1..n
           L == Kept(d, P)
           F == [p \in S \X L |-> H(p[2], p[1])]
           step(h) == [s \in SUBSET S |-> IF s = {} THEN d ELSE H(h[s \ {Pick(s)}], Pick(s))]
           iter == CHOOSE h : h = step(h)
<1>1. IsFiniteSet(S)
  BY FS_Interval
<1>2. d \in L
  BY KeptSelf
<1>3. ASSUME NEW k \in S, NEW e \in L PROVE H(e, k) \in L
  <2>1. Keeps(e, H(e, k), P)
    <3> DEFINE o == DebtOf[r]
               marks == [NoMarks EXCEPT !.request = r, !.obligation = o]
               reason == "obligation_reminder"
    <3>1. GoodBut(e, P) /\ Frame(d, e)
      BY KeptGood
    <3>2. o \in Obligation /\ WorkOf[o] = WorkOf[r] /\ Assignee[o] = Assignee[r] /\ RequestOf(o) = r
          /\ r # None
      BY LedgerConstants DEF RequestOf
    <3>3. marks \in Marks /\ marks.obligation = o /\ marks.request = r
      BY <3>2, ObligationMarks
    <3>4. reason \in AssignmentReasons \ {"request_message"} /\ reason \notin Single
      BY DEF AssignmentReasons, Single
    <3>5. /\ e.obligation[o].status = "open" /\ e.obligation[o].generation = 1
          /\ e.assignment[o].mode = "none"
      BY <3>1 DEF Frame
    <3> HIDE DEF o, marks
    <3>6. Keeps(e, Create(e, WorkOf[o], Assignee[o], reason, e.obligation[o].generation, marks), P)
      BY <3>1, <3>2, <3>3, <3>4, <3>5, NoticeKeeps
    <3> QED BY <3>2, <3>5, <3>6 DEF o, marks
  <2> HIDE DEF H
  <2> QED BY <2>1, KeptStep
<1>4. StepsIn(S, L, F)
  BY <1>3 DEF StepsIn
<1> HIDE DEF H, L, S
<1>5. PICK g : (\A s \in SUBSET S : g[s] \in L) /\ FoldOf(g, S, F, d)
  <2> HIDE DEF F
  <2> QED BY <1>1, <1>2, <1>4, FoldIn DEF FoldsIn
<1>6. g = step(g)
  BY <1>5, PickIn DEF FoldOf
<1>7. iter = step(iter)
  <2> HIDE DEF step
  <2> QED BY <1>6
<1> HIDE DEF iter
<1>8. iter[S] \in L
  <2>1. iter[{}] \in L /\ \A s \in SUBSET S : s # {} => iter[s] = H(iter[s \ {Pick(s)}], Pick(s))
    BY <1>2, <1>7
  <2> HIDE DEF step
  <2>2. ASSUME NEW s \in SUBSET S, s # {}, iter[s \ {Pick(s)}] \in L
        PROVE  iter[s] \in L
    <3>1. Pick(s) \in S
      BY <2>2, PickIn
    <3>2. H(iter[s \ {Pick(s)}], Pick(s)) \in L
      BY <1>3, <2>2, <3>1
    <3> QED BY <2>1, <2>2, <3>2
  <2> QED BY <1>1, <2>1, <2>2, FoldStays
<1>9. Repeat(n, d, LAMBDA e : Create(e, WorkOf[r], Assignee[r], "obligation_reminder", 1,
                                           [NoMarks EXCEPT !.request = r, !.obligation = DebtOf[r]])) = iter[S]
  BY DEF Repeat, FoldSet, MapThenFoldSet, Pick, iter, S, H
<1> QED BY <1>8, <1>9, KeptGood DEF L


\* request_send: the message, and the reminders of a request that calls for a reply.
LEMMA RequestSendStep ==
  ASSUME GoodBut(ledger, {}), NEW r \in Request, RequestSend(r)
  PROVE  /\ GoodBut(ledger', {}) /\ Onward(ledger, ledger') /\ Within(ledger, ledger')
         /\ Moves(ledger, ledger', r, "unsent", "owed", FALSE, FALSE)
         /\ Remembers(ledger, ledger')
<1> DEFINE d == ledger
           o == DebtOf[r]
           a == IF o = None THEN d ELSE NewObligation(d, o)
           status == "delivery_pending"
           m == [a EXCEPT !.request[r].status = status]
           f == SendMessage(m, r)
           g == Repeat(Reminders[o], f,
                       LAMBDA e : Create(e, WorkOf[r], Assignee[r], "obligation_reminder", 1,
                                         [NoMarks EXCEPT !.request = r, !.obligation = DebtOf[r]]))
           O == {p \in Obligation : p = o}
           R == {r}
<1>1. /\ d \in Ledgers
      /\ \A p \in Obligation : DebtKept(d, p)
      /\ \A q \in Request : RequestKept(d, q)
      /\ \A i \in Indexes(d) : Addressed(d, d.activations[i])
      /\ \A n \in d.incidents : n.nudge \in Indexes(d)
  BY GoodParts
<1>2. d.request[r].status = "none" /\ d.work[WorkOf[r]].mode # "none"
  BY DEF RequestSend, Mutable
<1>3. ledger' = IF ExplicitStop(d, WorkOf[r], Assignee[r]) THEN m ELSE IF o = None THEN f ELSE g
  BY DEF RequestSend, Commit
<1>4. GoodBut(d, {})
  BY DEF d
<1> HIDE DEF d
<1>5. /\ o \in Obligation \cup {None} /\ r # None
      /\ o # None => WorkOf[o] = WorkOf[r] /\ \A q \in Request \ {r} : DebtOf[q] # o
  BY LedgerConstants
<1>6. RequestKept(d, r) /\ ~d.request[r].answered /\ d.request[r].reply = 0
  BY <1>1, <1>2 DEF RequestKept
<1>7. o # None => d.obligation[o].status = "none" /\ <<o, "result">> \notin Outcomes(d)
  BY <1>2, <1>6 DEF RequestKept
<1> HIDE DEF o
<1>8. /\ a \in Ledgers
      /\ a.generation = d.generation /\ a.work = d.work /\ a.wait = d.wait /\ a.handled = d.handled
      /\ a.replays = d.replays /\ a.armed = d.armed
      /\ a.assignment = d.assignment /\ a.request = d.request /\ a.results = d.results
      /\ a.activations = d.activations /\ a.incidents = d.incidents /\ a.stopped = d.stopped
      /\ \A p \in Obligation \ O : a.obligation[p] = d.obligation[p]
      /\ o # None => /\ a.obligation[o].status = "open" /\ a.obligation[o].generation = 1
                     /\ a.obligation[o].claim = 0 /\ a.assignment[o].mode = "none" /\ NoRows(d, o)
                     /\ DebtKept(a, o)
  <2>1. CASE o = None
    <3>1. a = d
      BY <2>1
    <3> HIDE DEF a
    <3> QED BY <1>1, <2>1, <3>1
  <2>2. CASE o # None
    <3> DEFINE b == NewObligation(d, o)
    <3>1. a = b /\ o \in Obligation
      BY <1>5, <2>2
    <3>2. d.obligation[o].status = "none" /\ DebtKept(d, o) /\ d.work[WorkOf[o]].mode # "none"
      BY <1>1, <1>2, <1>5, <1>7, <2>2, <3>1
    <3>3. /\ b \in Ledgers /\ OnlyDebt(d, b, o) /\ b.obligation[o].status = "open"
          /\ b.obligation[o].generation = 1 /\ b.obligation[o].claim = 0
          /\ b.assignment[o].mode = "none" /\ NoRows(d, o)
          /\ DebtWritten(d, b, o) /\ Settled(b, o)
      BY <1>1, <3>1, <3>2, NewObligationEffect
    <3> HIDE DEF a, b
    <3>4. DebtKept(b, o)
      BY <3>3 DEF DebtWritten
    <3> QED BY <3>1, <3>3, <3>4 DEF OnlyDebt
  <2> QED BY <2>1, <2>2
<1> HIDE DEF a
<1>9. /\ m \in Ledgers /\ Frame(a, m) /\ m.activations = a.activations
      /\ m.results = a.results /\ m.incidents = a.incidents
      /\ m.request[r].status = "delivery_pending"
      /\ m.request[r].reply = a.request[r].reply
      /\ m.request[r].message = a.request[r].message
      /\ m.request[r].answered = a.request[r].answered
      /\ \A p \in Request \ {r} : m.request[p] = a.request[p]
  <2>1. status \in {"none", "delivery_pending", "claimed", "reply_ready", "handled", "closed_no_reply"}
    OBVIOUS
  <2>2. m = [a EXCEPT !.request[r].status = status]
    OBVIOUS
  <2> HIDE DEF status, m
  <2>3. /\ m \in Ledgers /\ Frame(a, m) /\ m.activations = a.activations
        /\ m.results = a.results /\ m.incidents = a.incidents
        /\ m.request[r].status = status
        /\ m.request[r].reply = a.request[r].reply
        /\ m.request[r].message = a.request[r].message
        /\ m.request[r].answered = a.request[r].answered
        /\ \A p \in Request \ {r} : m.request[p] = a.request[p]
    BY <1>8, <2>1, <2>2, StatusWrite
  <2> QED BY <2>3 DEF status
<1> HIDE DEF m
<1>10. /\ m.generation = d.generation /\ m.work = d.work /\ m.wait = d.wait /\ m.handled = d.handled
       /\ m.replays = d.replays /\ m.armed = d.armed /\ m.assignment = d.assignment
       /\ m.obligation = a.obligation /\ m.activations = d.activations /\ m.stopped = d.stopped
       /\ m.incidents = d.incidents /\ Outcomes(m) = Outcomes(d) /\ Indexes(m) = Indexes(d)
  BY <1>8, <1>9 DEF Frame, Outcomes, Indexes
<1>11. Thinned(d, m) /\ Onward(d, m)
  BY <1>10, ThinnedSame
<1>12. Others(d, m, O, R)
  <2>1. \A p \in Obligation \ O : SameNotices(d, m, p)
    BY <1>8, <1>10 DEF SameNotices
  <2>2. ASSUME NEW q \in Request \ R
        PROVE  m.request[q] = d.request[q] /\ (DebtOf[q] # None => DebtOf[q] \notin O)
    BY <1>5, <1>8, <1>9
  <2> QED BY <1>10, <2>1, <2>2 DEF Others
<1>13. ASSUME NEW p \in O PROVE DebtWritten(d, m, p) /\ Settled(m, p)
  <2>1. p = o /\ o # None /\ p \in Obligation
    BY <1>13, LedgerConstants
  <2>2. DebtKept(m, p)
    BY <1>8, <1>10, <2>1 DEF DebtKept
  <2>3. NoRows(d, p)
    BY <1>8, <2>1
  <2>4. Settled(m, p)
    BY <1>10, <2>3 DEF Settled, NoRows, Current
  <2> QED BY <1>7, <2>1, <2>2, <2>3, <2>4 DEF DebtWritten, NoRows
<1>14. RequestWritten(d, m, r)
  <2>1. m.request[r].message # 0 =>
           /\ m.request[r].message \in Indexes(m)
           /\ m.activations[m.request[r].message].marks.request = r
    BY <1>1, <1>6, <1>8, <1>9, <1>11, MessageThinned
  <2>2. RequestKept(m, r)
    BY <1>2, <1>6, <1>7, <1>8, <1>9, <1>10, <2>1 DEF RequestKept, o
  <2> QED BY <1>2, <1>6, <1>9, <2>2 DEF RequestWritten
<1>15. \A i \in Indexes(d) : d.activations[i].marks.request # r
  BY <1>1, <1>2, <1>5 DEF Addressed
<1>16. ASSUME NEW i \in Indexes(d) PROVE Apart(d, m, i, O, R)
  <2>1. d.activations[i].marks.obligation \notin O
    BY <1>8, LedgerConstants DEF NoRows
  <2> QED BY <1>10, <1>15, <2>1 DEF Apart
<1>17. \A n \in m.incidents : n.nudge \in Indexes(d)
  BY <1>1, <1>10
<1>18. O \in SUBSET Obligation /\ R \in SUBSET Request /\ R = {r}
  OBVIOUS
<1>19. \A q \in R : RequestWritten(d, m, q)
  BY <1>14
<1> HIDE DEF O, R
<1>20. GoodBut(m, {}) /\ \A q \in Request \ R : Alike(d, m, q)
  BY <1>4, <1>9, <1>11, <1>12, <1>13, <1>16, <1>17, <1>18, <1>19, DebtWriteGood
<1>21. Moves(d, m, r, "unsent", "owed", FALSE, FALSE)
  <2>1. PhaseOf(d, r) = "unsent" /\ PhaseOf(m, r) = "owed"
    BY <1>2, <1>9, Phases
  <2>2. ~HeldOf(d, r)
    BY <1>2, <1>7 DEF HeldOf, o
  <2>3. ~HeldOf(m, r)
    BY <1>8, <1>9, <1>10 DEF HeldOf, CurrentClaim, o
  <2> QED BY <1>18, <1>20, <2>1, <2>2, <2>3 DEF Moves
<1>22. Keeps(m, f, {})
  <2>1. NoLiveMessage(m, r)
    BY <1>10, <1>15 DEF NoLiveMessage
  <2>2. m.request[r].status \in {"delivery_pending", "claimed"}
    BY <1>9
  <2>3. DebtOf[r] # None => m.assignment[DebtOf[r]].mode = "none"
    BY <1>8, <1>10 DEF o
  <2> QED BY <1>20, <2>1, <2>2, <2>3, SendMessageAnew DEF Keeps
<1>23. ASSUME o # None PROVE Keeps(m, g, {})
  <2> HIDE DEF f
  <2>1. GoodBut(f, {}) /\ Frame(m, f)
    BY <1>22 DEF Keeps, Extends
  <2>2. /\ f.obligation[o].status = "open" /\ f.obligation[o].generation = 1
        /\ f.assignment[o].mode = "none" /\ Reminders[o] \in Nat
    BY <1>5, <1>8, <1>10, <1>23, <2>1, LedgerConstants DEF Frame
  <2>3. Keeps(f, g, {})
    BY <1>23, <2>1, <2>2, RequestRemindersKeep DEF o
  <2> HIDE DEF g
  <2> QED BY <1>20, <1>22, <2>3, KeepsTransitive
<1>24. Keeps(m, m, {})
  BY <1>20, KeepsReflexive
<1> HIDE DEF f, g
<1>25. Keeps(m, ledger', {})
  BY <1>3, <1>22, <1>23, <1>24
<1>26. Quiet(m, ledger') /\ Onward(m, ledger') /\ GoodBut(ledger', {})
  BY <1>20, <1>25, QuietKeeps DEF Keeps
<1>27. Onward(d, ledger')
  BY <1>11, <1>26, OnwardTransitive
<1>28. Moves(d, ledger', r, "unsent", "owed", FALSE, FALSE)
  BY <1>21, <1>26, MovesQuietly
<1>29. Within(d, m)
  BY <1>10, WithinSame
<1>30. Within(d, ledger')
  BY <1>25, <1>29, WithinKeeps
<1>31. Routes(d, m, O, {})
  <2>1. \A p \in Obligation \ O : SameNotices(d, m, p)
    BY <1>12 DEF Others
  <2> QED BY <1>1, <1>9, <1>10, <1>11, <1>18, <2>1, DebtRoutes
<1>32. ASSUME NEW p \in Obligation, p \in O PROVE DebtRouted(ledger', p) /\ InStep(ledger', p)
  <2>1. p = o /\ o # None
    BY <1>32, LedgerConstants DEF O
  <2>2. /\ ledger' \in Ledgers /\ Added(m, ledger') /\ ledger'.assignment = m.assignment
    BY <1>25 DEF Keeps, GoodBut, Good, Extends, Frame
  <2>3. \A i \in Indexes(m) : m.activations[i].marks.obligation # p
    BY <1>8, <1>10, <2>1 DEF NoRows
  <2>4. InStep(ledger', p)
    BY <1>9, <2>2, <2>3, NewInStep
  <2>5. ledger'.assignment[p].mode = "none"
    BY <1>8, <1>10, <2>1, <2>2
  <2>6. RequestOf(p) # None
    BY <2>1, LedgerConstants DEF RequestOf, o
  <2> QED BY <2>4, <2>5, <2>6 DEF DebtRouted, Owed
<1>33. Remembers(d, ledger')
  <2>1. Routes(m, ledger', O, {})
    BY <1>9, <1>25, KeepsRoutes
  <2>2. Routes(d, ledger', O, {})
    BY <1>31, <2>1, RoutesThen
  <2> QED BY <1>32, <2>2, RoutesDone DEF Remembers
<1> QED BY <1>26, <1>27, <1>28, <1>30, <1>33 DEF d

\* While the claim of a request's debt is held, what is live about the debt is marked with the request.
LEMMA ClaimedRequestRows ==
  ASSUME NEW d, NEW P, GoodBut(d, P), NEW o \in Obligation, RequestOf(o) # None,
         d.obligation[o].status = "open", CurrentClaim(d, o) # 0,
         NEW i \in Indexes(d), d.activations[i].status \in Live,
         d.activations[i].marks.obligation = o
  PROVE  d.activations[i].marks.request = RequestOf(o)
<1> DEFINE x == d.activations[i]
           k == d.obligation[o].claim
           mode == d.assignment[o].mode
<1>1. /\ d \in Ledgers /\ DebtKept(d, o)
      /\ \A j \in Indexes(d) : Addressed(d, d.activations[j]) /\ NoticeKept(d, j) /\ LiveKept(d, j)
  BY GoodParts
<1>2. /\ k # 0 /\ k \in Indexes(d) /\ d.activations[k].status = "claimed"
      /\ Current(d, k, o) /\ d.activations[k].reason \in AssignmentReasons
  BY <1>1, ClaimHeld
<1>3. o # None
  BY LedgerConstants
<1>4. x.marks.request \in {None, RequestOf(o)}
  BY <1>1, <1>3 DEF Addressed
<1> SUFFICES ASSUME x.marks.request = None PROVE FALSE
  BY <1>4
<1>5. x.reason \in {"assignment_continue", "assignment_wait_satisfied"}
  BY <1>1, <1>3 DEF Addressed
<1>6. x.generation = d.obligation[o].generation
  BY <1>1, <1>3 DEF LiveKept
<1>7. Current(d, i, o) /\ x.status \in Active
  BY <1>5, <1>6 DEF Current, Active
<1>8. mode \in {"none", "paused", "continue", "waiting"}
  BY <1>1, LedgerFields DEF AssignmentRow
<1>9. i # k
  BY <1>2 DEF Live
<1>10. d.activations[k].status \in Active /\ d.activations[k].marks.obligation = o
  BY <1>2 DEF Active, Current
<1>11. NoticeKept(d, i) /\ NoticeKept(d, k)
  BY <1>1, <1>2
<1>12. CASE mode = "continue"
  <2>1. x.reason = "assignment_continue" /\ d.activations[k].reason = "assignment_continue"
    BY <1>2, <1>3, <1>7, <1>10, <1>11, <1>12 DEF NoticeKept
  <2> QED BY <1>2, <1>3, <1>7, <1>9, <1>10, <1>11, <2>1 DEF NoticeKept
<1>13. CASE mode = "waiting"
  <2>1. x.reason = "assignment_wait_satisfied" /\ d.activations[k].reason = "assignment_wait_satisfied"
    BY <1>2, <1>3, <1>7, <1>10, <1>11, <1>13 DEF NoticeKept
  <2> QED BY <1>2, <1>3, <1>7, <1>9, <1>10, <1>11, <2>1 DEF NoticeKept
<1>14. CASE mode = "none"
  BY <1>3, <1>5, <1>7, <1>11, <1>14 DEF NoticeKept
<1>15. CASE mode = "paused"
  BY <1>3, <1>5, <1>7, <1>11, <1>15 DEF NoticeKept
<1> QED BY <1>8, <1>12, <1>13, <1>14, <1>15

\* The row of a request that has its answer.
ReadyRow(q) == [status |-> "reply_ready", message |-> q.message, reply |-> 0, answered |-> TRUE]

\* The debt of a request is paid, its reply not yet sent.
Paid(d, r) ==
  LET o == DebtOf[r]
      closed == RevokeRequest([d EXCEPT !.obligation[o].status = "resolved"], r, Assignee[r])
      recorded == RecordResult(closed, <<o, "result">>)
      ready == [recorded EXCEPT !.request = [recorded.request EXCEPT ![r] = ReadyRow(recorded.request[r])]]
  IN CloseAssignmentIncidents(ready, o)

LEMMA PaidGood ==
  ASSUME NEW d, GoodBut(d, {}), NEW r \in Request, DebtOf[r] # None, d.request[r].status # "none",
         ~d.request[r].answered, d.obligation[DebtOf[r]].status = "open",
         CurrentClaim(d, DebtOf[r]) # 0
  PROVE  LET m == Paid(d, r)
         IN /\ GoodBut(m, {}) /\ Onward(d, m) /\ m.request[r].status = "reply_ready"
            /\ ~Held0(m, r) /\ Moves(d, m, r, "owed", "answered", TRUE, FALSE) /\ Within(d, m)
            /\ Remembers(d, m)
<1> DEFINE o == DebtOf[r]
           q == [d.obligation[o] EXCEPT !.status = "resolved"]
           a == [d EXCEPT !.obligation = [d.obligation EXCEPT ![o] = q]]
           rows == Rows(a, LAMBDA x : x.marks.request = r /\ x.actor = Assignee[r])
           b == Revoke(a, rows)
           c == RecordResult(b, <<o, "result">>)
           k == ReadyRow(c.request[r])
           g == [c EXCEPT !.request = [c.request EXCEPT ![r] = k]]
           gone == Rows(g, LAMBDA x : x.reason = "assignment_recovery" /\ x.marks.obligation = o)
           m == CloseIncidents(g, gone)
<1>1. /\ d \in Ledgers /\ RequestKept(d, r)
      /\ \A i \in Indexes(d) : Addressed(d, d.activations[i])
      /\ \A n \in d.incidents : n.nudge \in Indexes(d)
  BY GoodParts
<1>2. Paid(d, r) = m
  <2>1. a = [d EXCEPT !.obligation[o].status = "resolved"]
    OBVIOUS
  <2> HIDE DEF a
  <2> QED BY <2>1 DEF Paid, RevokeRequest, CloseAssignmentIncidents
<1>3. /\ o \in Obligation /\ o # None /\ r # None /\ RequestOf(o) = r
      /\ WorkOf[o] = WorkOf[r] /\ Assignee[o] = Assignee[r]
      /\ \A p \in Request \ {r} : DebtOf[p] # o
  <2>1. /\ o \in Obligation /\ o # None /\ r # None
        /\ WorkOf[o] = WorkOf[r] /\ Assignee[o] = Assignee[r]
        /\ \A p \in Request : DebtOf[p] = o => p = r
    BY LedgerConstants
  <2>2. RequestOf(o) = r
    BY <2>1 DEF RequestOf
  <2> QED BY <2>1, <2>2
<1>4. d.obligation[o].status = "open" /\ CurrentClaim(d, o) # 0
  OBVIOUS
<1>5. DebtOf[r] = o
  OBVIOUS
<1> HIDE DEF o
<1>6. d.obligation[o] \in DebtRow /\ DebtKept(d, o)
  BY <1>1, <1>3, LedgerFields, GoodParts
<1>7. /\ q \in DebtRow /\ q.status = "resolved" /\ q.generation = d.obligation[o].generation
      /\ q.claim = d.obligation[o].claim
  BY <1>6 DEF DebtRow
<1> HIDE DEF q
<1>8. a \in Ledgers /\ OnlyDebt(d, a, o) /\ a.obligation[o] = q
  BY <1>1, <1>3, <1>7, DebtWrite
<1> HIDE DEF a
<1>9. \A i \in Indexes(d) : i \in rows
        <=> d.activations[i].marks.request = r /\ d.activations[i].actor = Assignee[r]
  BY <1>8 DEF Rows, OnlyDebt, Indexes
<1> HIDE DEF rows
<1>10. /\ b \in Ledgers /\ Rest(a, b) /\ b.incidents = a.incidents
       /\ Thinned(a, b) /\ Onward(a, b) /\ RevokedRows(a, b, rows)
  BY <1>8, RevokeEffect
<1> HIDE DEF b
<1>11. <<o, "result">> \in Outcome
  BY <1>3 DEF Outcome, Sources
<1>12. /\ c \in Ledgers /\ SameRead(b, c) /\ Frame(b, c) /\ Outcomes(c) = Outcomes(b) \cup {<<o, "result">>}
  BY <1>10, <1>11, RecordEffect
<1> HIDE DEF c
<1>13. /\ k \in RequestRow /\ k.status = "reply_ready" /\ k.reply = 0 /\ k.answered
       /\ k.message = c.request[r].message
  <2>1. c.request[r].message \in Nat
    BY <1>12, LedgerFields DEF RequestRow
  <2> QED BY <2>1 DEF RequestRow, ReadyRow
<1> HIDE DEF k
<1>14. /\ g \in Ledgers /\ Frame(c, g) /\ g.activations = c.activations
       /\ g.results = c.results /\ g.incidents = c.incidents /\ g.request[r] = k
       /\ \A p \in Request \ {r} : g.request[p] = c.request[p]
  BY <1>12, <1>13, RequestWrite
<1> HIDE DEF g
<1>15. a.activations = d.activations /\ g.activations = b.activations /\ Indexes(a) = Indexes(d)
       /\ Indexes(b) = Indexes(d) /\ Indexes(g) = Indexes(d)
  BY <1>8, <1>10, <1>12, <1>14 DEF OnlyDebt, SameRead, Indexes, Thinned
<1>16. \A i \in Indexes(d) : i \in gone => d.activations[i].marks.obligation = o
  BY <1>10, <1>15 DEF Rows, Thinned
<1>17. gone \subseteq Indexes(d)
  BY <1>15 DEF Rows
<1> HIDE DEF gone
<1>18. /\ m \in Ledgers /\ Rest(g, m) /\ m.activations = g.activations
       /\ m.incidents = {n \in g.incidents : n.nudge \notin gone}
  BY <1>14, CloseEffect
<1> HIDE DEF m
<1>19. Thinned(d, m) /\ Onward(d, m)
  <2>1. Thinned(d, b) /\ Onward(d, b)
    BY <1>10, <1>15, ThinnedSame
  <2>2. m.activations = b.activations
    BY <1>15, <1>18
  <2> QED BY <2>1, <2>2, ThinnedSame
<1>20. /\ m.generation = d.generation /\ m.work = d.work /\ m.wait = d.wait /\ m.handled = d.handled
       /\ m.replays = d.replays /\ m.armed = d.armed /\ m.assignment = d.assignment
       /\ m.obligation[o] = q
       /\ \A p \in Obligation \ {o} : m.obligation[p] = d.obligation[p]
       /\ m.incidents = {n \in d.incidents : n.nudge \notin gone}
  BY <1>8, <1>10, <1>12, <1>14, <1>18 DEF Rest, Frame, OnlyDebt, SameRead
<1>21. m.request[r] = k /\ \A p \in Request \ {r} : m.request[p] = d.request[p]
  BY <1>8, <1>10, <1>12, <1>14, <1>18 DEF Rest, OnlyDebt, SameRead
<1>22. Outcomes(m) = Outcomes(d) \cup {<<o, "result">>}
  BY <1>8, <1>10, <1>12, <1>14, <1>18 DEF Rest, OnlyDebt, Outcomes
<1>23. Others(d, m, {o}, {r})
  <2>1. \A p \in Obligation \ {o} : SameNotices(d, m, p)
    BY <1>20 DEF SameNotices
  <2>2. ASSUME NEW p \in Request \ {r}
        PROVE  /\ m.request[p] = d.request[p]
               /\ DebtOf[p] # None => /\ DebtOf[p] \notin {o}
                                      /\ <<DebtOf[p], "result">> \in Outcomes(m)
                                           <=> <<DebtOf[p], "result">> \in Outcomes(d)
    BY <1>3, <1>21, <1>22
  <2> QED BY <1>20, <2>1, <2>2 DEF Others
<1>24. DebtWritten(d, m, o) /\ Settled(m, o)
  <2>1. DebtKept(m, o)
    <3>1. d.obligation[o].claim # 0 =>
            LET j == d.obligation[o].claim
            IN /\ j \in Indexes(m) /\ m.activations[j].status = "claimed"
               /\ m.activations[j].marks.obligation = o /\ m.activations[j].reason \in AssignmentReasons
               /\ m.activations[j].generation = d.obligation[o].generation
      BY <1>6, <1>19 DEF DebtKept, Thinned
    <3>2. d.work[WorkOf[o]].mode # "none"
      BY <1>4, <1>6 DEF DebtKept
    <3> QED BY <1>7, <1>20, <3>1, <3>2 DEF DebtKept
  <2>2. ASSUME NEW j \in Indexes(d), d.activations[j].marks.obligation = o
        PROVE  NoticeKept(m, j)
    <3>1. m.activations[j].marks.obligation = o /\ m.obligation[o].status = "resolved"
      BY <1>7, <1>19, <1>20, <2>2 DEF Thinned
    <3> QED BY ONLY <3>1 DEF NoticeKept
  <2>3. d.obligation[o].generation \in Nat
    BY <1>6 DEF DebtRow
  <2>4. Settled(m, o)
    BY <1>7, <1>20 DEF Settled
  <2> QED BY <1>7, <1>20, <2>1, <2>2, <2>3, <2>4 DEF DebtWritten
<1>25. RequestWritten(d, m, r)
  <2>1. d.work[WorkOf[r]].mode # "none"
    BY <1>1 DEF RequestKept
  <2>2. m.request[r].message = d.request[r].message
    BY <1>8, <1>10, <1>12, <1>13, <1>21 DEF Rest, OnlyDebt, SameRead
  <2>3. m.request[r].message # 0 => /\ m.request[r].message \in Indexes(m)
                                    /\ m.activations[m.request[r].message].marks.request = r
    BY <1>1, <1>18, <1>19, <2>2, MessageThinned
  <2>4. RequestKept(m, r)
    <3>1. m.request[r].status = "reply_ready" /\ m.request[r].reply = 0 /\ m.request[r].answered
      BY <1>13, <1>21
    <3>2. m.obligation[DebtOf[r]].status = "resolved" /\ <<DebtOf[r], "result">> \in Outcomes(m)
      BY <1>5, <1>7, <1>20, <1>22
    <3>3. m.work[WorkOf[r]].mode # "none" /\ DebtOf[r] # None
      BY <1>3, <1>5, <1>20, <2>1
    <3> QED BY <2>3, <3>1, <3>2, <3>3 DEF RequestKept
  <2> QED BY <1>13, <1>21, <2>4 DEF RequestWritten
<1>26. ASSUME NEW i \in Indexes(d), m.activations[i].status \in Live PROVE Apart(d, m, i, {o}, {r})
  <2> DEFINE x == d.activations[i]
  <2>1. i \notin rows /\ x.status \in Live
    BY <1>10, <1>15, <1>18, <1>26 DEF RevokedRows, Live
  <2>2. Addressed(d, x)
    BY <1>1
  <2>3. x.marks.obligation # o
    <3> SUFFICES ASSUME x.marks.obligation = o PROVE FALSE
      OBVIOUS
    <3>1. x.marks.request = r
      BY <1>3, <1>4, <2>1, ClaimedRequestRows
    <3>2. x.actor = Assignee[r]
      BY <1>3, <2>2 DEF Addressed
    <3> QED BY <1>9, <2>1, <3>1, <3>2
  <2>4. ASSUME x.marks.obligation = None, x.marks.request = r PROVE FALSE
    <3>1. x.reason \in {"work_recovery", "request_message", "request_reply"}
      BY <1>3, <2>2, <2>4 DEF Addressed
    <3> QED BY <1>3, <1>5, <2>2, <2>4, <3>1 DEF Addressed
  <2>5. \A n \in d.incidents : n.nudge = i => n \in m.incidents
    BY <1>16, <1>20, <2>3
  <2> QED BY <2>3, <2>4, <2>5 DEF Apart
<1>27. \A n \in m.incidents : n.nudge \in Indexes(d)
  BY <1>1, <1>20
<1>28. GoodBut(m, {}) /\ \A p \in Request \ {r} : Alike(d, m, p)
  <2> DEFINE O == {o}
             R == {r}
  <2>1. O \in SUBSET Obligation /\ R \in SUBSET Request
    BY <1>3
  <2>2. /\ \A p \in O : DebtWritten(d, m, p) /\ Settled(m, p)
        /\ \A p \in R : RequestWritten(d, m, p)
    BY <1>24, <1>25
  <2>3. Others(d, m, O, R) /\ \A i \in Indexes(d) : m.activations[i].status \in Live => Apart(d, m, i, O, R)
    BY <1>23, <1>26
  <2> HIDE DEF O, R
  <2>4. GoodBut(m, {}) /\ \A p \in Request \ R : Alike(d, m, p)
    BY <1>18, <1>19, <1>27, <2>1, <2>2, <2>3, DebtWriteGood
  <2> QED BY <2>4 DEF R
<1>29. ~Held0(m, r) /\ m.request[r].status = "reply_ready"
  BY <1>13, <1>21 DEF Held0, ActiveCurrent
<1>30. Moves(d, m, r, "owed", "answered", TRUE, FALSE)
  <2>1. d.request[r] \in RequestRow
    BY <1>1, LedgerFields
  <2>2. d.request[r].status \in {"delivery_pending", "claimed"}
    BY <1>1, <1>3, <1>5, <2>1 DEF RequestKept, RequestRow
  <2>3. PhaseOf(d, r) = "owed" /\ PhaseOf(m, r) = "answered"
    BY <1>29, <2>2, Phases
  <2>4. HeldOf(d, r)
    BY <1>3, <1>4, <1>5 DEF HeldOf
  <2>5. ~HeldOf(m, r)
    BY <1>5, <1>7, <1>20, <1>29 DEF HeldOf
  <2> QED BY <1>28, <2>3, <2>4, <2>5 DEF Moves
<1>31. Within(d, m)
  BY <1>20, WithinSame
<1>32. Remembers(d, m)
  <2>1. ASSUME NEW i \in Indexes(d), d.activations[i].status \in Live,
               m.activations[i].status \notin Live
        PROVE  d.activations[i].marks.obligation = o
    <3> DEFINE x == d.activations[i]
               p == x.marks.obligation
    <3>1. i \in rows
      BY <1>10, <1>15, <1>18, <2>1 DEF RevokedRows
    <3>2. Addressed(d, x) /\ x.marks.request = r
      BY <1>1, <1>9, <3>1
    <3>3. p \in Obligation \cup {None}
      BY <1>1, LedgerFields DEF Row, Marks
    <3>4. CASE p = None
      <4>1. x.reason \in {"work_recovery", "request_message", "request_reply"}
        BY <1>3, <3>2, <3>4 DEF Addressed
      <4> QED BY <1>3, <1>5, <3>2, <3>4, <4>1 DEF Addressed
    <3>5. CASE p # None
      <4>1. RequestOf(p) = r
        BY <1>3, <3>2, <3>5 DEF Addressed
      <4>2. DebtOf[r] = p
        BY <1>3, <4>1 DEF RequestOf
      <4> QED BY <1>5, <4>2
    <3> QED BY <3>4, <3>5
  <2>2. m.stopped = d.stopped
    BY <1>8, <1>10, <1>12, <1>14, <1>18 DEF Rest, Frame, OnlyDebt
  <2>3. \A p \in Obligation \ {o} : SameNotices(d, m, p)
    BY <1>20 DEF SameNotices
  <2>4. Routes(d, m, {o}, {})
    BY <1>1, <1>3, <1>18, <1>19, <1>20, <2>1, <2>2, <2>3, DebtRoutes
  <2>5. DebtRouted(m, o) /\ InStep(m, o)
    BY <1>7, <1>20 DEF DebtRouted, Owed, InStep
  <2> QED BY <2>4, <2>5, RoutesDone DEF Remembers
<1> QED BY <1>2, <1>19, <1>28, <1>29, <1>30, <1>31, <1>32


\* The status of an answered request, written with its answer.
AnsweredRow(q) == [status |-> "reply_ready", message |-> q.message, reply |-> q.reply, answered |-> TRUE]
RequestSet(d, r, q) == [d EXCEPT !.request = [d.request EXCEPT ![r] = q]]

LEMMA AnswerWrite ==
  ASSUME NEW d \in Ledgers, NEW r \in Request
  PROVE  [d EXCEPT !.request[r].status = "reply_ready", !.request[r].answered = TRUE]
           = RequestSet(d, r, AnsweredRow(d.request[r]))
<1> DEFINE z == d.request[r]
           p == [z EXCEPT !.status = "reply_ready"]
           q == [p EXCEPT !.answered = TRUE]
           h == [d.request EXCEPT ![r] = p]
           k == [d EXCEPT !.request = h]
           e == [d EXCEPT !.request[r].status = "reply_ready", !.request[r].answered = TRUE]
<1>1. d.request \in [Request -> RequestRow] /\ z \in RequestRow
  BY LedgerFields
<1>2. q = AnsweredRow(z)
  <2>1. p \in RequestRow /\ p.message = z.message /\ p.reply = z.reply /\ p.status = "reply_ready"
    BY <1>1 DEF RequestRow
  <2> HIDE DEF p
  <2>2. /\ q \in RequestRow /\ q.message = z.message /\ q.reply = z.reply /\ q.status = "reply_ready"
        /\ q.answered = TRUE
    BY <2>1 DEF RequestRow
  <2> HIDE DEF q, z
  <2>3. q = [status |-> q.status, message |-> q.message, reply |-> q.reply, answered |-> q.answered]
    BY <2>2 DEF RequestRow
  <2> QED BY <2>2, <2>3 DEF AnsweredRow
<1>3. k = [d EXCEPT !.request[r].status = "reply_ready"]
  OBVIOUS
<1>4. e = [k EXCEPT !.request[r].answered = TRUE]
  BY <1>3
<1>5. k.request = h
  BY DEF Ledgers
<1>6. h[r] = p
  BY <1>1
<1>7. e = [k EXCEPT !.request = [h EXCEPT ![r] = q]]
  <2> HIDE DEF h, k, p, e
  <2> QED BY <1>4, <1>5, <1>6
<1> HIDE DEF p, q
<1>8. [h EXCEPT ![r] = q] = [d.request EXCEPT ![r] = q]
  BY <1>1
<1> HIDE DEF h
<1>9. e = [d EXCEPT !.request = [d.request EXCEPT ![r] = q]]
  BY <1>7, <1>8 DEF Ledgers
<1> QED BY <1>2, <1>9 DEF RequestSet

\* Writing one row twice is writing it once.
LEMMA SetTwice ==
  ASSUME NEW d \in Ledgers, NEW r \in Request, NEW p \in RequestRow, NEW q
  PROVE  /\ RequestSet(d, r, p) \in Ledgers /\ RequestSet(d, r, p).request[r] = p
         /\ RequestSet(RequestSet(d, r, p), r, q) = RequestSet(d, r, q)
<1> DEFINE h == [d.request EXCEPT ![r] = p]
           k == [d EXCEPT !.request = h]
<1>1. d.request \in [Request -> RequestRow]
  BY LedgerFields
<1>2. k = RequestSet(d, r, p)
  BY DEF RequestSet
<1>3. k \in Ledgers /\ k.request[r] = p
  BY <1>2, RequestWrite DEF RequestSet
<1>4. k.request = h
  BY DEF Ledgers
<1>5. [h EXCEPT ![r] = q] = [d.request EXCEPT ![r] = q]
  BY <1>1
<1>6. [k EXCEPT !.request = [h EXCEPT ![r] = q]] = [d EXCEPT !.request = [h EXCEPT ![r] = q]]
  <2> HIDE DEF h
  <2> QED BY DEF Ledgers
<1>7. RequestSet(k, r, q) = [k EXCEPT !.request = [h EXCEPT ![r] = q]]
  BY <1>4 DEF RequestSet
<1>8. RequestSet(k, r, q) = RequestSet(d, r, q)
  <2> HIDE DEF h, k
  <2> QED BY <1>5, <1>6, <1>7 DEF RequestSet
<1> QED BY <1>2, <1>3, <1>8

\* request_respond
LEMMA RequestRespondStep ==
  ASSUME GoodBut(ledger, {}), NEW r \in Request, RequestRespond(r)
  PROVE  /\ GoodBut(ledger', {}) /\ Onward(ledger, ledger') /\ Within(ledger, ledger')
         /\ Moves(ledger, ledger', r, "owed", "answered", TRUE, FALSE)
         /\ Remembers(ledger, ledger')
<1> DEFINE d == ledger
           o == DebtOf[r]
           w == WorkOf[r]
           outcome == <<o, "result">>
           p0 == [d EXCEPT !.obligation[o].status = "resolved"]
           closed == RevokeRequest(p0, r, Assignee[r])
           c == RecordResult(closed, outcome)
           sent == SendReply(c, r, {outcome})
           replied == IF ExplicitStop(c, w, ReturnActor[r]) THEN [c EXCEPT !.request[r].reply = 0] ELSE sent
           ready == [replied EXCEPT !.request[r].status = "reply_ready", !.request[r].answered = TRUE]
           f == CloseAssignmentIncidents(ready, o)
           e == EvaluateWait(f, w)
           m == Paid(d, r)
           row == ReadyRow(c.request[r])
           g == RequestSet(c, r, row)
<1>1. d \in Ledgers /\ \A i \in Indexes(d) : Addressed(d, d.activations[i])
  BY GoodParts
<1>2. /\ ledger' = e /\ o # None /\ d.request[r].status # "none" /\ ~d.request[r].answered
      /\ d.obligation[o].status = "open" /\ CurrentClaim(d, o) # 0
  BY DEF RequestRespond, Responding, HoldsClaim, Commit
<1>3. m = CloseAssignmentIncidents(g, o)
  BY DEF Paid, RequestSet
<1>4. GoodBut(d, {})
  BY DEF d
<1> HIDE DEF d
<1>5. /\ GoodBut(m, {}) /\ Onward(d, m) /\ m.request[r].status = "reply_ready"
      /\ ~Held0(m, r) /\ Moves(d, m, r, "owed", "answered", TRUE, FALSE) /\ Within(d, m)
      /\ Remembers(d, m)
  <2> HIDE DEF m
  <2>1. LET n == Paid(d, r)
        IN /\ GoodBut(n, {}) /\ Onward(d, n) /\ n.request[r].status = "reply_ready"
           /\ ~Held0(n, r) /\ Moves(d, n, r, "owed", "answered", TRUE, FALSE) /\ Within(d, n)
           /\ Remembers(d, n)
    BY <1>2, <1>4, PaidGood DEF o
  <2> QED BY <2>1 DEF m
<1> HIDE DEF m
<1>6. w \in Work /\ o \in Obligation /\ outcome \in Outcome /\ ReturnActor[r] \in Actor
  BY <1>2, LedgerConstants DEF Outcome, Sources
<1>7. c \in Ledgers
  <2>1. p0 \in Ledgers
    <3> DEFINE q == [d.obligation[o] EXCEPT !.status = "resolved"]
               a == [d EXCEPT !.obligation = [d.obligation EXCEPT ![o] = q]]
    <3>1. d.obligation[o] \in DebtRow
      BY <1>1, <1>6, LedgerFields
    <3>2. q \in DebtRow
      BY <3>1 DEF DebtRow
    <3>3. p0 = a
      OBVIOUS
    <3> HIDE DEF q, p0
    <3>4. a \in Ledgers
      BY <1>1, <1>6, <3>2, DebtWrite
    <3> QED BY <3>3, <3>4
  <2> HIDE DEF p0, outcome
  <2>2. closed \in Ledgers
    BY <2>1, RevokeEffect DEF RevokeRequest
  <2> HIDE DEF closed
  <2> QED BY <1>6, <2>2, RecordEffect
<1> HIDE DEF c, closed, p0, outcome
<1>8. /\ c.request \in [Request -> RequestRow] /\ c.request[r] \in RequestRow
      /\ c.request[r].message \in Nat
  BY <1>7, LedgerFields DEF RequestRow
<1>9. /\ row \in RequestRow /\ row.status = "reply_ready" /\ row.answered = TRUE
      /\ row.message = c.request[r].message
  BY <1>8 DEF RequestRow, ReadyRow
<1> HIDE DEF row
<1>10. /\ g \in Ledgers /\ Frame(c, g) /\ g.activations = c.activations
       /\ g.results = c.results /\ g.incidents = c.incidents /\ g.request[r] = row
       /\ \A p \in Request \ {r} : g.request[p] = c.request[p]
  BY <1>7, <1>9, RequestWrite DEF RequestSet
<1>11. ASSUME ExplicitStop(c, w, ReturnActor[r]) PROVE Keeps(m, f, {})
  <2> DEFINE y == [c.request[r] EXCEPT !.reply = 0]
  <2>1. y \in RequestRow /\ y.message = c.request[r].message /\ y.reply = 0
    BY <1>8 DEF RequestRow
  <2>2. replied = RequestSet(c, r, y)
    BY <1>11 DEF RequestSet
  <2> HIDE DEF y, replied
  <2>3. replied \in Ledgers /\ replied.request[r] = y
    BY <1>7, <2>1, <2>2, SetTwice
  <2>4. ready = RequestSet(replied, r, AnsweredRow(replied.request[r]))
    BY <2>3, AnswerWrite
  <2>5. AnsweredRow(y) = row
    BY <2>1 DEF AnsweredRow, ReadyRow, row
  <2> HIDE DEF ready, g
  <2>6. RequestSet(replied, r, row) = RequestSet(c, r, row)
    BY <1>7, <2>1, <2>2, SetTwice
  <2>7. ready = g
    BY <2>3, <2>4, <2>5, <2>6 DEF g
  <2>8. f = m
    BY <1>3, <2>7
  <2> HIDE DEF f
  <2> QED BY <1>5, <2>8, KeepsReflexive
<1>12. ASSUME ~ExplicitStop(c, w, ReturnActor[r]) PROVE Keeps(m, f, {})
  <2>1. replied = sent
    BY <1>12
  <2>2. {outcome} \in SUBSET Outcome
    BY <1>6
  <2>3. sent \in Ledgers /\ \E x : ReplySent(c, sent, r, x)
    BY <1>7, <2>2, SendReplySent
  <2>4. PICK x : ReplySent(c, sent, r, x)
    BY <2>3
  <2> HIDE DEF sent, replied
  <2> DEFINE k == AnsweredRow(sent.request[r])
  <2>5. /\ k \in RequestRow /\ k.status = "reply_ready" /\ k.answered = TRUE
        /\ k.reply = sent.request[r].reply /\ k.message = sent.request[r].message
    <3>1. sent.request[r] \in RequestRow
      BY <2>3, LedgerFields
    <3> QED BY <3>1 DEF RequestRow, AnsweredRow
  <2>6. ready = RequestSet(sent, r, k)
    BY <2>1, <2>3, AnswerWrite
  <2> HIDE DEF k, ready
  <2>7. /\ ready \in Ledgers /\ Frame(sent, ready) /\ ready.activations = sent.activations
        /\ ready.results = sent.results /\ ready.incidents = sent.incidents /\ ready.request[r] = k
        /\ \A p \in Request \ {r} : ready.request[p] = sent.request[p]
    <3> DEFINE n == RequestSet(sent, r, k)
    <3>1. /\ n \in Ledgers /\ Frame(sent, n) /\ n.activations = sent.activations
          /\ n.results = sent.results /\ n.incidents = sent.incidents /\ n.request[r] = k
          /\ \A p \in Request \ {r} : n.request[p] = sent.request[p]
      BY <2>3, <2>5, RequestWrite DEF RequestSet
    <3> HIDE DEF n
    <3> QED BY <2>6, <3>1 DEF n
  <2> DEFINE gone == Rows(g, LAMBDA z : z.reason = "assignment_recovery" /\ z.marks.obligation = o)
             lost == Rows(ready, LAMBDA z : z.reason = "assignment_recovery" /\ z.marks.obligation = o)
  <2>8. f = CloseIncidents(ready, lost) /\ m = CloseIncidents(g, gone)
    BY <1>3 DEF CloseAssignmentIncidents
  <2> HIDE DEF g, f
  <2>9. lost = gone
    <3>1. Appended(c, sent, x) /\ x.reason = "request_reply"
      BY <2>4 DEF ReplySent
    <3>2. /\ Len(c.activations) + 1 \notin Indexes(c) /\ Indexes(sent) = Indexes(c) \cup {Len(c.activations) + 1}
          /\ sent.activations[Len(c.activations) + 1] = x
          /\ \A i \in Indexes(c) : sent.activations[i] = c.activations[i]
      BY <1>7, <2>3, <3>1, AppendedRows
    <3>3. Indexes(ready) = Indexes(sent) /\ Indexes(g) = Indexes(c)
      BY <1>10, <2>7 DEF Indexes
    <3>4. \A i : i \in lost <=> i \in gone
      BY <1>10, <2>7, <3>1, <3>2, <3>3 DEF Rows
    <3> QED BY <3>4
  <2> HIDE DEF gone, lost
  <2>10. /\ f \in Ledgers /\ Rest(ready, f) /\ f.activations = ready.activations
         /\ f.incidents = {n \in ready.incidents : n.nudge \notin lost}
    BY <2>7, <2>8, CloseEffect
  <2>11. /\ m \in Ledgers /\ Rest(g, m) /\ m.activations = g.activations
         /\ m.incidents = {n \in g.incidents : n.nudge \notin gone}
    BY <1>10, <2>8, CloseEffect
  <2>12. ReplySent(m, f, r, x)
    <3>1. /\ Frame(c, sent) /\ sent.results = c.results /\ x \in Row /\ x.status = "pending"
          /\ sent.activations = Append(c.activations, x) /\ sent.incidents = c.incidents
          /\ x.work = WorkOf[r] /\ x.actor = ReturnActor[r] /\ x.reason = "request_reply"
          /\ x.endpoint = c.generation[ReturnActor[r]]
          /\ x.marks.request = r /\ x.marks.obligation = None
          /\ sent.request[r].reply = Len(sent.activations)
          /\ sent.request[r].message = c.request[r].message
          /\ \A p \in Request \ {r} : sent.request[p] = c.request[p]
      BY <2>4 DEF ReplySent, Appended
    <3>2. Frame(m, f) /\ f.results = m.results
      BY <1>10, <2>7, <2>10, <2>11, <3>1 DEF Rest, Frame
    <3>3. f.activations = Append(m.activations, x) /\ f.incidents = m.incidents
      BY <1>10, <2>7, <2>9, <2>10, <2>11, <3>1
    <3>4. m.generation = c.generation
      BY <1>10, <2>11 DEF Rest, Frame
    <3>5. f.request[r].reply = Len(f.activations) /\ f.request[r].status = m.request[r].status
          /\ f.request[r].answered = m.request[r].answered
          /\ f.request[r].message = m.request[r].message
      <4>1. f.request[r] = k /\ m.request[r] = row
        BY <1>10, <2>7, <2>10, <2>11 DEF Rest
      <4>2. f.activations = sent.activations
        BY <2>7, <2>10
      <4> QED BY <1>9, <2>5, <3>1, <4>1, <4>2
    <3>6. \A p \in Request \ {r} : f.request[p] = m.request[p]
      BY <1>10, <2>7, <2>10, <2>11, <3>1 DEF Rest
    <3> QED BY <3>1, <3>2, <3>3, <3>4, <3>5, <3>6 DEF ReplySent, Appended
  <2>13. NoLiveReply(m, r)
    BY <1>5, ReplyMissing
  <2> QED BY <1>5, <2>10, <2>12, <2>13, ReplyGood DEF Keeps
<1> HIDE DEF f
<1>13. GoodBut(f, {}) /\ Keeps(m, f, {})
  <2>1. Keeps(m, f, {})
    BY <1>11, <1>12
  <2> QED BY <2>1 DEF Keeps
<1>14. Keeps(f, e, {})
  BY <1>6, <1>13, EvaluateWaitKeeps
<1> HIDE DEF e
<1>15. Keeps(m, e, {})
  BY <1>5, <1>13, <1>14, KeepsTransitive
<1>16. Quiet(m, e) /\ Onward(m, e) /\ GoodBut(e, {})
  BY <1>5, <1>15, QuietKeeps DEF Keeps
<1>17. Onward(d, e) /\ Moves(d, e, r, "owed", "answered", TRUE, FALSE)
  BY <1>5, <1>16, OnwardTransitive, MovesQuietly
<1>18. Within(d, e)
  BY <1>5, <1>15, WithinKeeps
<1>19. Remembers(d, e)
  BY <1>5, <1>15, RemembersKeeps
<1> QED BY <1>2, <1>16, <1>17, <1>18, <1>19 DEF d


(***************************************************************************)
(* A new endpoint.                                                         *)
(***************************************************************************)
\* What is added is about one assignment.
OnlyAbout(d, e, o) ==
  /\ Added(d, e)
  /\ \A i \in Indexes(e) \ Indexes(d) : e.activations[i].marks.obligation = o
  /\ \A r \in Request : e.request[r].reply = d.request[r].reply
About(d, o) == {e \in Ledgers : OnlyAbout(d, e, o)}

LEMMA AboutSelf ==
  ASSUME NEW d \in Ledgers, NEW o
  PROVE  d \in About(d, o)
<1>1. Len(d.activations) \in Nat
  BY LedgerFields
<1> QED BY <1>1 DEF About, OnlyAbout, Added

LEMMA AboutStep ==
  ASSUME NEW d \in Ledgers, NEW o, NEW e \in About(d, o), NEW f \in About(e, o)
  PROVE  f \in About(d, o)
<1>1. d \in Ledgers /\ e \in Ledgers /\ f \in Ledgers /\ OnlyAbout(d, e, o) /\ OnlyAbout(e, f, o)
  BY DEF About
<1>2. /\ Len(d.activations) \in Nat /\ Len(e.activations) \in Nat /\ Len(f.activations) \in Nat
      /\ Indexes(d) = 1..Len(d.activations) /\ Indexes(e) = 1..Len(e.activations)
      /\ Indexes(f) = 1..Len(f.activations)
  BY <1>1, LedgerFields
<1>3. /\ Len(d.activations) <= Len(e.activations) /\ Len(e.activations) <= Len(f.activations)
      /\ \A i \in Indexes(d) : e.activations[i] = d.activations[i]
      /\ \A i \in Indexes(e) : f.activations[i] = e.activations[i]
      /\ \A i \in Indexes(e) \ Indexes(d) : e.activations[i].status = "pending"
      /\ \A i \in Indexes(f) \ Indexes(e) : f.activations[i].status = "pending"
      /\ \A i \in Indexes(e) \ Indexes(d) : e.activations[i].marks.obligation = o
      /\ \A i \in Indexes(f) \ Indexes(e) : f.activations[i].marks.obligation = o
  BY <1>1 DEF OnlyAbout, Added
<1>4. Indexes(d) \subseteq Indexes(e)
  BY <1>2, <1>3
<1>5. Len(d.activations) <= Len(f.activations)
  BY <1>2, <1>3
<1>6. Added(d, f)
  BY <1>3, <1>4, <1>5 DEF Added
<1>7. \A i \in Indexes(f) \ Indexes(d) : f.activations[i].marks.obligation = o
  BY <1>3, <1>4
<1>8. \A r \in Request : f.request[r].reply = d.request[r].reply
  BY <1>1 DEF OnlyAbout
<1> QED BY <1>1, <1>6, <1>7, <1>8 DEF About, OnlyAbout

LEMMA AboutCreate ==
  ASSUME NEW d \in Ledgers, NEW w \in Work, NEW a \in Actor, NEW reason \in Reasons, NEW g \in Nat,
         NEW marks \in Marks
  PROVE  Create(d, w, a, reason, g, marks) \in About(d, marks.obligation)
<1> DEFINE e == Create(d, w, a, reason, g, marks)
           x == NewRow(d, w, a, reason, g, marks)
<1>1. e \in Ledgers /\ Appended(d, e, x) /\ e.request = d.request
  BY CreateEffect
<1>2. x.marks = marks
  BY DEF NewRow
<1> HIDE DEF e, x
<1>3. /\ Added(d, e) /\ Indexes(e) = Indexes(d) \cup {Len(d.activations) + 1}
      /\ e.activations[Len(d.activations) + 1] = x
  BY <1>1, AppendedRows
<1>4. \A i \in Indexes(e) \ Indexes(d) : e.activations[i].marks.obligation = marks.obligation
  BY <1>2, <1>3
<1>5. e \in About(d, marks.obligation)
  BY <1>1, <1>3, <1>4 DEF About, OnlyAbout
<1> QED BY <1>5 DEF e

LEMMA AboutRepeats ==
  ASSUME NEW d \in Ledgers, NEW o \in Obligation, NEW n \in Nat
  PROVE  Repeat(n, d, LAMBDA e : Create(e, WorkOf[o], Assignee[o], "obligation_reminder",
                                  e.obligation[o].generation, [NoMarks EXCEPT !.obligation = o])) \in About(d, o)
<1> DEFINE H(e, k) == Create(e, WorkOf[o], Assignee[o], "obligation_reminder",
                             e.obligation[o].generation, [NoMarks EXCEPT !.obligation = o])
           S == 1..n
           L == About(d, o)
           F == [p \in S \X L |-> H(p[2], p[1])]
           step(h) == [s \in SUBSET S |-> IF s = {} THEN d ELSE H(h[s \ {Pick(s)}], Pick(s))]
           iter == CHOOSE h : h = step(h)
<1>1. IsFiniteSet(S)
  BY FS_Interval
<1>2. d \in L
  BY AboutSelf
<1>3. ASSUME NEW k \in S, NEW e \in L PROVE H(e, k) \in L
  <2> DEFINE marks == [NoMarks EXCEPT !.obligation = o]
  <2>1. marks \in Marks /\ marks.obligation = o
    BY ObligationMarks
  <2>2. "obligation_reminder" \in Reasons /\ WorkOf[o] \in Work /\ Assignee[o] \in Actor
    BY LedgerConstants DEF Reasons, AssignmentReasons
  <2>3. e \in Ledgers
    BY DEF About
  <2>4. e.obligation[o].generation \in Nat
    BY <2>3, LedgerFields DEF DebtRow
  <2>5. H(e, k) = Create(e, WorkOf[o], Assignee[o], "obligation_reminder", e.obligation[o].generation, marks)
    OBVIOUS
  <2> HIDE DEF H, marks
  <2>6. H(e, k) \in About(e, o)
    BY <2>1, <2>2, <2>3, <2>4, <2>5, AboutCreate
  <2> QED BY <2>6, AboutStep
<1>4. StepsIn(S, L, F)
  BY <1>3 DEF StepsIn
<1> HIDE DEF H, L, S
<1>5. PICK g : (\A s \in SUBSET S : g[s] \in L) /\ FoldOf(g, S, F, d)
  <2> HIDE DEF F
  <2> QED BY <1>1, <1>2, <1>4, FoldIn DEF FoldsIn
<1>6. g = step(g)
  BY <1>5, PickIn DEF FoldOf
<1>7. iter = step(iter)
  <2> HIDE DEF step
  <2> QED BY <1>6
<1> HIDE DEF iter
<1>8. iter[S] \in L
  <2>1. iter[{}] \in L /\ \A s \in SUBSET S : s # {} => iter[s] = H(iter[s \ {Pick(s)}], Pick(s))
    BY <1>2, <1>7
  <2> HIDE DEF step
  <2>2. \A s \in SUBSET S : s # {} /\ iter[s \ {Pick(s)}] \in L => iter[s] \in L
    BY <1>3, <2>1, PickIn
  <2> QED BY <1>1, <2>1, <2>2, FoldStays
<1>9. Repeat(n, d, LAMBDA e : Create(e, WorkOf[o], Assignee[o], "obligation_reminder",
                                  e.obligation[o].generation, [NoMarks EXCEPT !.obligation = o])) = iter[S]
  BY DEF Repeat, FoldSet, MapThenFoldSet, Pick, iter, S, H
<1> QED BY <1>8, <1>9 DEF L


LEMMA ScheduleAbout ==
  ASSUME NEW d \in Ledgers, NEW o \in Obligation
  PROVE  ScheduleObligation(d, o) \in About(d, o)
<1> DEFINE marks == [NoMarks EXCEPT !.obligation = o]
           f == Create(d, WorkOf[o], Assignee[o], "obligation_assigned", d.obligation[o].generation, marks)
           h == Repeat(Reminders[o], f,
                       LAMBDA e : Create(e, WorkOf[o], Assignee[o], "obligation_reminder",
                                         e.obligation[o].generation, [NoMarks EXCEPT !.obligation = o]))
<1>1. f \in About(d, o)
  <2>1. marks \in Marks /\ marks.obligation = o
    BY ObligationMarks
  <2>2. "obligation_assigned" \in Reasons /\ WorkOf[o] \in Work /\ Assignee[o] \in Actor
    BY LedgerConstants DEF Reasons, AssignmentReasons
  <2>3. d.obligation[o].generation \in Nat
    BY LedgerFields DEF DebtRow
  <2> HIDE DEF marks
  <2> QED BY <2>1, <2>2, <2>3, AboutCreate
<1>2. ScheduleObligation(d, o) = IF ExplicitStop(d, WorkOf[o], Assignee[o]) THEN d ELSE h
  BY DEF ScheduleObligation
<1> HIDE DEF f
<1>3. f \in Ledgers /\ Reminders[o] \in Nat
  BY <1>1, LedgerConstants DEF About
<1>4. h \in About(f, o)
  BY <1>3, AboutRepeats
<1> HIDE DEF h
<1>5. h \in About(d, o)
  BY <1>1, <1>4, AboutStep
<1> QED BY <1>2, <1>5, AboutSelf

LEMMA RearmAbout ==
  ASSUME NEW d \in Ledgers, NEW o \in Obligation
  PROVE  RearmObligation(d, o) \in About(d, o)
<1> DEFINE w == WorkOf[o]
           r == RequestOf(o)
           mode == d.assignment[o].mode
           reason == IF mode = "continue" THEN "assignment_continue" ELSE "assignment_paused_control"
           woken == EvaluateAssignmentWait(d, o)
           again == Create(d, w, Assignee[o], reason, d.obligation[o].generation,
                           [NoMarks EXCEPT !.request = r, !.obligation = o])
           sent == SendMessage(d, r)
           scheduled == ScheduleObligation(d, o)
<1>1. RearmObligation(d, o) \in {d, woken, again, IF r # None THEN sent ELSE scheduled}
  BY DEF RearmObligation
<1>2. w \in Work /\ Assignee[o] \in Actor /\ o # None
  BY LedgerConstants
<1>3. d.obligation[o].generation \in Nat
  BY LedgerFields DEF DebtRow
<1>4. r \in Request \cup {None}
  BY DEF RequestOf
<1>5. woken \in About(d, o)
  <2> DEFINE marks == [NoMarks EXCEPT !.obligation = o, !.outcomes = AssignmentManifest(d, o)]
             e == Create(d, w, Assignee[o], "assignment_wait_satisfied", d.obligation[o].generation, marks)
  <2>1. woken = d \/ (AssignmentSatisfied(d, o) /\ woken = e)
    BY DEF EvaluateAssignmentWait
  <2>2. ASSUME AssignmentSatisfied(d, o) PROVE e \in About(d, o)
    <3>1. AssignmentManifest(d, o) \in SUBSET Outcome
      BY <2>2, AssignmentManifestTyped, OutcomesTyped
    <3>2. marks \in Marks
      BY <3>1, MarksTyped
    <3>3. marks.obligation = o
      BY DEF NoMarks
    <3>4. "assignment_wait_satisfied" \in Reasons
      BY DEF Reasons, AssignmentReasons
    <3> HIDE DEF marks
    <3> QED BY <1>2, <1>3, <3>2, <3>3, <3>4, AboutCreate
  <2> HIDE DEF woken, e
  <2> QED BY <2>1, <2>2, AboutSelf
<1>6. again \in About(d, o)
  <2> DEFINE marks == [NoMarks EXCEPT !.request = r, !.obligation = o]
  <2>1. marks \in Marks /\ marks.obligation = o
    BY <1>4, ObligationMarks
  <2>2. reason \in Reasons
    BY DEF Reasons, AssignmentReasons
  <2>3. again = Create(d, w, Assignee[o], reason, d.obligation[o].generation, marks)
    OBVIOUS
  <2> HIDE DEF marks, reason, again
  <2>4. Create(d, w, Assignee[o], reason, d.obligation[o].generation, marks) \in About(d, marks.obligation)
    BY <1>2, <1>3, <2>1, <2>2, AboutCreate
  <2> QED BY <2>1, <2>3, <2>4
<1>7. ASSUME r # None PROVE sent \in About(d, o)
  <2>1. r \in Request /\ DebtOf[r] = o
    BY <1>7 DEF RequestOf
  <2> DEFINE g == IF DebtOf[r] = None THEN 0 ELSE d.obligation[DebtOf[r]].generation
             x == NewRow(d, WorkOf[r], Assignee[r], "request_message", g, MessageMarks(r))
  <2>2. /\ sent \in Ledgers /\ Appended(d, sent, x)
        /\ sent.request[r].reply = d.request[r].reply
        /\ \A p \in Request \ {r} : sent.request[p] = d.request[p]
    BY <2>1, SendMessageEffect
  <2>3. x.marks.obligation = o
    BY <2>1 DEF NewRow, MessageMarks, NoMarks
  <2> HIDE DEF sent, x
  <2>4. /\ Added(d, sent) /\ Indexes(sent) = Indexes(d) \cup {Len(d.activations) + 1}
        /\ sent.activations[Len(d.activations) + 1] = x
    BY <2>2, AppendedRows
  <2> QED BY <2>2, <2>3, <2>4 DEF About, OnlyAbout
<1>8. scheduled \in About(d, o)
  BY ScheduleAbout
<1> HIDE DEF woken, again, sent, scheduled, r
<1> QED BY <1>1, <1>5, <1>6, <1>7, <1>8, AboutSelf

\* The binding of an actor to a new endpoint, what the old one had being fenced.
Bound(d, a) ==
  LET addressed == Rows(d, LAMBDA x : x.actor = a)
      fenced == CloseIncidents(Revoke(d, addressed), addressed)
  IN [fenced EXCEPT !.generation[a] = @ + 1]
DebtsOf(d, a) == {o \in Obligation : Assignee[o] = a /\ d.obligation[o].status = "open"}
DebtsFor(a) == {o \in Obligation : Assignee[o] = a}
WorksOf(d, a) == {w \in Work : d.work[w].owner \in {a, None}}

\* From d to e only the assignments and the works of a are forgotten, and those outside P have
\* their notices again.  Nobody has claimed one at the new endpoint.
Unclaimed(e, o) ==
  \A i \in Indexes(e) : e.activations[i].status = "claimed" /\ e.activations[i].marks.obligation = o
                          => e.activations[i].endpoint # e.generation[Assignee[o]]
Tended(d, e, P, a) ==
  /\ e.stopped = d.stopped /\ Routes(d, e, DebtsFor(a), WorksOf(d, a))
  /\ \A o \in DebtsFor(a) : Unclaimed(e, o) /\ (o \notin P => DebtRouted(e, o))

LEMMA GenerationWrite ==
  ASSUME NEW d \in Ledgers, NEW a \in Actor
  PROVE  LET e == [d EXCEPT !.generation[a] = @ + 1]
         IN /\ e \in Ledgers /\ e.generation[a] = d.generation[a] + 1
            /\ \A b \in Actor \ {a} : e.generation[b] = d.generation[b]
            /\ e.work = d.work /\ e.wait = d.wait /\ e.handled = d.handled /\ e.replays = d.replays
            /\ e.obligation = d.obligation /\ e.assignment = d.assignment /\ e.armed = d.armed
            /\ e.stopped = d.stopped /\ e.request = d.request /\ e.results = d.results
            /\ e.activations = d.activations /\ e.incidents = d.incidents
<1> DEFINE h == [d.generation EXCEPT ![a] = d.generation[a] + 1]
           e == [d EXCEPT !.generation = h]
<1>1. d.generation \in [Actor -> Nat]
  BY LedgerFields
<1>2. /\ h \in [Actor -> Nat] /\ h[a] = d.generation[a] + 1
      /\ \A b \in Actor \ {a} : h[b] = d.generation[b]
  BY <1>1
<1>3. e = [d EXCEPT !.generation[a] = @ + 1]
  OBVIOUS
<1> HIDE DEF h
<1>4. /\ e \in Ledgers /\ e.generation = h
      /\ e.work = d.work /\ e.wait = d.wait /\ e.handled = d.handled /\ e.replays = d.replays
      /\ e.obligation = d.obligation /\ e.assignment = d.assignment /\ e.armed = d.armed
      /\ e.stopped = d.stopped /\ e.request = d.request /\ e.results = d.results
      /\ e.activations = d.activations /\ e.incidents = d.incidents
  BY <1>2 DEF Ledgers
<1> HIDE DEF e
<1> QED BY <1>2, <1>3, <1>4

LEMMA BoundEffect ==
  ASSUME NEW d \in Ledgers, NEW a \in Actor
  PROVE  LET m == Bound(d, a)
         IN /\ m \in Ledgers /\ m.generation[a] = d.generation[a] + 1
            /\ \A b \in Actor \ {a} : m.generation[b] = d.generation[b]
            /\ m.work = d.work /\ m.wait = d.wait /\ m.handled = d.handled /\ m.replays = d.replays
            /\ m.obligation = d.obligation /\ m.assignment = d.assignment /\ m.armed = d.armed
            /\ m.stopped = d.stopped /\ m.request = d.request /\ m.results = d.results
            /\ m.incidents = {n \in d.incidents : n.nudge \notin {i \in Indexes(d) : d.activations[i].actor = a}}
            /\ Thinned(d, m) /\ Onward(d, m)
            /\ \A i \in Indexes(d) : d.activations[i].actor = a => m.activations[i].status \notin Live
            /\ \A i \in Indexes(d) : d.activations[i].actor # a => m.activations[i].status = d.activations[i].status
<1> DEFINE rows == Rows(d, LAMBDA x : x.actor = a)
           b == Revoke(d, rows)
           c == CloseIncidents(b, rows)
           m == [c EXCEPT !.generation[a] = @ + 1]
<1>1. Bound(d, a) = m
  BY DEF Bound
<1>2. rows = {i \in Indexes(d) : d.activations[i].actor = a}
  BY DEF Rows
<1> HIDE DEF rows
<1>3. /\ b \in Ledgers /\ Rest(d, b) /\ b.incidents = d.incidents
      /\ Thinned(d, b) /\ Onward(d, b) /\ RevokedRows(d, b, rows)
  BY RevokeEffect
<1> HIDE DEF b
<1>4. /\ c \in Ledgers /\ Rest(b, c) /\ c.activations = b.activations
      /\ c.incidents = {n \in b.incidents : n.nudge \notin rows}
  BY <1>3, CloseEffect
<1> HIDE DEF c
<1>5. /\ m \in Ledgers /\ m.generation[a] = c.generation[a] + 1
      /\ \A p \in Actor \ {a} : m.generation[p] = c.generation[p]
      /\ m.work = c.work /\ m.wait = c.wait /\ m.handled = c.handled /\ m.replays = c.replays
      /\ m.obligation = c.obligation /\ m.assignment = c.assignment /\ m.armed = c.armed
      /\ m.stopped = c.stopped /\ m.request = c.request /\ m.results = c.results
      /\ m.activations = c.activations /\ m.incidents = c.incidents
  BY <1>4, GenerationWrite
<1> HIDE DEF m
<1>6. Thinned(d, m) /\ Onward(d, m)
  BY <1>3, <1>4, <1>5, ThinnedSame
<1>7. \A i \in Indexes(d) : d.activations[i].actor = a => m.activations[i].status \notin Live
  BY <1>2, <1>3, <1>4, <1>5 DEF RevokedRows, Live
<1>8. \A i \in Indexes(d) : d.activations[i].actor # a => m.activations[i].status = d.activations[i].status
  BY <1>2, <1>3, <1>4, <1>5 DEF RevokedRows
<1> QED BY <1>1, <1>2, <1>3, <1>4, <1>5, <1>6, <1>7, <1>8 DEF Rest, Frame

LEMMA BoundGood ==
  ASSUME NEW d, GoodBut(d, {}), NEW a \in Actor
  PROVE  LET m == Bound(d, a)
         IN /\ GoodBut(m, DebtsOf(d, a)) /\ Loses(d, m) /\ Onward(d, m)
            /\ \A r \in Request : ReturnActor[r] = a => ~Held0(m, r)
            /\ \A i \in Indexes(m) : m.activations[i].actor = a => m.activations[i].status \notin Live
            /\ m.work = d.work /\ m.obligation = d.obligation /\ m.request = d.request
            /\ m.stopped = d.stopped /\ m.generation[a] = d.generation[a] + 1
            /\ \A b \in Actor \ {a} : m.generation[b] = d.generation[b]
            /\ Tended(d, m, DebtsOf(d, a), a)
<1> DEFINE m == Bound(d, a)
<1>1. /\ d \in Ledgers
      /\ \A w \in Work : WorkKept(d, w)
      /\ \A o \in Obligation : DebtKept(d, o) /\ Settled(d, o)
      /\ \A r \in Request : RequestKept(d, r)
      /\ \A i \in Indexes(d) : Addressed(d, d.activations[i])
      /\ \A n \in d.incidents : n.nudge \in Indexes(d)
  BY GoodParts
<1>2. /\ m \in Ledgers /\ m.generation[a] = d.generation[a] + 1
      /\ \A b \in Actor \ {a} : m.generation[b] = d.generation[b]
      /\ m.work = d.work /\ m.wait = d.wait /\ m.handled = d.handled /\ m.replays = d.replays
      /\ m.obligation = d.obligation /\ m.assignment = d.assignment /\ m.armed = d.armed
      /\ m.stopped = d.stopped /\ m.request = d.request /\ m.results = d.results
      /\ m.incidents = {n \in d.incidents : n.nudge \notin {i \in Indexes(d) : d.activations[i].actor = a}}
      /\ Thinned(d, m) /\ Onward(d, m)
      /\ \A i \in Indexes(d) : d.activations[i].actor = a => m.activations[i].status \notin Live
  BY <1>1, BoundEffect
<1> HIDE DEF m
<1>3. Outcomes(m) = Outcomes(d) /\ Indexes(m) = Indexes(d)
  BY <1>2 DEF Outcomes, Thinned
<1>4. \A b \in Actor : d.generation[b] \in Nat /\ m.generation[b] \in Nat /\ d.generation[b] <= m.generation[b]
  <2>1. d.generation \in [Actor -> Nat]
    BY <1>1, LedgerFields
  <2> QED BY <1>2, <2>1
<1>5. Grown(d, m)
  <2>1. \A o \in Obligation : d.obligation[o].generation \in Nat
    BY <1>1, LedgerFields DEF DebtRow
  <2> QED BY <1>2, <1>4, <2>1 DEF Grown
<1>6. \A w \in Work : WorkKept(m, w)
  BY <1>1, <1>2 DEF WorkKept, PendingReplays
<1>7. \A o \in Obligation : SameNotices(d, m, o)
  BY <1>2 DEF SameNotices
<1>8. \A o \in Obligation : DebtKept(m, o)
  BY <1>1, <1>2, <1>5, <1>7, DebtThinned
<1>9. \A r \in Request : RequestKept(m, r)
  BY <1>1, <1>2, <1>3, <1>5, RequestThinned
<1>10. ASSUME NEW i \in Indexes(d), m.activations[i].status \in Live PROVE Stays(d, m, i)
  <2>1. d.activations[i].actor \in Actor \ {a}
    BY <1>1, <1>2, <1>10, LedgerFields DEF Row
  <2> QED BY <1>2, <2>1 DEF Stays
<1>11. \A n \in m.incidents : n.nudge \in Indexes(d)
  BY <1>1, <1>2
<1>12. ASSUME NEW o \in Obligation \ DebtsOf(d, a) PROVE Settled(m, o)
  <2>1. CASE d.obligation[o].status # "open"
    BY <1>2, <2>1 DEF Settled
  <2>2. CASE Assignee[o] # a
    <3>1. m.generation[Assignee[o]] = d.generation[Assignee[o]]
      BY <1>2, <2>2, LedgerConstants
    <3> QED BY <1>1, <1>2, <3>1, SettledThinned
  <2> QED BY <2>1, <2>2 DEF DebtsOf
<1>13. GoodBut(m, DebtsOf(d, a))
  <2> HIDE DEF DebtsOf
  <2>1. \A o \in Obligation \ DebtsOf(d, a) : Settled(m, o)
    BY <1>12
  <2>2. \A o \in Obligation :
            \/ SameNotices(d, m, o)
            \/ \A i \in Indexes(d) : d.activations[i].marks.obligation = o => NoticeKept(m, i)
    BY <1>7
  <2> QED BY <1>2, <1>5, <1>6, <1>8, <1>9, <1>10, <1>11, <2>1, <2>2, ThinnedGood
<1>14. ASSUME NEW i \in Indexes(d), d.activations[i].actor = a
       PROVE  m.activations[i].endpoint # m.generation[a]
  <2>1. d.activations[i].endpoint <= d.generation[a] /\ d.activations[i].endpoint \in Nat
    BY <1>1, <1>14, LedgerFields DEF Addressed, Row
  <2>2. m.activations[i].endpoint = d.activations[i].endpoint
    BY <1>2 DEF Thinned
  <2> QED BY <1>2, <1>4, <2>1, <2>2
<1>15. ASSUME NEW r \in Request, ReturnActor[r] = a PROVE ~Held0(m, r)
  <2>1. d.request[r].reply # 0 => d.request[r].reply \in Indexes(d)
    BY <1>1 DEF RequestKept
  <2> QED BY <1>2, <1>14, <1>15, <2>1 DEF Held0, ActiveCurrent, Thinned
<1>16. ASSUME NEW r \in Request PROVE PhaseOf(m, r) = PhaseOf(d, r) /\ (HeldOf(m, r) => HeldOf(d, r))
  <2>1. PhaseOf(m, r) = PhaseOf(d, r)
    BY <1>2 DEF PhaseOf
  <2>2. ASSUME DebtOf[r] # None, m.obligation[DebtOf[r]].status = "open", CurrentClaim(m, DebtOf[r]) # 0
        PROVE  HeldOf(d, r)
    <3> DEFINE o == DebtOf[r]
               i == d.obligation[o].claim
    <3>1. o \in Obligation /\ Assignee[o] \in Actor
      BY <2>2, LedgerConstants
    <3> HIDE DEF o
    <3>2. /\ i # 0 /\ m.activations[i].status = "claimed" /\ m.activations[i].actor = Assignee[o]
          /\ m.activations[i].generation = d.obligation[o].generation
          /\ m.activations[i].endpoint = m.generation[Assignee[o]]
      BY <1>2, <2>2 DEF CurrentClaim, o
    <3>3. i \in Indexes(d)
      BY <1>1, <3>1, <3>2 DEF DebtKept
    <3>4. /\ d.activations[i].status = "claimed" /\ d.activations[i].actor = Assignee[o]
          /\ d.activations[i].generation = d.obligation[o].generation
          /\ d.activations[i].endpoint = m.generation[Assignee[o]]
      BY <1>2, <3>2, <3>3 DEF Thinned
    <3>5. Assignee[o] # a
      BY <1>14, <3>2, <3>3, <3>4
    <3>6. d.activations[i].endpoint = d.generation[Assignee[o]]
      BY <1>2, <3>1, <3>4, <3>5
    <3>7. CurrentClaim(d, o) # 0
      BY <3>2, <3>4, <3>6 DEF CurrentClaim
    <3> QED BY <1>2, <2>2, <3>7 DEF HeldOf, o
  <2>3. ASSUME m.request[r].status = "reply_ready", Held0(m, r),
               m.activations[m.request[r].reply].status = "claimed"
        PROVE  HeldOf(d, r)
    <3> DEFINE i == d.request[r].reply
    <3>1. ReturnActor[r] # a /\ ReturnActor[r] \in Actor
      BY <1>15, <2>3, LedgerConstants
    <3>2. /\ i # 0 /\ m.activations[i].actor = ReturnActor[r] /\ m.activations[i].reason = "request_reply"
          /\ m.activations[i].endpoint = m.generation[ReturnActor[r]]
          /\ m.activations[i].status = "claimed"
      BY <1>2, <2>3 DEF Held0, ActiveCurrent
    <3>3. i \in Indexes(d)
      BY <1>1, <3>2 DEF RequestKept
    <3>4. /\ d.activations[i].actor = ReturnActor[r] /\ d.activations[i].reason = "request_reply"
          /\ d.activations[i].endpoint = d.generation[ReturnActor[r]]
          /\ d.activations[i].status = "claimed"
      BY <1>2, <3>1, <3>2, <3>3 DEF Thinned
    <3> QED BY <1>2, <2>3, <3>2, <3>4 DEF HeldOf, Held0, ActiveCurrent, Active
  <2> QED BY <2>1, <2>2, <2>3 DEF HeldOf
<1>17. Loses(d, m)
  BY <1>16 DEF Loses
<1>18. \A i \in Indexes(m) : m.activations[i].actor = a => m.activations[i].status \notin Live
  BY <1>2, <1>3 DEF Thinned
<1>22. \A i \in Indexes(d) : d.activations[i].actor # a => m.activations[i].status = d.activations[i].status
  BY <1>1, BoundEffect DEF m
<1>19. Routes(d, m, DebtsFor(a), WorksOf(d, a))
  <2>1. ASSUME NEW o \in Obligation \ DebtsFor(a)
        PROVE  /\ SameNotices(d, m, o)
               /\ m.generation[Assignee[o]] = d.generation[Assignee[o]]
               /\ ContinuationAllowed(m, o) => ContinuationAllowed(d, o)
    <3>1. Assignee[o] \in Actor \ {a}
      BY LedgerConstants DEF DebtsFor
    <3>2. m.generation[Assignee[o]] = d.generation[Assignee[o]]
      BY <1>2, <3>1
    <3> QED BY <1>2, <1>7, <3>2 DEF ContinuationAllowed
  <2>2. ASSUME NEW w \in Work \ WorksOf(d, a)
        PROVE  m.work[w] = d.work[w] /\ m.generation[m.work[w].owner] = d.generation[d.work[w].owner]
    <3>1. d.work[w].owner \in Actor \ {a}
      BY <1>1, LedgerFields DEF WorkRow, WorksOf
    <3> QED BY <1>2, <3>1
  <2>3. ASSUME NEW i \in Indexes(d), d.activations[i].status \in Live, m.activations[i].status \notin Live
        PROVE  Spared(d, m, i, DebtsFor(a), WorksOf(d, a))
    <3> DEFINE x == d.activations[i]
    <3>1. x.actor = a
      BY <1>22, <2>3
    <3>2. Addressed(d, x) /\ None \notin Obligation
      BY <1>1, LedgerConstants
    <3>3. x.marks.obligation \in Obligation => x.marks.obligation \in DebtsFor(a)
      BY <3>1, <3>2 DEF Addressed, DebtsFor
    <3>4. x.work \in Work /\ x.actor = m.work[x.work].owner => x.work \in WorksOf(d, a)
      BY <1>2, <3>1 DEF WorksOf
    <3> QED BY <3>3, <3>4 DEF Spared
  <2> QED BY <1>1, <1>2, <2>1, <2>2, <2>3, ThinnedRoutes
<1>20. ASSUME NEW o \in DebtsFor(a)
       PROVE  Unclaimed(m, o) /\ (o \notin DebtsOf(d, a) => DebtRouted(m, o))
  <2>1. o \in Obligation /\ Assignee[o] = a /\ o # None
    BY LedgerConstants DEF DebtsFor
  <2>2. ASSUME NEW i \in Indexes(m), m.activations[i].marks.obligation = o
        PROVE  m.activations[i].endpoint # m.generation[a]
    <3>1. i \in Indexes(d) /\ d.activations[i].marks.obligation = o
      BY <1>2, <1>3, <2>2 DEF Thinned
    <3>2. d.activations[i].actor = a
      BY <1>1, <2>1, <3>1 DEF Addressed
    <3> QED BY <1>14, <3>1, <3>2
  <2>3. o \notin DebtsOf(d, a) => m.obligation[o].status # "open"
    BY <1>2, <2>1 DEF DebtsOf
  <2> QED BY <2>1, <2>2, <2>3 DEF Unclaimed, DebtRouted, Owed
<1>21. Tended(d, m, DebtsOf(d, a), a)
  BY <1>2, <1>19, <1>20 DEF Tended
<1> QED BY <1>2, <1>13, <1>15, <1>17, <1>18, <1>21 DEF m

\* The fold over the debts: those that wait for their turn in P, the replies of R still to send.
Rebound(d, e, P, R, a) ==
  /\ GoodBut(e, P) /\ Loses(d, e) /\ Onward(d, e) /\ Within(d, e) /\ e.work = d.work
  /\ \A o \in P : /\ e.obligation[o].status = "open"
                  /\ \A i \in Indexes(e) : e.activations[i].marks.obligation = o
                                              => e.activations[i].status \notin Live
  /\ \A r \in R : e.request[r].status = "reply_ready" /\ ~Held0(e, r)
  /\ Tended(d, e, P, a)
Reassigned(e, o) ==
  RearmObligation([e EXCEPT !.obligation[o].generation = @ + 1, !.obligation[o].claim = 0], o)

LEMMA BumpGood ==
  ASSUME NEW d, NEW P, GoodBut(d, P), NEW o \in P, P \subseteq Obligation,
         d.obligation[o].status = "open",
         \A i \in Indexes(d) : d.activations[i].marks.obligation = o => d.activations[i].status \notin Live,
         NEW m \in Ledgers, OnlyDebt(d, m, o), m.obligation[o].claim = 0,
         m.obligation[o].status = "open", m.obligation[o].generation = d.obligation[o].generation + 1
  PROVE  GoodBut(m, P \ {o}) /\ Loses(d, m)
<1>1. /\ d \in Ledgers
      /\ \A w \in Work : WorkKept(d, w)
      /\ \A p \in Obligation : DebtKept(d, p)
      /\ \A p \in Obligation \ P : Settled(d, p)
      /\ \A r \in Request : RequestKept(d, r)
      /\ \A i \in Indexes(d) : Addressed(d, d.activations[i])
      /\ \A n \in d.incidents : n.nudge \in Indexes(d)
  BY GoodParts
<1>2. /\ m.generation = d.generation /\ m.work = d.work /\ m.wait = d.wait /\ m.handled = d.handled
      /\ m.replays = d.replays /\ m.armed = d.armed
      /\ m.assignment = d.assignment /\ m.request = d.request /\ m.results = d.results
      /\ m.activations = d.activations /\ m.incidents = d.incidents
      /\ \A p \in Obligation \ {o} : m.obligation[p] = d.obligation[p]
  BY DEF OnlyDebt
<1>3. o \in Obligation /\ o # None
  BY LedgerConstants
<1>4. Outcomes(m) = Outcomes(d) /\ Indexes(m) = Indexes(d)
  BY <1>2 DEF Outcomes, Indexes
<1>5. Thinned(d, m)
  BY <1>2, ThinnedSame
<1>6. \A p \in Obligation : d.obligation[p].generation \in Nat
  BY <1>1, LedgerFields DEF DebtRow
<1>7. Grown(d, m)
  <2>1. \A b \in Actor : d.generation[b] \in Nat
    BY <1>1, LedgerFields
  <2>2. ASSUME NEW p \in Obligation, d.obligation[p].status # "none"
        PROVE  m.obligation[p].status # "none" /\ d.obligation[p].generation <= m.obligation[p].generation
    <3>1. CASE p = o
      BY <1>3, <1>6, <3>1
    <3>2. CASE p # o
      BY <1>2, <1>6, <2>2, <3>2
    <3> QED BY <3>1, <3>2
  <2> QED BY <1>2, <2>1, <2>2 DEF Grown
<1>8. \A w \in Work : WorkKept(m, w)
  BY <1>1, <1>2 DEF WorkKept, PendingReplays
<1>9. ASSUME NEW p \in Obligation PROVE DebtKept(m, p)
  <2>1. CASE p = o
    BY <1>1, <1>2, <1>3, <2>1 DEF DebtKept
  <2>2. CASE p # o
    <3>1. SameNotices(d, m, p)
      BY <1>2, <2>2 DEF SameNotices
    <3> QED BY <1>1, <1>5, <1>7, <3>1, DebtThinned
  <2> QED BY <2>1, <2>2
<1>10. ASSUME NEW r \in Request PROVE RequestKept(m, r)
  <2>1. DebtOf[r] # None => m.obligation[DebtOf[r]].status = d.obligation[DebtOf[r]].status
    BY <1>2, LedgerConstants
  <2> QED BY <1>1, <1>2, <1>4, <1>5, <1>7, <2>1, RequestThinned
<1>11. ASSUME NEW i \in Indexes(d), d.activations[i].marks.obligation = o PROVE ~Current(m, i, o)
  <2>1. d.activations[i].generation <= d.obligation[o].generation
    BY <1>1, <1>3, <1>11 DEF Addressed
  <2>2. d.activations[i].generation \in Nat
    BY <1>1, LedgerFields DEF Row
  <2> QED BY <1>2, <1>3, <1>6, <2>1, <2>2 DEF Current
<1>12. ASSUME NEW p \in Obligation
       PROVE  \/ SameNotices(d, m, p)
              \/ \A i \in Indexes(d) : d.activations[i].marks.obligation = p => NoticeKept(m, i)
  <2>1. CASE p = o
    BY <1>2, <1>11, <2>1 DEF NoticeKept
  <2>2. CASE p # o
    BY <1>2, <2>2 DEF SameNotices
  <2> QED BY <2>1, <2>2
<1>13. ASSUME NEW i \in Indexes(d), m.activations[i].status \in Live PROVE Stays(d, m, i)
  <2>1. d.activations[i].marks.obligation \in (Obligation \cup {None}) \ {o}
    BY <1>1, <1>2, <1>13, LedgerFields DEF Row, Marks
  <2> QED BY <1>2, <2>1 DEF Stays
<1>14. ASSUME NEW p \in Obligation \ (P \ {o}) PROVE Settled(m, p)
  <2>1. CASE p = o
    BY <1>2, <1>4, <1>11, <2>1 DEF Settled, Current
  <2>2. CASE p # o
    BY <1>1, <1>2, <1>5, <2>2, SettledThinned
  <2> QED BY <2>1, <2>2
<1>15. \A n \in m.incidents : n.nudge \in Indexes(d)
  BY <1>1, <1>2
<1>16. GoodBut(m, P \ {o})
  <2> DEFINE Q == P \ {o}
  <2>1. \A p \in Obligation \ Q : Settled(m, p)
    BY <1>14
  <2> HIDE DEF Q
  <2>2. GoodBut(m, Q)
    BY <1>5, <1>7, <1>8, <1>9, <1>10, <1>12, <1>13, <1>15, <2>1, ThinnedGood
  <2> QED BY <2>2 DEF Q
<1>17. ASSUME NEW r \in Request PROVE PhaseOf(m, r) = PhaseOf(d, r) /\ (HeldOf(m, r) => HeldOf(d, r))
  <2>1. PhaseOf(m, r) = PhaseOf(d, r)
    BY <1>2 DEF PhaseOf
  <2>2. Held0(m, r) <=> Held0(d, r)
    BY <1>2 DEF Held0, ActiveCurrent
  <2>3. CASE DebtOf[r] = o
    <3>1. CurrentClaim(m, o) = 0
      BY DEF CurrentClaim
    <3> QED BY <1>2, <2>1, <2>2, <2>3, <3>1 DEF HeldOf
  <2>4. CASE DebtOf[r] # o
    <3>1. DebtOf[r] # None => m.obligation[DebtOf[r]] = d.obligation[DebtOf[r]]
      BY <1>2, <2>4, LedgerConstants
    <3> QED BY <1>2, <2>1, <2>2, <3>1 DEF HeldOf, CurrentClaim
  <2> QED BY <2>3, <2>4
<1> QED BY <1>16, <1>17 DEF Loses

LEMMA ReassignedKeeps ==
  ASSUME NEW d, NEW e, NEW a, NEW P, P \subseteq DebtsFor(a), NEW R, R \subseteq Request, Rebound(d, e, P, R, a),
         NEW o \in P
  PROVE  Rebound(d, Reassigned(e, o), P \ {o}, R, a)
<1> DEFINE m == [e EXCEPT !.obligation[o].generation = @ + 1, !.obligation[o].claim = 0]
           f == RearmObligation(m, o)
           Q == P \ {o}
<1>1. Reassigned(e, o) = f
  BY DEF Reassigned
<1>2. /\ GoodBut(e, P) /\ Loses(d, e) /\ Onward(d, e) /\ Within(d, e) /\ e.work = d.work
      /\ \A p \in P : /\ e.obligation[p].status = "open"
                      /\ \A i \in Indexes(e) : e.activations[i].marks.obligation = p
                                                  => e.activations[i].status \notin Live
      /\ \A r \in R : e.request[r].status = "reply_ready" /\ ~Held0(e, r)
      /\ Tended(d, e, P, a)
  BY DEF Rebound
<1>3. e \in Ledgers /\ o \in Obligation /\ P \subseteq Obligation
  BY <1>2, GoodParts DEF DebtsFor
<1>4. /\ m \in Ledgers /\ OnlyDebt(e, m, o) /\ m.obligation[o].claim = 0
      /\ m.obligation[o].status = e.obligation[o].status
      /\ m.obligation[o].generation = e.obligation[o].generation + 1
  BY <1>3, BumpWrite
<1> HIDE DEF m
<1>5. GoodBut(m, Q) /\ Loses(e, m)
  <2>1. m.obligation[o].status = "open" /\ e.obligation[o].status = "open"
    BY <1>2, <1>4
  <2> QED BY <1>2, <1>3, <1>4, <2>1, BumpGood
<1>6. /\ m.activations = e.activations /\ m.work = e.work /\ m.request = e.request
      /\ m.generation = e.generation
      /\ \A p \in Obligation \ {o} : m.obligation[p] = e.obligation[p]
  BY <1>4 DEF OnlyDebt
<1>7. Loses(d, m) /\ Onward(d, m)
  <2>1. Onward(d, m)
    BY <1>2, <1>6, ThinnedSame
  <2>2. Loses(d, m)
    BY <1>2, <1>5 DEF Loses
  <2> QED BY <2>1, <2>2
<1>8. m.obligation[o].status = "open" /\ o \in Obligation \ Q
  BY <1>2, <1>3, <1>4
<1> HIDE DEF Q
<1>9. Keeps(m, f, Q)
  BY <1>5, <1>8, RearmObligationKeeps
<1>10. f \in About(m, o)
  BY <1>3, <1>4, RearmAbout
<1>18. DebtRouted(f, o)
  BY <1>5, <1>8, RearmRoutes
<1> HIDE DEF f
<1>11. GoodBut(f, Q) /\ Loses(d, f) /\ Onward(d, f)
  BY <1>5, <1>7, <1>9, LosesKeeps
<1>12. Frame(m, f) /\ OnlyAbout(m, f, o) /\ f \in Ledgers /\ \A r \in Request : RequestExtends(m, f, r)
  BY <1>9, <1>10 DEF Keeps, Extends, About
<1>13. f.work = d.work /\ f.generation = m.generation
  BY <1>2, <1>6, <1>12 DEF Frame
<1>14. ASSUME NEW p \in Q
       PROVE  /\ f.obligation[p].status = "open"
              /\ \A i \in Indexes(f) : f.activations[i].marks.obligation = p
                                          => f.activations[i].status \notin Live
  <2>1. p \in P /\ p # o /\ p \in Obligation
    BY <1>3 DEF Q
  <2>2. f.obligation[p] = e.obligation[p]
    BY <1>6, <1>12, <2>1 DEF Frame
  <2>3. ASSUME NEW i \in Indexes(f), f.activations[i].marks.obligation = p
        PROVE  f.activations[i].status \notin Live
    <3>1. i \in Indexes(m) /\ f.activations[i] = m.activations[i]
      BY <1>12, <2>1, <2>3 DEF OnlyAbout, Added
    <3>2. i \in Indexes(e) /\ f.activations[i] = e.activations[i]
      BY <1>6, <3>1 DEF Indexes
    <3> QED BY <1>2, <2>1, <2>3, <3>2
  <2> QED BY <1>2, <2>1, <2>2, <2>3
<1>15. ASSUME NEW r \in R PROVE f.request[r].status = "reply_ready" /\ ~Held0(f, r)
  <2>1. r \in Request /\ m.request[r].status = "reply_ready" /\ RequestKept(m, r)
    BY <1>2, <1>5, <1>6, GoodParts
  <2>2. f.request[r].status = "reply_ready" /\ f.request[r].reply = m.request[r].reply
    BY <1>12, <2>1 DEF RequestExtends, OnlyAbout
  <2>3. m.request[r].reply # 0 => f.activations[m.request[r].reply] = m.activations[m.request[r].reply]
    BY <1>12, <2>1 DEF RequestKept, OnlyAbout, Added
  <2>4. ~Held0(m, r)
    BY <1>2, <1>6 DEF Held0, ActiveCurrent
  <2> QED BY <1>13, <2>2, <2>3, <2>4 DEF Held0, ActiveCurrent
<1>16. Within(d, f)
  BY <1>2, <1>6, <1>13, WithinThen
<1>19. Routes(e, f, {o}, {})
  <2>1. Routes(e, m, {o}, {})
    <3>1. Thinned(e, m)
      BY <1>6, ThinnedSame
    <3>2. \A p \in Obligation \ {o} :
            /\ SameNotices(e, m, p)
            /\ m.generation[Assignee[p]] = e.generation[Assignee[p]]
            /\ ContinuationAllowed(m, p) => ContinuationAllowed(e, p)
      BY <1>4 DEF OnlyDebt, SameNotices, ContinuationAllowed
    <3>3. e.stopped \subseteq m.stopped
      BY <1>4 DEF OnlyDebt
    <3> QED BY <1>3, <1>4, <1>6, <3>1, <3>2, <3>3, ThinnedRoutes
  <2>2. Routes(m, f, {o}, {})
    BY <1>4, <1>9, KeepsRoutes
  <2> QED BY <2>1, <2>2, RoutesThen
<1>20. ASSUME NEW p \in DebtsFor(a)
       PROVE  Unclaimed(f, p) /\ (p \notin Q => DebtRouted(f, p))
  <2>1. p \in Obligation /\ Unclaimed(e, p) /\ (p \notin P => DebtRouted(e, p))
    BY <1>2 DEF Tended, DebtsFor
  <2>2. ASSUME NEW i \in Indexes(f), f.activations[i].status = "claimed"
        PROVE  i \in Indexes(e) /\ f.activations[i] = e.activations[i]
    <3>1. i \in Indexes(m) /\ f.activations[i] = m.activations[i]
      BY <1>12, <2>2 DEF OnlyAbout, Added
    <3> QED BY <1>6, <3>1 DEF Indexes
  <2>3. Unclaimed(f, p)
    BY <1>6, <1>13, <2>1, <2>2 DEF Unclaimed
  <2>4. ASSUME p \notin Q PROVE DebtRouted(f, p)
    <3>1. CASE p = o
      BY <1>18, <3>1
    <3>2. CASE p # o
      <4>1. p \notin P
        BY <2>4, <3>2 DEF Q
      <4> QED BY <1>19, <2>1, <3>2, <4>1 DEF Routes
    <3> QED BY <3>1, <3>2
  <2> QED BY <2>3, <2>4
<1>21. Tended(d, f, Q, a)
  <2>1. Routes(d, e, DebtsFor(a), WorksOf(d, a)) /\ e.stopped = d.stopped
    BY <1>2 DEF Tended
  <2>2. o \in DebtsFor(a)
    OBVIOUS
  <2>3. Routes(e, f, DebtsFor(a), WorksOf(d, a))
    BY <1>19, <2>2 DEF Routes
  <2>4. f.stopped = d.stopped
    BY <1>4, <1>12, <2>1 DEF OnlyDebt, Frame
  <2>5. Routes(d, f, DebtsFor(a), WorksOf(d, a))
    BY <2>1, <2>3, RoutesThen
  <2> QED BY <1>20, <2>4, <2>5 DEF Tended
<1>17. Rebound(d, f, Q, R, a)
  BY <1>11, <1>13, <1>14, <1>15, <1>16, <1>21 DEF Rebound
<1> QED BY <1>1, <1>17 DEF Q

LEMMA ReassignmentsKeep ==
  ASSUME NEW d, NEW m \in Ledgers, NEW a, NEW debts \in SUBSET DebtsFor(a), NEW R \in SUBSET Request,
         Rebound(d, m, debts, R, a)
  PROVE  Rebound(d, FoldSet(LAMBDA o, e : Reassigned(e, o), m, debts), {}, R, a)
<1> DEFINE H(e, o) == Reassigned(e, o)
           S == debts
           L == Ledgers
           J(s) == {e \in Ledgers : Rebound(d, e, debts \ s, R, a)}
           M == [s \in SUBSET S |-> J(s)]
           F == [p \in S \X L |-> IF H(p[2], p[1]) \in L THEN H(p[2], p[1]) ELSE m]
           step(h) == [s \in SUBSET S |-> IF s = {} THEN m ELSE H(h[s \ {Pick(s)}], Pick(s))]
           iter == CHOOSE h : h = step(h)
<1>1. IsFiniteSet(S)
  <2>1. debts \subseteq Obligation
    BY DEF DebtsFor
  <2> QED BY <2>1, LedgerConstants, FS_Subset
<1>2. m \in L /\ m \in J({}) /\ \A s \in SUBSET S : J(s) \subseteq L
  <2>1. debts \ {} = debts
    OBVIOUS
  <2> QED BY <2>1
<1>3. ASSUME NEW s \in SUBSET S, NEW o \in s, NEW e \in J(s \ {o})
      PROVE  H(e, o) \in J(s)
  <2>1. e \in Ledgers /\ Rebound(d, e, debts \ (s \ {o}), R, a)
    OBVIOUS
  <2> DEFINE P == debts \ (s \ {o})
  <2>2. P \subseteq DebtsFor(a) /\ o \in P /\ P \ {o} = debts \ s
    OBVIOUS
  <2>3. Rebound(d, e, P, R, a) /\ R \subseteq Request
    BY <2>1
  <2> HIDE DEF P
  <2>4. Rebound(d, Reassigned(e, o), P \ {o}, R, a)
    BY <2>2, <2>3, ReassignedKeeps
  <2>5. Rebound(d, Reassigned(e, o), debts \ s, R, a)
    BY <2>2, <2>4
  <2>6. Reassigned(e, o) \in Ledgers
    BY <2>5 DEF Rebound, GoodBut, Good
  <2> QED BY <2>5, <2>6
<1> HIDE DEF H, L, S, J
<1>4. StepsAlong(S, L, M, F)
  <2>1. F \in [S \X L -> L]
    BY <1>2
  <2>2. M \in [SUBSET S -> SUBSET L]
    BY <1>2
  <2>3. ASSUME NEW s \in SUBSET S, NEW o \in s, NEW e \in M[s \ {o}] PROVE F[<<o, e>>] \in M[s]
    <3>1. e \in J(s \ {o}) /\ s \ {o} \in SUBSET S
      BY <2>3
    <3>2. H(e, o) \in J(s) /\ H(e, o) \in L /\ e \in L /\ o \in S
      BY <1>2, <1>3, <3>1
    <3>3. M[s] = J(s)
      OBVIOUS
    <3> HIDE DEF M
    <3> QED BY <3>2, <3>3
  <2> HIDE DEF F, M
  <2> QED BY <2>1, <2>2, <2>3 DEF StepsAlong
<1>5. PICK g : (\A s \in SUBSET S : g[s] \in M[s]) /\ FoldOf(g, S, F, m)
  <2>1. m \in M[{}]
    BY <1>2
  <2> HIDE DEF F, M
  <2> QED BY <1>1, <2>1, <1>4, FoldAlong DEF FoldsAlong
<1>6. g = step(g)
  <2>1. ASSUME NEW s \in SUBSET S, s # {}
        PROVE  F[<<Pick(s), g[s \ {Pick(s)}]>>] = H(g[s \ {Pick(s)}], Pick(s))
    <3>1. Pick(s) \in s /\ s \ {Pick(s)} \in SUBSET S
      BY <2>1, PickIn
    <3>2. g[s \ {Pick(s)}] \in J(s \ {Pick(s)})
      BY <1>5, <3>1
    <3>3. H(g[s \ {Pick(s)}], Pick(s)) \in L /\ g[s \ {Pick(s)}] \in L
      BY <1>2, <1>3, <3>1, <3>2
    <3> QED BY <3>1, <3>3
  <2> HIDE DEF F
  <2> QED BY <1>5, <2>1 DEF FoldOf
<1>7. iter = step(iter)
  <2> HIDE DEF step
  <2> QED BY <1>6
<1> HIDE DEF iter
<1>8. iter[S] \in J(S)
  <2>1. iter[{}] = m /\ \A s \in SUBSET S : s # {} => iter[s] = H(iter[s \ {Pick(s)}], Pick(s))
    BY <1>7
  <2>2. \A s \in SUBSET S : M[s] = J(s)
    OBVIOUS
  <2> HIDE DEF step, M
  <2>3. ASSUME NEW s \in SUBSET S, s # {}, iter[s \ {Pick(s)}] \in M[s \ {Pick(s)}]
        PROVE  iter[s] \in M[s]
    <3>1. Pick(s) \in s /\ s \ {Pick(s)} \in SUBSET S
      BY <2>3, PickIn
    <3>2. iter[s \ {Pick(s)}] \in J(s \ {Pick(s)})
      BY <2>2, <2>3, <3>1
    <3>3. H(iter[s \ {Pick(s)}], Pick(s)) \in J(s)
      BY <1>3, <3>1, <3>2
    <3> QED BY <2>1, <2>2, <2>3, <3>3
  <2>4. iter[{}] \in M[{}]
    BY <1>2, <2>1, <2>2
  <2>5. \A s \in SUBSET S : iter[s] \in M[s]
    BY <1>1, <2>3, <2>4, FoldKeeps
  <2> QED BY <2>2, <2>5
<1>9. FoldSet(LAMBDA o, e : Reassigned(e, o), m, debts) = iter[S]
  BY DEF FoldSet, MapThenFoldSet, Pick, iter, S, H
<1>10. S \ S = {} /\ debts = S
  BY DEF S
<1>11. iter[S] \in {e \in Ledgers : Rebound(d, e, S \ S, R, a)}
  BY <1>8, <1>10 DEF J
<1>12. Rebound(d, iter[S], {}, R, a)
  BY <1>10, <1>11
<1> QED BY <1>9, <1>12

LEMMA RepliesKeep ==
  ASSUME NEW d, NEW P, GoodBut(d, P), NEW replies \in SUBSET Request,
         \A r \in replies : d.request[r].status = "reply_ready" /\ ~Held0(d, r)
  PROVE  Keeps(d, FoldSet(LAMBDA r, e : SendReply(e, r, {}), d, replies), P)
<1> DEFINE H(e, r) == SendReply(e, r, {})
           S == replies
           L == Kept(d, P)
           J(s) == {e \in Kept(d, P) : \A p \in replies \ s : e.request[p].status = "reply_ready" /\ ~Held0(e, p)}
           M == [s \in SUBSET S |-> J(s)]
           F == [p \in S \X L |-> IF H(p[2], p[1]) \in L THEN H(p[2], p[1]) ELSE d]
           step(h) == [s \in SUBSET S |-> IF s = {} THEN d ELSE H(h[s \ {Pick(s)}], Pick(s))]
           iter == CHOOSE h : h = step(h)
<1>1. IsFiniteSet(S)
  BY LedgerConstants, FS_Subset
<1>2. d \in L /\ d \in J({}) /\ \A s \in SUBSET S : J(s) \subseteq L
  BY KeptSelf
<1>3. ASSUME NEW s \in SUBSET S, NEW r \in s, NEW e \in J(s \ {r})
      PROVE  H(e, r) \in J(s)
  <2>1. /\ GoodBut(e, P) /\ e \in Kept(d, P)
        /\ \A p \in replies \ (s \ {r}) : e.request[p].status = "reply_ready" /\ ~Held0(e, p)
    BY KeptGood
  <2>2. {} \in SUBSET Outcome /\ r \in Request /\ r \in replies
    OBVIOUS
  <2>3. e.request[r].status = "reply_ready" /\ ~Held0(e, r)
    BY <2>1, <2>2
  <2> DEFINE c == {}
  <2>4. c \in SUBSET Outcome /\ H(e, r) = SendReply(e, r, c)
    OBVIOUS
  <2> HIDE DEF H, c
  <2>7. /\ Keeps(e, SendReply(e, r, c), P)
        /\ \A p \in Request \ {r} : /\ SendReply(e, r, c).request[p] = e.request[p]
                                    /\ Held0(SendReply(e, r, c), p) <=> Held0(e, p)
    BY <2>1, <2>2, <2>3, <2>4, SendReplyKeeps
  <2>5. H(e, r) \in Kept(d, P)
    BY <2>1, <2>4, <2>7, KeptStep
  <2>6. \A p \in replies \ s : p \in Request \ {r} /\ p \in replies \ (s \ {r})
    OBVIOUS
  <2>8. \A p \in replies \ s : H(e, r).request[p].status = "reply_ready" /\ ~Held0(H(e, r), p)
    BY <2>1, <2>4, <2>6, <2>7
  <2> QED BY <2>5, <2>8
<1> HIDE DEF H, L, S, J
<1>4. StepsAlong(S, L, M, F)
  <2>1. F \in [S \X L -> L]
    BY <1>2
  <2>2. M \in [SUBSET S -> SUBSET L]
    BY <1>2
  <2>3. ASSUME NEW s \in SUBSET S, NEW r \in s, NEW e \in M[s \ {r}] PROVE F[<<r, e>>] \in M[s]
    <3>1. e \in J(s \ {r}) /\ s \ {r} \in SUBSET S
      BY <2>3
    <3>2. H(e, r) \in J(s) /\ H(e, r) \in L /\ e \in L /\ r \in S
      BY <1>2, <1>3, <3>1
    <3>3. M[s] = J(s)
      OBVIOUS
    <3> HIDE DEF M
    <3> QED BY <3>2, <3>3
  <2> HIDE DEF F, M
  <2> QED BY <2>1, <2>2, <2>3 DEF StepsAlong
<1>5. PICK g : (\A s \in SUBSET S : g[s] \in M[s]) /\ FoldOf(g, S, F, d)
  <2>1. d \in M[{}]
    BY <1>2
  <2> HIDE DEF F, M
  <2> QED BY <1>1, <2>1, <1>4, FoldAlong DEF FoldsAlong
<1>6. g = step(g)
  <2>1. ASSUME NEW s \in SUBSET S, s # {}
        PROVE  F[<<Pick(s), g[s \ {Pick(s)}]>>] = H(g[s \ {Pick(s)}], Pick(s))
    <3>1. Pick(s) \in s /\ s \ {Pick(s)} \in SUBSET S
      BY <2>1, PickIn
    <3>2. g[s \ {Pick(s)}] \in J(s \ {Pick(s)})
      BY <1>5, <3>1
    <3>3. H(g[s \ {Pick(s)}], Pick(s)) \in L /\ g[s \ {Pick(s)}] \in L
      BY <1>2, <1>3, <3>1, <3>2
    <3> QED BY <3>1, <3>3
  <2> HIDE DEF F
  <2> QED BY <1>5, <2>1 DEF FoldOf
<1>7. iter = step(iter)
  <2> HIDE DEF step
  <2> QED BY <1>6
<1> HIDE DEF iter
<1>8. iter[S] \in J(S)
  <2>1. iter[{}] = d /\ \A s \in SUBSET S : s # {} => iter[s] = H(iter[s \ {Pick(s)}], Pick(s))
    BY <1>7
  <2>2. \A s \in SUBSET S : M[s] = J(s)
    OBVIOUS
  <2> HIDE DEF step, M
  <2>3. ASSUME NEW s \in SUBSET S, s # {}, iter[s \ {Pick(s)}] \in M[s \ {Pick(s)}]
        PROVE  iter[s] \in M[s]
    <3>1. Pick(s) \in s /\ s \ {Pick(s)} \in SUBSET S
      BY <2>3, PickIn
    <3>2. iter[s \ {Pick(s)}] \in J(s \ {Pick(s)})
      BY <2>2, <2>3, <3>1
    <3>3. H(iter[s \ {Pick(s)}], Pick(s)) \in J(s)
      BY <1>3, <3>1, <3>2
    <3> QED BY <2>1, <2>2, <2>3, <3>3
  <2>4. iter[{}] \in M[{}]
    BY <1>2, <2>1, <2>2
  <2>5. \A s \in SUBSET S : iter[s] \in M[s]
    BY <1>1, <2>3, <2>4, FoldKeeps
  <2> QED BY <2>2, <2>5
<1>9. FoldSet(LAMBDA r, e : SendReply(e, r, {}), d, replies) = iter[S]
  BY DEF FoldSet, MapThenFoldSet, Pick, iter, S, H
<1> QED BY <1>8, <1>9, KeptGood DEF J, S

\* The owner's routes, created again for the new endpoint.
Renewals(d, a, works) ==
  FoldSet(LAMBDA w, e : IF e.work[w].mode = "continue"
                        THEN Create(e, w, a, "continue_checkpoint", 0, NoMarks)
                        ELSE EvaluateWait(e, w), d, works)

LEMMA RenewalsKeep ==
  ASSUME NEW d, NEW P, GoodBut(d, P), NEW a \in Actor, NEW works \in SUBSET Work,
         \A w \in works : d.work[w].owner = a
  PROVE  /\ Keeps(d, Renewals(d, a, works), P)
         /\ \A w \in works : OwnerRouted(Renewals(d, a, works), w)
<1> DEFINE H(e, w) == IF e.work[w].mode = "continue" THEN Create(e, w, a, "continue_checkpoint", 0, NoMarks)
                     ELSE EvaluateWait(e, w)
           S == works
           L == Kept(d, P)
           F == [p \in S \X L |-> H(p[2], p[1])]
           step(h) == [s \in SUBSET S |-> IF s = {} THEN d ELSE H(h[s \ {Pick(s)}], Pick(s))]
           iter == CHOOSE h : h = step(h)
<1>1. IsFiniteSet(S)
  BY LedgerConstants, FS_Subset
<1>2. d \in L
  BY KeptSelf
<1>3. ASSUME NEW w \in S, NEW e \in L PROVE H(e, w) \in L
  <2>1. Keeps(e, H(e, w), P)
    <3>1. GoodBut(e, P) /\ Frame(d, e) /\ w \in Work
      BY KeptGood
    <3>2. e.work[w].owner = a
      BY <3>1 DEF Frame
    <3>3. CASE e.work[w].mode = "continue"
      <4>1. Keeps(e, Create(e, w, e.work[w].owner, "continue_checkpoint", 0, NoMarks), P)
        BY <3>1, <3>3, ContinuationKeeps
      <4> QED BY <3>2, <3>3, <4>1
    <3>4. CASE e.work[w].mode # "continue"
      <4>1. Keeps(e, EvaluateWait(e, w), P)
        BY <3>1, EvaluateWaitKeeps
      <4> QED BY <3>4, <4>1
    <3> QED BY <3>3, <3>4
  <2> HIDE DEF H
  <2> QED BY <2>1, KeptStep
<1>4. StepsIn(S, L, F)
  BY <1>3 DEF StepsIn
<1>10. ASSUME NEW w \in S, NEW e \in L
       PROVE  OwnerRouted(H(e, w), w) /\ \A v \in S : OwnerRouted(e, v) => OwnerRouted(H(e, w), v)
  <2>1. GoodBut(e, P) /\ Frame(d, e) /\ w \in Work /\ e \in Ledgers
    BY KeptGood, GoodParts
  <2>2. e.work[w].owner = a
    BY <2>1 DEF Frame
  <2>3. CASE e.work[w].mode = "continue"
    <3> DEFINE f == Create(e, w, e.work[w].owner, "continue_checkpoint", 0, NoMarks)
    <3>1. H(e, w) = f
      BY <2>2, <2>3
    <3> HIDE DEF H, f
    <3>2. Keeps(e, f, P)
      BY <2>1, <2>3, ContinuationKeeps DEF f
    <3>3. "continue_checkpoint" \in OwnerControl /\ NoMarks \in Marks /\ e.work[w].owner \in Actor
      BY <2>2, MarksTyped DEF OwnerControl
    <3>4. OwnerRouted(f, w)
      BY <2>1, <3>3, OwnerCreated DEF f
    <3>5. Routes(e, f, {}, {})
      BY <2>1, <3>2, KeepsRoutes
    <3> QED BY <3>1, <3>4, <3>5 DEF Routes, S
  <2>4. CASE e.work[w].mode # "continue"
    <3> DEFINE f == EvaluateWait(e, w)
    <3>1. H(e, w) = f
      BY <2>4
    <3> HIDE DEF H, f
    <3>2. Keeps(e, f, P)
      BY <2>1, EvaluateWaitKeeps DEF f
    <3>3. f.work = e.work
      BY <3>2 DEF Keeps, Extends, Frame
    <3>4. OwnerRouted(f, w)
      BY <2>4, <3>3 DEF OwnerRouted, Continues
    <3>5. Routes(e, f, {}, {})
      BY <2>1, <3>2, KeepsRoutes
    <3> QED BY <3>1, <3>4, <3>5 DEF Routes, S
  <2> QED BY <2>3, <2>4
<1> DEFINE Q == [w \in S |-> {e \in L : OwnerRouted(e, w)}]
<1>11. \A w \in S : Q[w] = {e \in L : OwnerRouted(e, w)}
  OBVIOUS
<1> HIDE DEF H, L, S, Q
<1>5. PICK g : (\A s \in SUBSET S : g[s] \in L) /\ FoldOf(g, S, F, d)
  <2> HIDE DEF F
  <2> QED BY <1>1, <1>2, <1>4, FoldIn DEF FoldsIn
<1>6. g = step(g)
  BY <1>5, PickIn DEF FoldOf
<1>7. iter = step(iter)
  <2> HIDE DEF step
  <2> QED BY <1>6
<1> HIDE DEF iter
<1>8. iter[S] \in L /\ \A w \in S : iter[S] \in Q[w]
  <2>1. iter[{}] \in L /\ \A s \in SUBSET S : s # {} => iter[s] = H(iter[s \ {Pick(s)}], Pick(s))
    BY <1>2, <1>7
  <2> HIDE DEF step
  <2>2. ASSUME NEW s \in SUBSET S, s # {}, iter[s \ {Pick(s)}] \in L
        PROVE  /\ iter[s] \in L /\ iter[s] \in Q[Pick(s)]
               /\ \A w \in S : iter[s \ {Pick(s)}] \in Q[w] => iter[s] \in Q[w]
    <3> DEFINE e == iter[s \ {Pick(s)}]
               v == Pick(s)
    <3>1. v \in S /\ iter[s] = H(e, v) /\ e \in L
      BY <2>1, <2>2, PickIn
    <3> HIDE DEF e, v
    <3>2. H(e, v) \in L /\ OwnerRouted(H(e, v), v) /\ \A w \in S : OwnerRouted(e, w) => OwnerRouted(H(e, v), w)
      BY <1>3, <1>10, <3>1
    <3>3. /\ iter[s] \in L /\ iter[s] \in Q[v]
          /\ \A w \in S : e \in Q[w] => iter[s] \in Q[w]
      BY <1>11, <3>1, <3>2
    <3> QED BY <3>3 DEF e, v
  <2> QED BY <1>1, <2>1, <2>2, FoldReaches
<1>9. Renewals(d, a, works) = iter[S]
  BY DEF Renewals, FoldSet, MapThenFoldSet, Pick, iter, S, H
<1>12. iter[S] \in L /\ \A w \in works : OwnerRouted(iter[S], w)
  BY <1>8, <1>11 DEF S
<1> QED BY <1>9, <1>12, KeptGood DEF L


\* register_actor with a new endpoint.
LEMMA RegisterActorStep ==
  ASSUME GoodBut(ledger, {}), NEW a \in Actor, RegisterActor(a)
  PROVE  /\ GoodBut(ledger', {}) /\ Loses(ledger, ledger') /\ Onward(ledger, ledger')
         /\ Within(ledger, ledger') /\ Remembers(ledger, ledger')
<1> DEFINE d == ledger
           m == Bound(d, a)
           debts == DebtsOf(d, a)
           replies == {r \in Request : ReturnActor[r] = a /\ d.request[r].status = "reply_ready"
                                       /\ ~ExplicitStop(d, WorkOf[r], a)}
           works == {w \in Work : d.work[w].owner = a /\ d.work[w].mode # "complete"
                                  /\ ~ExplicitStop(d, w, a)}
           f == FoldSet(LAMBDA o, e : Reassigned(e, o), m, debts)
           g == FoldSet(LAMBDA r, e : SendReply(e, r, {}), f, replies)
           h == Renewals(g, a, works)
<1>1. ledger' = h
  BY DEF RegisterActor, Disrupt, Bound, DebtsOf, Reassigned, Renewals, Owner
<1>2. GoodBut(d, {}) /\ d.generation[a] < agenda.generations
  BY DEF d, RegisterActor
<1> HIDE DEF d
<1>3. d \in Ledgers
  BY <1>2, GoodParts
<1>4. /\ GoodBut(m, debts) /\ Loses(d, m) /\ Onward(d, m)
      /\ \A r \in Request : ReturnActor[r] = a => ~Held0(m, r)
      /\ \A i \in Indexes(m) : m.activations[i].actor = a => m.activations[i].status \notin Live
      /\ m.work = d.work /\ m.obligation = d.obligation /\ m.request = d.request
      /\ m.stopped = d.stopped /\ m.generation[a] = d.generation[a] + 1
      /\ \A b \in Actor \ {a} : m.generation[b] = d.generation[b]
      /\ Tended(d, m, debts, a)
  BY <1>2, BoundGood
<1> HIDE DEF m
<1>5. m \in Ledgers /\ \A i \in Indexes(m) : Addressed(m, m.activations[i])
  BY <1>4, GoodParts
<1>6. Rebound(d, m, debts, replies, a)
  <2>1. ASSUME NEW o \in debts
        PROVE  /\ m.obligation[o].status = "open"
               /\ \A i \in Indexes(m) : m.activations[i].marks.obligation = o
                                           => m.activations[i].status \notin Live
    <3>1. o \in Obligation /\ o # None /\ Assignee[o] = a /\ d.obligation[o].status = "open"
      BY LedgerConstants DEF DebtsOf
    <3> QED BY <1>4, <1>5, <3>1 DEF Addressed
  <2>2. \A r \in replies : m.request[r].status = "reply_ready" /\ ~Held0(m, r)
    BY <1>4
  <2>3. Within(d, m)
    BY <1>2, <1>4 DEF Within
  <2> HIDE DEF debts, replies
  <2> QED BY <1>4, <2>1, <2>2, <2>3 DEF Rebound
<1>7. debts \in SUBSET DebtsFor(a) /\ replies \in SUBSET Request /\ works \in SUBSET Work
  BY DEF DebtsOf, DebtsFor
<1>8. /\ \A w \in works : d.work[w].owner = a
      /\ \A w \in Work \ works : d.work[w].owner = a => d.work[w].mode = "complete" \/ ExplicitStop(d, w, a)
  OBVIOUS
<1> HIDE DEF debts, replies, works
<1>9. Rebound(d, f, {}, replies, a)
  BY <1>5, <1>6, <1>7, ReassignmentsKeep
<1> HIDE DEF f
<1>10. /\ GoodBut(f, {}) /\ Loses(d, f) /\ Onward(d, f) /\ Within(d, f) /\ f.work = d.work
       /\ \A r \in replies : f.request[r].status = "reply_ready" /\ ~Held0(f, r)
       /\ Tended(d, f, {}, a)
  BY <1>9 DEF Rebound
<1>11. Keeps(f, g, {})
  BY <1>7, <1>10, RepliesKeep
<1> HIDE DEF g
<1>12. GoodBut(g, {}) /\ Loses(d, g) /\ Onward(d, g)
  BY <1>10, <1>11, LosesKeeps
<1>13. \A w \in works : g.work[w].owner = a
  BY <1>8, <1>10, <1>11 DEF Keeps, Extends, Frame
<1>14. Keeps(g, h, {}) /\ \A w \in works : OwnerRouted(h, w)
  BY <1>7, <1>12, <1>13, RenewalsKeep
<1> HIDE DEF h
<1>15. GoodBut(h, {}) /\ Loses(d, h) /\ Onward(d, h)
  BY <1>12, <1>14, LosesKeeps
<1>16. Within(d, h)
  BY <1>10, <1>11, <1>14, WithinKeeps
<1>17. Routes(f, h, {}, {}) /\ Routes(f, h, DebtsFor(a), WorksOf(d, a))
  <2>1. f \in Ledgers
    BY <1>10, GoodParts
  <2>2. Keeps(f, h, {})
    BY <1>10, <1>11, <1>14, KeepsTransitive
  <2> QED BY <2>1, <2>2, KeepsRoutes
<1>18. ASSUME NEW o \in Obligation, o \in DebtsFor(a) PROVE DebtRouted(h, o) /\ InStep(h, o)
  <2>1. DebtRouted(f, o) /\ Unclaimed(f, o)
    BY <1>10, <1>18 DEF Tended
  <2>2. InStep(f, o)
    BY <2>1 DEF InStep, Unclaimed
  <2> QED BY <1>17, <2>1, <2>2 DEF Routes
<1>19. ASSUME NEW w \in Work, w \in WorksOf(d, a) PROVE OwnerRouted(h, w)
  <2>1. CASE w \in works
    BY <1>14, <2>1
  <2>2. CASE w \notin works
    <3>1. h.work = d.work /\ h.stopped = d.stopped
      BY <1>10, <1>11, <1>14 DEF Tended, Keeps, Extends, Frame
    <3>2. CASE d.work[w].owner = a
      <4>1. d.work[w].mode = "complete" \/ ExplicitStop(h, w, a)
        BY <1>8, <2>2, <3>1, <3>2 DEF ExplicitStop
      <4> QED BY <3>1, <3>2, <4>1 DEF OwnerRouted, Continues
    <3>3. CASE d.work[w].owner # a
      <4>1. WorkKept(d, w) /\ d.work[w].owner = None
        BY <1>2, <1>19, <3>3, GoodParts DEF WorksOf
      <4>2. d.work[w].mode = "none"
        BY <4>1, LedgerConstants DEF WorkKept
      <4> QED BY <3>1, <4>2 DEF OwnerRouted, Continues
    <3> QED BY <3>2, <3>3
  <2> QED BY <2>1, <2>2
<1>20. Remembers(d, h)
  <2>1. Routes(d, f, DebtsFor(a), WorksOf(d, a))
    BY <1>10 DEF Tended
  <2>2. Routes(d, h, DebtsFor(a), WorksOf(d, a))
    BY <1>17, <2>1, RoutesThen
  <2> QED BY <1>18, <1>19, <2>2, RoutesDone DEF Remembers
<1> QED BY <1>1, <1>15, <1>16, <1>20 DEF d

-----------------------------------------------------------------------------
(***************************************************************************)
(* A claim: one live row becomes claimed.                                  *)
(***************************************************************************)
\* The row is a notice of the assignment, not the recovery of its claim.
Engages(d, i, o) ==
  d.activations[i].marks.obligation = o /\ d.activations[i].reason \in AssignmentReasons

DebtTaken(d, e, o, i) ==
  IF Engages(d, i, o)
  THEN /\ d.obligation[o].claim = 0 /\ e.obligation[o].claim = i
       /\ e.obligation[o].status = d.obligation[o].status
       /\ e.obligation[o].generation = d.obligation[o].generation
  ELSE e.obligation[o] = d.obligation[o]

RequestTaken(d, e, r, i) ==
  /\ e.request[r].message = d.request[r].message /\ e.request[r].reply = d.request[r].reply
  /\ e.request[r].answered = d.request[r].answered
  /\ \/ e.request[r].status = d.request[r].status
     \/ /\ DebtOf[r] # None /\ e.request[r].status = "claimed"
        /\ d.request[r].status \in {"delivery_pending", "claimed"}
     \/ /\ DebtOf[r] = None /\ d.request[r].message = i
        /\ d.request[r].status = "delivery_pending" /\ e.request[r].status = "closed_no_reply"

TakenRows(d, e, i) ==
  /\ i \in Indexes(d) /\ Indexes(e) = Indexes(d)
  /\ d.activations[i].status \in Live /\ e.activations[i].status = "claimed"
  /\ \A j \in Indexes(d) \ {i} : e.activations[j] = d.activations[j]
  /\ \A j \in Indexes(d) :
       LET x == d.activations[j]
           y == e.activations[j]
       IN /\ y.work = x.work /\ y.actor = x.actor /\ y.revision = x.revision
          /\ y.endpoint = x.endpoint /\ y.generation = x.generation /\ y.reason = x.reason
          /\ y.marks = x.marks

Taken(d, e, i) ==
  /\ TakenRows(d, e, i)
  /\ e.generation = d.generation /\ e.work = d.work /\ e.wait = d.wait /\ e.handled = d.handled
  /\ e.replays = d.replays /\ e.armed = d.armed /\ e.assignment = d.assignment
  /\ e.results = d.results
  /\ \A n \in d.incidents : n.nudge # i => n \in e.incidents
  /\ \A n \in e.incidents : n.nudge \in Indexes(d)
  /\ \A o \in Obligation : DebtTaken(d, e, o, i)
  /\ \A r \in Request : RequestTaken(d, e, r, i)

LEMMA TakenDebts ==
  ASSUME NEW d, GoodBut(d, {}), NEW e \in Ledgers, NEW i, Taken(d, e, i), NEW o \in Obligation
  PROVE  /\ e.obligation[o].status = d.obligation[o].status
         /\ e.obligation[o].generation = d.obligation[o].generation
         /\ DebtKept(e, o) /\ Settled(e, o)
<1>1. /\ d \in Ledgers /\ DebtKept(d, o) /\ Settled(d, o)
      /\ LiveKept(d, i) /\ Addressed(d, d.activations[i])
  BY GoodParts DEF Taken, TakenRows
<1>2. DebtTaken(d, e, o, i) /\ TakenRows(d, e, i) /\ e.work = d.work /\ e.assignment = d.assignment
      /\ e.generation = d.generation
  BY DEF Taken
<1>3. /\ e.obligation[o].status = d.obligation[o].status
      /\ e.obligation[o].generation = d.obligation[o].generation
  BY <1>2 DEF DebtTaken
<1>4. ASSUME Engages(d, i, o) PROVE DebtKept(e, o)
  <2>1. e.obligation[o].claim = i /\ i \in Indexes(e) /\ o # None /\ i # 0
    BY <1>1, <1>2, <1>4, LedgerFields, LedgerConstants DEF DebtTaken, TakenRows
  <2>2. /\ e.activations[i].status = "claimed" /\ e.activations[i].marks.obligation = o
        /\ e.activations[i].reason \in AssignmentReasons
    BY <1>2, <1>4 DEF TakenRows, Engages
  <2>3. d.obligation[o].status = "open" /\ d.activations[i].generation = d.obligation[o].generation
    BY <1>1, <1>2, <1>4, <2>1 DEF LiveKept, TakenRows, Engages
  <2>4. e.activations[i].generation = e.obligation[o].generation
    BY <1>2, <1>3, <2>3 DEF TakenRows
  <2>5. d.work[WorkOf[o]].mode # "none"
    BY <1>1, <2>3 DEF DebtKept
  <2>6. DebtKept(e, o)
    BY <1>2, <1>3, <2>1, <2>2, <2>3, <2>4, <2>5 DEF DebtKept
  <2> QED BY <2>6
<1>5. ASSUME ~Engages(d, i, o) PROVE DebtKept(e, o)
  <2>1. e.obligation[o] = d.obligation[o]
    BY <1>2, <1>5 DEF DebtTaken
  <2> DEFINE k == d.obligation[o].claim
  <2>2. k # 0 => k \in Indexes(d) /\ e.activations[k] = d.activations[k]
    BY <1>1, <1>2 DEF DebtKept, TakenRows, Live
  <2>3. Indexes(e) = Indexes(d)
    BY <1>2 DEF TakenRows
  <2> QED BY <1>1, <1>2, <2>1, <2>2, <2>3 DEF DebtKept
<1>6. Settled(e, o)
  <2> SUFFICES ASSUME d.obligation[o].status = "open", NEW j \in Indexes(d),
                      Current(e, j, o), e.activations[j].status \in Active
               PROVE  e.activations[j].endpoint = d.generation[Assignee[o]]
    BY <1>2, <1>3 DEF Settled, TakenRows
  <2>1. Current(d, j, o) /\ e.activations[j].endpoint = d.activations[j].endpoint
    BY <1>2, <1>3 DEF Current, TakenRows
  <2>2. d.activations[j].status \in Active
    BY <1>2 DEF TakenRows, Active
  <2> QED BY <1>1, <2>1, <2>2 DEF Settled
<1> QED BY <1>3, <1>4, <1>5, <1>6

LEMMA TakenRequests ==
  ASSUME NEW d, GoodBut(d, {}), NEW e \in Ledgers, NEW i, Taken(d, e, i), NEW r \in Request
  PROVE  /\ RequestKept(e, r)
         /\ e.request[r].status = "none" <=> d.request[r].status = "none"
         /\ d.request[r].status = "reply_ready" => e.request[r] = d.request[r]
<1> DEFINE q == d.request[r]
           p == e.request[r]
           o == DebtOf[r]
<1>1. d \in Ledgers /\ RequestKept(d, r)
  BY GoodParts
<1>2. RequestTaken(d, e, r, i) /\ TakenRows(d, e, i) /\ e.work = d.work /\ e.results = d.results
  BY DEF Taken
<1>3. o # None => o \in Obligation /\ e.obligation[o].status = d.obligation[o].status
  BY TakenDebts, LedgerConstants
<1>4. q \in RequestRow /\ p \in RequestRow
  BY <1>1, LedgerFields
<1>5. p.status = "none" <=> q.status = "none"
  BY <1>2 DEF RequestTaken
<1>6. q.status \in {"reply_ready", "handled"} => p.status = q.status
  BY <1>2 DEF RequestTaken
<1>7. p.message = q.message /\ p.reply = q.reply /\ p.answered = q.answered
  BY <1>2 DEF RequestTaken
<1>8. q.status = "reply_ready" => p = q
  BY <1>4, <1>6, <1>7 DEF RequestRow
<1>9. Outcomes(e) = Outcomes(d)
  BY <1>2 DEF Outcomes
<1>10. p.status \in {"reply_ready", "handled"} => p.status = q.status
  BY <1>2 DEF RequestTaken
<1>11. q.reply # 0 =>
         /\ q.reply \in Indexes(e) /\ q.reply \in Indexes(d)
         /\ e.activations[q.reply].reason = d.activations[q.reply].reason
         /\ e.activations[q.reply].marks = d.activations[q.reply].marks
         /\ d.activations[q.reply].status = "claimed" => e.activations[q.reply].status = "claimed"
  BY <1>1, <1>2 DEF RequestKept, TakenRows
<1>13. q.message # 0 =>
         /\ q.message \in Indexes(e)
         /\ e.activations[q.message].marks.request = r
  BY <1>1, <1>2 DEF RequestKept, TakenRows
<1>12. RequestKept(e, r)
  <2>1. /\ q.status # "none" => d.work[WorkOf[r]].mode # "none"
        /\ q.answered <=> q.status \in {"reply_ready", "handled"}
        /\ o = None => q.status \in {"none", "delivery_pending", "closed_no_reply"}
        /\ o # None =>
             /\ q.status # "closed_no_reply"
             /\ q.status = "none" <=> d.obligation[o].status = "none"
             /\ q.answered <=> d.obligation[o].status = "resolved"
             /\ q.answered <=> <<o, "result">> \in Outcomes(d)
        /\ q.reply # 0 =>
             /\ q.answered /\ q.reply \in Indexes(d)
             /\ d.activations[q.reply].reason = "request_reply"
             /\ d.activations[q.reply].marks.request = r
        /\ q.status = "handled" => q.reply # 0 /\ d.activations[q.reply].status = "claimed"
    BY <1>1 DEF RequestKept
  <2>2. o = None => p.status \in {"none", "delivery_pending", "closed_no_reply"}
    BY <1>2, <2>1 DEF RequestTaken
  <2>3. o # None => p.status # "closed_no_reply"
    BY <1>2, <2>1 DEF RequestTaken
  <2> HIDE DEF q, p, o
  <2>4. /\ p.status # "none" => e.work[WorkOf[r]].mode # "none"
        /\ p.answered <=> p.status \in {"reply_ready", "handled"}
        /\ o # None =>
             /\ p.status # "closed_no_reply"
             /\ p.status = "none" <=> e.obligation[o].status = "none"
             /\ p.answered <=> e.obligation[o].status = "resolved"
             /\ p.answered <=> <<o, "result">> \in Outcomes(e)
    BY <1>2, <1>3, <1>5, <1>6, <1>7, <1>9, <1>10, <2>1, <2>3
  <2>5. /\ p.reply # 0 =>
             /\ p.answered /\ p.reply \in Indexes(e)
             /\ e.activations[p.reply].reason = "request_reply"
             /\ e.activations[p.reply].marks.request = r
        /\ p.status = "handled" => p.reply # 0 /\ e.activations[p.reply].status = "claimed"
    BY <1>7, <1>10, <1>11, <2>1
  <2>6. p.message # 0 =>
          p.message \in Indexes(e) /\ e.activations[p.message].marks.request = r
    BY <1>7, <1>13
  <2> QED BY <2>2, <2>4, <2>5, <2>6 DEF RequestKept, p, o
<1> QED BY <1>5, <1>8, <1>12

\* The other rows are about what the claim does not touch.
LEMMA TakenNotices ==
  ASSUME NEW d, GoodBut(d, {}), NEW e \in Ledgers, NEW i, Taken(d, e, i), NEW j \in Indexes(d)
  PROVE  NoticeKept(e, j)
<1> DEFINE x == d.activations[j]
           y == e.activations[j]
           o == x.marks.obligation
<1>1. /\ d \in Ledgers /\ NoticeKept(d, j) /\ x \in Row
      /\ \A p \in Obligation : DebtKept(d, p)
  BY GoodParts, LedgerFields
<1>2. TakenRows(d, e, i) /\ e.assignment = d.assignment /\ \A p \in Obligation : DebtTaken(d, e, p, i)
  BY DEF Taken
<1>3. y.reason = x.reason /\ y.marks = x.marks
  BY <1>2 DEF TakenRows
<1> SUFFICES ASSUME o # None PROVE NoticeKept(e, j)
  BY <1>3 DEF NoticeKept
<1>4. o \in Obligation
  BY <1>1 DEF Row, Marks
<1>5. /\ e.obligation[o].status = d.obligation[o].status
      /\ e.obligation[o].generation = d.obligation[o].generation
  BY <1>4, TakenDebts
<1>6. \A k \in Indexes(d) : /\ Current(e, k, o) <=> Current(d, k, o)
                            /\ e.activations[k].status \in Active <=> d.activations[k].status \in Active
                            /\ e.activations[k].reason = d.activations[k].reason
                            /\ k # i => e.activations[k] = d.activations[k]
  BY <1>2, <1>5 DEF Current, TakenRows, Active
<1>7. d.assignment[o].mode \in {"none", "paused", "continue", "waiting"}
  BY <1>1, <1>4, LedgerFields DEF AssignmentRow
<1>8. Indexes(e) = Indexes(d) /\ d.activations[i].status \in Live
  BY <1>2 DEF TakenRows
<1> SUFFICES ASSUME Current(e, j, o), d.obligation[o].status = "open", y.status \in Active
             PROVE  /\ y.status = "claimed" => e.obligation[o].claim = j
                    /\ CASE e.assignment[o].mode = "continue" -> y.reason = "assignment_continue"
                         [] e.assignment[o].mode = "waiting" -> y.reason = "assignment_wait_satisfied"
                         [] e.assignment[o].mode = "none" ->
                              y.reason \in {"obligation_assigned", "obligation_reminder", "request_message"}
                         [] e.assignment[o].mode = "paused" ->
                              y.status \in Live => y.reason = "assignment_paused_control"
                    /\ y.reason \in {"assignment_continue", "assignment_wait_satisfied"} =>
                         \A k \in Indexes(e) :
                           Current(e, k, o) /\ e.activations[k].status \in Active
                             /\ e.activations[k].reason = y.reason => k = j
  BY <1>3, <1>5 DEF NoticeKept
<1>9. /\ x.status = "claimed" => d.obligation[o].claim = j
      /\ CASE d.assignment[o].mode = "continue" -> x.reason = "assignment_continue"
           [] d.assignment[o].mode = "waiting" -> x.reason = "assignment_wait_satisfied"
           [] d.assignment[o].mode = "none" ->
                x.reason \in {"obligation_assigned", "obligation_reminder", "request_message"}
           [] d.assignment[o].mode = "paused" ->
                x.status \in Live => x.reason = "assignment_paused_control"
      /\ x.reason \in {"assignment_continue", "assignment_wait_satisfied"} =>
           \A k \in Indexes(d) :
             Current(d, k, o) /\ d.activations[k].status \in Active
               /\ d.activations[k].reason = x.reason => k = j
  <2>1. Current(d, j, o) /\ x.status \in Active
    BY <1>6
  <2> QED BY <1>1, <2>1 DEF NoticeKept
<1>10. y.status = "claimed" => e.obligation[o].claim = j
  <2> SUFFICES ASSUME y.status = "claimed" PROVE e.obligation[o].claim = j
    OBVIOUS
  <2>1. CASE j = i
    <3>1. Addressed(d, x) /\ Current(d, j, o)
      BY <1>6, GoodParts
    <3>2. Engages(d, i, o)
      BY <2>1, <3>1 DEF Addressed, Current, Engages
    <3> QED BY <1>2, <1>4, <2>1, <3>2 DEF DebtTaken
  <2>2. CASE j # i
    <3>1. d.obligation[o].claim = j
      BY <1>6, <1>9, <2>2
    <3>2. j # 0
      BY <1>1, LedgerFields
    <3> QED BY <1>2, <1>4, <3>1, <3>2 DEF DebtTaken
  <2> QED BY <2>1, <2>2
<1>11. y.status \in Live => x.status \in Live
  BY <1>2 DEF TakenRows
<1> HIDE DEF x, y, o
<1> QED BY <1>2, <1>3, <1>6, <1>7, <1>8, <1>9, <1>10, <1>11

LEMMA TakenAddressed ==
  ASSUME NEW d, GoodBut(d, {}), NEW e \in Ledgers, NEW i, Taken(d, e, i), NEW j \in Indexes(d)
  PROVE  Addressed(e, e.activations[j])
<1> DEFINE x == d.activations[j]
           y == e.activations[j]
           r == x.marks.request
           o == x.marks.obligation
<1>1. d \in Ledgers /\ Addressed(d, x) /\ x \in Row
  BY GoodParts, LedgerFields
<1>2. TakenRows(d, e, i) /\ e.generation = d.generation /\ e.work = d.work
  BY DEF Taken
<1>3. /\ y.work = x.work /\ y.actor = x.actor /\ y.endpoint = x.endpoint
      /\ y.generation = x.generation /\ y.reason = x.reason /\ y.marks = x.marks
  BY <1>2 DEF TakenRows
<1>4. r \in Request \cup {None} /\ o \in Obligation \cup {None}
  BY <1>1 DEF Row, Marks
<1>5. o # None => /\ e.obligation[o].status = d.obligation[o].status
                  /\ e.obligation[o].generation = d.obligation[o].generation
  BY <1>4, TakenDebts
<1>6. r # None => /\ e.request[r].status = "none" <=> d.request[r].status = "none"
                  /\ e.request[r].answered = d.request[r].answered
  BY <1>4, TakenRequests DEF Taken, RequestTaken
<1>7. /\ d.work[x.work].mode # "none" /\ x.endpoint <= d.generation[x.actor]
      /\ o = None => x.reason \in OwnerControl \cup {"work_recovery", "request_message", "request_reply"}
      /\ o # None =>
           /\ x.work = WorkOf[o] /\ x.actor = Assignee[o]
           /\ x.reason \in AssignmentReasons \cup {"assignment_recovery"}
           /\ d.obligation[o].status # "none"
           /\ x.generation <= d.obligation[o].generation
           /\ r \in {None, RequestOf(o)}
           /\ RequestOf(o) # None /\ r = None
                => x.reason \in {"assignment_continue", "assignment_wait_satisfied"}
      /\ r # None => x.work = WorkOf[r] /\ d.request[r].status # "none"
      /\ x.reason \in OwnerControl => r = None
      /\ x.reason = "request_message" => r # None /\ o = DebtOf[r] /\ x.actor = Assignee[r]
      /\ x.reason = "request_reply" => r # None
      /\ r # None /\ x.reason \in {"request_reply", "work_recovery"}
           => x.actor = ReturnActor[r] /\ d.request[r].answered
  BY <1>1 DEF Addressed
<1> HIDE DEF x, y, r, o
<1>8. y.marks.request = r /\ y.marks.obligation = o
  BY <1>3 DEF r, o
<1> QED BY <1>2, <1>3, <1>5, <1>6, <1>7, <1>8 DEF Addressed, y

\* A row that stays live is about another request, or another assignment, than the claimed one.
LEMMA TakenApart ==
  ASSUME NEW d, GoodBut(d, {}), NEW e \in Ledgers, NEW i, Taken(d, e, i), NEW j \in Indexes(d),
         e.activations[j].status \in Live
  PROVE  LiveKept(e, j)
<1> DEFINE x == d.activations[j]
           r == x.marks.request
           o == x.marks.obligation
<1>1. /\ d \in Ledgers /\ Addressed(d, x) /\ x \in Row /\ LiveKept(d, j) /\ NudgeKept(d, j)
  BY GoodParts, LedgerFields
<1>2. /\ TakenRows(d, e, i) /\ e.generation = d.generation /\ e.work = d.work
      /\ \A q \in Request : RequestTaken(d, e, q, i)
  BY DEF Taken
<1>3. j # i /\ e.activations[j] = x /\ x.status \in Live
  BY <1>2 DEF TakenRows, Live
<1>4. r \in Request \cup {None} /\ o \in Obligation \cup {None}
  BY <1>1 DEF Row, Marks
<1>5. o # None => /\ e.obligation[o].status = d.obligation[o].status
                  /\ e.obligation[o].generation = d.obligation[o].generation
  BY <1>4, TakenDebts
<1>6. r # None /\ d.request[r].status = "reply_ready" => e.request[r] = d.request[r]
  BY <1>4, TakenRequests
<1>7. /\ x.endpoint = d.generation[x.actor]
      /\ o # None =>
           /\ d.obligation[o].status = "open" /\ x.generation = d.obligation[o].generation
           /\ d.work[x.work].mode = "complete" /\ RequestOf(o) = None
                => x.reason = "assignment_continue"
      /\ o = None /\ r = None =>
           /\ x.revision = d.work[x.work].revision /\ x.actor = d.work[x.work].owner
           /\ d.work[x.work].mode # "complete"
           /\ x.reason = "continue_checkpoint" => d.work[x.work].mode = "continue"
           /\ x.reason = "wait_satisfied" => d.work[x.work].mode = "waiting"
      /\ x.reason = "request_reply" =>
           d.request[r].reply = j /\ d.request[r].status = "reply_ready"
      /\ x.reason = "request_message" /\ o = None =>
           d.request[r].message = j /\ d.request[r].status = "delivery_pending"
      /\ x.reason = "work_recovery" /\ r # None =>
           /\ d.request[r].reply = x.marks.after /\ d.request[r].status = "reply_ready"
           /\ x.marks.after # 0
           /\ ActiveCurrent(d, x.marks.after, ReturnActor[r], "request_reply")
           /\ d.activations[x.marks.after].status = "claimed"
  BY <1>1, <1>3 DEF LiveKept
<1>8. x.reason = "request_reply" => e.request[r].reply = j /\ e.request[r].status = "reply_ready"
  BY <1>1, <1>6, <1>7 DEF Addressed
<1>9. x.reason = "request_message" /\ o = None =>
        e.request[r].message = j /\ e.request[r].status = "delivery_pending"
  <2> SUFFICES ASSUME x.reason = "request_message", o = None
               PROVE  e.request[r].message = j /\ e.request[r].status = "delivery_pending"
    OBVIOUS
  <2>1. r # None /\ DebtOf[r] = None
    BY <1>1 DEF Addressed
  <2>2. r \in Request /\ d.request[r].message = j /\ d.request[r].status = "delivery_pending"
    BY <1>4, <1>7, <2>1
  <2> HIDE DEF r
  <2>3. RequestTaken(d, e, r, i)
    BY <1>2, <2>2
  <2> QED BY <1>3, <2>1, <2>2, <2>3 DEF RequestTaken
<1>10. x.reason = "work_recovery" /\ r # None =>
         /\ e.request[r].reply = x.marks.after /\ e.request[r].status = "reply_ready"
         /\ x.marks.after # 0
         /\ ActiveCurrent(e, x.marks.after, ReturnActor[r], "request_reply")
         /\ e.activations[x.marks.after].status = "claimed"
  <2> SUFFICES ASSUME x.reason = "work_recovery", r # None
               PROVE  /\ e.request[r].reply = x.marks.after /\ e.request[r].status = "reply_ready"
                      /\ x.marks.after # 0
                      /\ ActiveCurrent(e, x.marks.after, ReturnActor[r], "request_reply")
                      /\ e.activations[x.marks.after].status = "claimed"
    OBVIOUS
  <2> DEFINE k == x.marks.after
  <2>1. k \in Indexes(d)
    BY <1>1, <1>3 DEF NudgeKept, Recovery
  <2>2. /\ d.request[r].reply = k /\ d.request[r].status = "reply_ready" /\ k # 0
        /\ ActiveCurrent(d, k, ReturnActor[r], "request_reply") /\ d.activations[k].status = "claimed"
    BY <1>7
  <2>3. e.activations[k] = d.activations[k]
    BY <1>2, <2>1, <2>2 DEF TakenRows, Live
  <2> HIDE DEF k
  <2>4. ActiveCurrent(e, k, ReturnActor[r], "request_reply")
    BY <1>2, <2>2, <2>3 DEF ActiveCurrent
  <2> QED BY <1>6, <2>2, <2>3, <2>4 DEF k
<1> DEFINE y == e.activations[j]
<1>11. y = x
  BY <1>3
<1>12. y.marks.request = r /\ y.marks.obligation = o
  BY <1>3
<1> HIDE DEF x, r, o, y
<1> QED BY <1>2, <1>5, <1>7, <1>8, <1>9, <1>10, <1>11, <1>12 DEF LiveKept, y

LEMMA TakenNudges ==
  ASSUME NEW d, GoodBut(d, {}), NEW e \in Ledgers, NEW i, Taken(d, e, i), NEW j \in Indexes(d),
         e.activations[j].status \in Live
  PROVE  NudgeKept(e, j)
<1> DEFINE x == d.activations[j]
           o == x.marks.obligation
<1>1. /\ d \in Ledgers /\ x \in Row /\ NudgeKept(d, j) /\ Addressed(d, x)
      /\ \A p \in Obligation : DebtKept(d, p)
  BY GoodParts, LedgerFields
<1>2. /\ TakenRows(d, e, i) /\ e.armed = d.armed
      /\ \A p \in Obligation : DebtTaken(d, e, p, i)
      /\ \A n \in d.incidents : n.nudge # i => n \in e.incidents
  BY DEF Taken
<1>3. j # i /\ e.activations[j] = x /\ x.status \in Live /\ Indexes(e) = Indexes(d)
  BY <1>2 DEF TakenRows, Live
<1> SUFFICES ASSUME x.reason \in Recovery PROVE NudgeKept(e, j)
  BY <1>3 DEF NudgeKept
<1>4. \A source : Queued(d, j, source) => Queued(e, j, source)
  BY <1>2, <1>3 DEF Queued
<1>5. /\ x.work \in d.armed /\ x.marks.outcomes = {}
      /\ x.reason = "assignment_recovery" =>
           /\ d.obligation[o].claim # 0 /\ Queued(d, j, d.obligation[o].claim)
           /\ o # None /\ x.marks.request = RequestOf(o) /\ x.marks.after = 0
      /\ x.reason = "work_recovery" =>
           /\ Queued(d, j, x.marks.after)
           /\ x.marks.after \in Indexes(d) /\ d.activations[x.marks.after].work = x.work
      /\ \A k \in Indexes(d) :
           LET z == d.activations[k]
           IN z.status \in Live /\ z.reason = x.reason /\ z.actor = x.actor /\ z.marks = x.marks
                => k = j
  BY <1>1, <1>3 DEF NudgeKept
<1>6. x.reason = "assignment_recovery" => e.obligation[o].claim = d.obligation[o].claim
  <2> SUFFICES ASSUME x.reason = "assignment_recovery"
               PROVE  e.obligation[o].claim = d.obligation[o].claim
    OBVIOUS
  <2>1. o \in Obligation /\ d.obligation[o].claim # 0
    BY <1>1, <1>5 DEF Row, Marks
  <2>2. DebtTaken(d, e, o, i)
    BY <1>2, <2>1
  <2> HIDE DEF o
  <2> QED BY <2>1, <2>2 DEF DebtTaken
<1>7. \A k \in Indexes(d) :
        LET z == e.activations[k]
        IN z.status \in Live /\ z.reason = x.reason /\ z.actor = x.actor /\ z.marks = x.marks => k = j
  <2> SUFFICES ASSUME NEW k \in Indexes(d), e.activations[k].status \in Live,
                      e.activations[k].reason = x.reason, e.activations[k].actor = x.actor,
                      e.activations[k].marks = x.marks
               PROVE  k = j
    OBVIOUS
  <2>1. e.activations[k] = d.activations[k]
    BY <1>2 DEF TakenRows, Live
  <2> QED BY <1>5, <2>1
<1>8. x.reason = "work_recovery" => e.activations[x.marks.after].work = x.work
  BY <1>2, <1>5 DEF TakenRows
<1> DEFINE y == e.activations[j]
<1>9. y = x /\ y.marks.obligation = o
  BY <1>3
<1> HIDE DEF x, o, y
<1> QED BY <1>2, <1>3, <1>4, <1>5, <1>6, <1>7, <1>8, <1>9 DEF NudgeKept, y

LEMMA TakenGood ==
  ASSUME NEW d, GoodBut(d, {}), NEW e \in Ledgers, NEW i, Taken(d, e, i)
  PROVE  GoodBut(e, {})
<1>1. d \in Ledgers /\ \A w \in Work : WorkKept(d, w)
  BY GoodParts
<1>2. e.work = d.work /\ e.wait = d.wait /\ e.handled = d.handled /\ e.replays = d.replays
      /\ (\A n \in e.incidents : n.nudge \in Indexes(d)) /\ Indexes(e) = Indexes(d)
  BY DEF Taken, TakenRows
<1>3. \A w \in Work : WorkKept(e, w)
  BY <1>1, <1>2 DEF WorkKept, PendingReplays
<1>4. \A o \in Obligation : DebtKept(e, o) /\ Settled(e, o)
  BY TakenDebts
<1>5. \A r \in Request : RequestKept(e, r)
  BY TakenRequests
<1>6. \A j \in Indexes(d) : Addressed(e, e.activations[j]) /\ NoticeKept(e, j)
  BY TakenAddressed, TakenNotices
<1>7. \A j \in Indexes(d) : LiveKept(e, j) /\ NudgeKept(e, j)
  <2>1. \A j \in Indexes(d) : e.activations[j].status \notin Live => LiveKept(e, j) /\ NudgeKept(e, j)
    BY DEF LiveKept, NudgeKept
  <2> QED BY <2>1, TakenApart, TakenNudges
<1> QED BY <1>2, <1>3, <1>4, <1>5, <1>6, <1>7 DEF GoodBut, Good

\* A request that is not the claimed one is left alone.
LEMMA TakenHeld ==
  ASSUME NEW d, GoodBut(d, {}), NEW e \in Ledgers, NEW i, Taken(d, e, i), NEW r \in Request,
         d.request[r].reply # i, DebtOf[r] # None => ~Engages(d, i, DebtOf[r])
  PROVE  HeldOf(e, r) <=> HeldOf(d, r)
<1> DEFINE o == DebtOf[r]
           k == d.request[r].reply
<1>1. /\ d \in Ledgers /\ RequestKept(d, r) /\ (\A p \in Obligation : DebtKept(d, p))
  BY GoodParts
<1>2. /\ TakenRows(d, e, i) /\ e.generation = d.generation /\ RequestTaken(d, e, r, i)
      /\ \A p \in Obligation : DebtTaken(d, e, p, i)
  BY DEF Taken
<1>3. o # None => e.obligation[o] = d.obligation[o] /\ CurrentClaim(e, o) = CurrentClaim(d, o)
  <2> SUFFICES ASSUME o # None
               PROVE  e.obligation[o] = d.obligation[o] /\ CurrentClaim(e, o) = CurrentClaim(d, o)
    OBVIOUS
  <2>1. o \in Obligation /\ ~Engages(d, i, o)
    BY LedgerConstants
  <2> HIDE DEF o
  <2>2. e.obligation[o] = d.obligation[o] /\ DebtKept(d, o)
    BY <1>1, <1>2, <2>1 DEF DebtTaken
  <2> DEFINE c == d.obligation[o].claim
  <2>3. c = 0 \/ e.activations[c] = d.activations[c]
    BY <1>2, <2>2 DEF DebtKept, TakenRows, Live
  <2>4. e.obligation[o].claim = c
    BY <2>2
  <2> HIDE DEF c
  <2>5. CurrentClaim(e, o) = CurrentClaim(d, o)
    BY <1>2, <2>2, <2>3, <2>4 DEF CurrentClaim, c
  <2> QED BY <2>2, <2>5
<1>4. e.request[r].status = "reply_ready" <=> d.request[r].status = "reply_ready"
  BY <1>2, TakenRequests DEF RequestTaken
<1>5. e.request[r].reply = k /\ (k = 0 \/ e.activations[k] = d.activations[k])
  BY <1>1, <1>2 DEF RequestTaken, RequestKept, TakenRows
<1> HIDE DEF k
<1>6. (ActiveCurrent(e, k, ReturnActor[r], "request_reply") /\ e.activations[k].status = "claimed")
       <=> (ActiveCurrent(d, k, ReturnActor[r], "request_reply") /\ d.activations[k].status = "claimed")
  BY <1>2, <1>5 DEF ActiveCurrent
<1> HIDE DEF o
<1> QED BY <1>3, <1>4, <1>5, <1>6 DEF HeldOf, Held0, k, o

LEMMA TakenAlike ==
  ASSUME NEW d, GoodBut(d, {}), NEW e \in Ledgers, NEW i, Taken(d, e, i), NEW r \in Request,
         d.request[r].reply # i, DebtOf[r] # None => ~Engages(d, i, DebtOf[r]),
         DebtOf[r] = None => d.request[r].message # i \/ e.request[r] = d.request[r]
  PROVE  Alike(d, e, r)
<1>1. RequestTaken(d, e, r, i)
  BY DEF Taken
<1>2. PhaseOf(e, r) = PhaseOf(d, r)
  <2>1. \/ e.request[r].status = d.request[r].status
        \/ e.request[r].status = "claimed" /\ d.request[r].status \in {"delivery_pending", "claimed"}
    BY <1>1 DEF RequestTaken
  <2>2. CASE e.request[r].status = d.request[r].status
    BY <2>2 DEF PhaseOf
  <2>3. CASE e.request[r].status = "claimed" /\ d.request[r].status \in {"delivery_pending", "claimed"}
    <3>1. PhaseOf(e, r) = "owed" /\ PhaseOf(d, r) = "owed"
      BY <2>3, Phases
    <3> QED BY <3>1
  <2> QED BY <2>1, <2>2, <2>3
<1> QED BY <1>2, TakenHeld DEF Alike

\* What a claim does to the requests: it takes a debt or a reply, or reads what calls for no reply.
Takes(d, e) ==
  \E r \in Request :
    \/ DebtOf[r] = None /\ Moves(d, e, r, "owed", "read", FALSE, FALSE)
    \/ /\ DebtOf[r] # None
       /\ \E at \in {"owed", "answered"} : Moves(d, e, r, at, at, FALSE, TRUE)

\* The notice of an assignment.
LEMMA TakesDebt ==
  ASSUME NEW d, GoodBut(d, {}), NEW e \in Ledgers, NEW i, Taken(d, e, i), NEW o \in Obligation,
         Engages(d, i, o), \A q \in Request : DebtOf[q] = None => e.request[q] = d.request[q]
  PROVE  Quiet(d, e) \/ Takes(d, e)
<1> DEFINE x == d.activations[i]
<1>1. /\ d \in Ledgers /\ Addressed(d, x) /\ LiveKept(d, i) /\ i \in Indexes(d) /\ i # 0
      /\ \A q \in Request : RequestKept(d, q)
  BY GoodParts, LedgerFields DEF Taken, TakenRows
<1>2. /\ TakenRows(d, e, i) /\ e.generation = d.generation
      /\ DebtTaken(d, e, o, i) /\ \A q \in Request : RequestTaken(d, e, q, i)
  BY DEF Taken
<1>3. o # None /\ x.marks.obligation = o /\ x.reason \in AssignmentReasons
  BY LedgerConstants DEF Engages
<1>4. ASSUME NEW q \in Request, d.request[q].reply = i PROVE FALSE
  <2>1. x.reason # "request_reply"
    BY <1>3 DEF AssignmentReasons
  <2>2. RequestKept(d, q)
    BY <1>1
  <2> QED BY <1>1, <1>4, <2>1, <2>2 DEF RequestKept
<1>5. d.obligation[o].status = "open" /\ x.generation = d.obligation[o].generation
      /\ x.endpoint = d.generation[x.actor] /\ x.actor = Assignee[o]
  BY <1>1, <1>2, <1>3 DEF LiveKept, Addressed, TakenRows
<1>6. ASSUME NEW q \in Request, DebtOf[q] # o PROVE Alike(d, e, q)
  <2>1. DebtOf[q] # None => ~Engages(d, i, DebtOf[q])
    BY <1>3, <1>6 DEF Engages
  <2> QED BY <1>4, <2>1, TakenAlike
<1>7. CASE \A q \in Request : DebtOf[q] # o
  BY <1>6, <1>7 DEF Quiet
<1>8. CASE \E q \in Request : DebtOf[q] = o
  <2>1. PICK r \in Request : DebtOf[r] = o
    BY <1>8
  <2>2. \A q \in Request \ {r} : Alike(d, e, q)
    BY <1>3, <1>6, <2>1, LedgerConstants
  <2>3. RequestKept(d, r) /\ RequestTaken(d, e, r, i) /\ d.request[r] \in RequestRow
    BY <1>1, <1>2, LedgerFields
  <2>4. d.request[r].status \in {"delivery_pending", "claimed"}
    BY <1>3, <1>5, <2>1, <2>3 DEF RequestKept, RequestRow
  <2>5. e.request[r].status \in {"delivery_pending", "claimed"}
    BY <1>3, <2>1, <2>3, <2>4 DEF RequestTaken
  <2>6. PhaseOf(d, r) = "owed" /\ PhaseOf(e, r) = "owed"
    BY <2>4, <2>5, Phases
  <2>7. ~HeldOf(d, r)
    <3>1. CurrentClaim(d, o) = 0
      BY <1>2 DEF CurrentClaim, DebtTaken
    <3> QED BY <2>1, <2>4, <3>1 DEF HeldOf
  <2>8. HeldOf(e, r)
    <3>1. /\ e.obligation[o].claim = i /\ e.obligation[o].status = "open"
          /\ e.obligation[o].generation = d.obligation[o].generation
      BY <1>2, <1>5 DEF DebtTaken
    <3>2. /\ e.activations[i].status = "claimed" /\ e.activations[i].actor = Assignee[o]
          /\ e.activations[i].generation = d.obligation[o].generation
          /\ e.activations[i].endpoint = e.generation[Assignee[o]]
      BY <1>2, <1>5 DEF TakenRows
    <3>3. CurrentClaim(e, o) = i
      BY <1>1, <3>1, <3>2 DEF CurrentClaim
    <3> QED BY <1>1, <1>3, <2>1, <3>1, <3>3 DEF HeldOf
  <2>9. Moves(d, e, r, "owed", "owed", FALSE, TRUE)
    BY <2>2, <2>6, <2>7, <2>8 DEF Moves
  <2> QED BY <1>3, <2>1, <2>9 DEF Takes
<1> QED BY <1>7, <1>8

\* The message of a request that calls for no reply.
LEMMA TakesMessage ==
  ASSUME NEW d, GoodBut(d, {}), NEW e \in Ledgers, NEW i, Taken(d, e, i), NEW r \in Request,
         d.activations[i].reason = "request_message", d.activations[i].marks.obligation = None,
         d.activations[i].marks.request = r,
         e.request[r].status = "closed_no_reply", \A q \in Request \ {r} : e.request[q] = d.request[q]
  PROVE  Takes(d, e)
<1> DEFINE x == d.activations[i]
<1>1. /\ d \in Ledgers /\ Addressed(d, x) /\ LiveKept(d, i) /\ i \in Indexes(d) /\ i # 0
      /\ \A q \in Request : RequestKept(d, q)
  BY GoodParts, LedgerFields DEF Taken, TakenRows
<1>2. TakenRows(d, e, i)
  BY DEF Taken
<1>3. r # None /\ DebtOf[r] = None
  BY <1>1 DEF Addressed
<1>4. d.request[r].status = "delivery_pending"
  BY <1>1, <1>2 DEF LiveKept, TakenRows
<1>5. ASSUME NEW q \in Request, d.request[q].reply = i PROVE FALSE
  <2>1. RequestKept(d, q)
    BY <1>1
  <2> QED BY <1>1, <1>5, <2>1 DEF RequestKept
<1>6. \A q \in Request : DebtOf[q] # None => ~Engages(d, i, DebtOf[q])
  BY DEF Engages
<1>7. ASSUME NEW q \in Request \ {r} PROVE Alike(d, e, q)
  BY <1>5, <1>6, TakenAlike
<1>8. PhaseOf(d, r) = "owed" /\ PhaseOf(e, r) = "read"
  BY <1>4, Phases
<1>9. ~HeldOf(d, r) /\ ~HeldOf(e, r)
  BY <1>3, <1>4 DEF HeldOf
<1>10. Moves(d, e, r, "owed", "read", FALSE, FALSE)
  BY <1>7, <1>8, <1>9 DEF Moves
<1> QED BY <1>3, <1>10 DEF Takes

\* The owner's notices, the recoveries, and the replies.
LEMMA TakesReply ==
  ASSUME NEW d, GoodBut(d, {}), NEW e \in Ledgers, NEW i, Taken(d, e, i),
         d.activations[i].reason \notin AssignmentReasons, e.request = d.request
  PROVE  Quiet(d, e) \/ Takes(d, e)
<1> DEFINE x == d.activations[i]
           r == x.marks.request
<1>1. /\ d \in Ledgers /\ Addressed(d, x) /\ LiveKept(d, i) /\ i \in Indexes(d) /\ i # 0
      /\ x \in Row /\ \A q \in Request : RequestKept(d, q)
  BY GoodParts, LedgerFields DEF Taken, TakenRows
<1>2. TakenRows(d, e, i) /\ e.generation = d.generation
  BY DEF Taken
<1>3. \A q \in Request : DebtOf[q] # None => ~Engages(d, i, DebtOf[q])
  BY DEF Engages
<1>4. ASSUME NEW q \in Request, d.request[q].reply # i PROVE Alike(d, e, q)
  BY <1>3, <1>4, TakenAlike
<1>5. CASE x.reason # "request_reply"
  <2>1. ASSUME NEW q \in Request, d.request[q].reply = i PROVE FALSE
    <3>1. RequestKept(d, q)
      BY <1>1
    <3> QED BY <1>1, <1>5, <2>1, <3>1 DEF RequestKept
  <2> QED BY <1>4, <2>1 DEF Quiet
<1>6. CASE x.reason = "request_reply"
  <2>1. r \in Request /\ x.actor = ReturnActor[r]
    BY <1>1, <1>6 DEF Addressed, Row, Marks
  <2>2. /\ d.request[r].reply = i /\ d.request[r].status = "reply_ready"
        /\ x.endpoint = d.generation[x.actor] /\ x.status \in Live
    BY <1>1, <1>2, <1>6 DEF LiveKept, TakenRows
  <2>3. RequestKept(d, r)
    BY <1>1, <2>1
  <2>4. DebtOf[r] # None /\ d.obligation[DebtOf[r]].status = "resolved"
    BY <2>2, <2>3 DEF RequestKept
  <2>5. e.obligation[DebtOf[r]].status = "resolved"
    BY <2>1, <2>4, TakenDebts, LedgerConstants
  <2>6. ASSUME NEW q \in Request \ {r} PROVE d.request[q].reply # i
    <3>1. RequestKept(d, q)
      BY <1>1
    <3> QED BY <1>1, <3>1 DEF RequestKept
  <2> HIDE DEF r
  <2>7. ~HeldOf(d, r)
    BY <2>2, <2>4 DEF HeldOf, Live
  <2>8. HeldOf(e, r)
    <3>1. /\ e.activations[i].status = "claimed" /\ e.activations[i].actor = ReturnActor[r]
          /\ e.activations[i].reason = "request_reply"
          /\ e.activations[i].endpoint = e.generation[ReturnActor[r]]
      BY <1>2, <1>6, <2>1, <2>2 DEF TakenRows
    <3> QED BY <1>1, <2>2, <3>1 DEF HeldOf, Held0, ActiveCurrent, Active
  <2>9. PhaseOf(d, r) = "answered" /\ PhaseOf(e, r) = "answered"
    BY <2>2, Phases
  <2>10. Moves(d, e, r, "answered", "answered", FALSE, TRUE)
    BY <1>4, <2>6, <2>7, <2>8, <2>9 DEF Moves
  <2> QED BY <2>1, <2>4, <2>10 DEF Takes
<1> QED BY <1>5, <1>6

\* The row is marked claimed, with its turn.
ClaimedRow(d, i, turn) ==
  [d EXCEPT !.activations[i].status = "claimed", !.activations[i].turn = turn]

LEMMA ClaimWrite ==
  ASSUME NEW d \in Ledgers, NEW i \in Indexes(d), d.activations[i].status \in Live, NEW turn \in Nat,
         NEW e, e = ClaimedRow(d, i, turn)
  PROVE  e \in Ledgers /\ TakenRows(d, e, i) /\ Rest(d, e) /\ e.incidents = d.incidents
<1> DEFINE s == d.activations
           x == s[i]
           y == [x EXCEPT !.status = "claimed", !.turn = turn]
           t == [s EXCEPT ![i] = y]
           f == [d EXCEPT !.activations = t]
<1>1. s \in Seq(Row) /\ DOMAIN s = Indexes(d) /\ x \in Row
  BY LedgerFields DEF Indexes
<1>2. e = f
  <2>1. d.activations \in Seq(Row) /\ i \in DOMAIN d.activations /\ d.activations[i] \in Row
    BY <1>1
  <2> QED BY <2>1 DEF Row, Ledgers, ClaimedRow
<1>3. /\ y \in Row /\ y.work = x.work /\ y.actor = x.actor /\ y.revision = x.revision
      /\ y.endpoint = x.endpoint /\ y.generation = x.generation /\ y.reason = x.reason
      /\ y.marks = x.marks /\ y.status = "claimed"
  BY <1>1 DEF Row, Active
<1> HIDE DEF y
<1>4. t \in Seq(Row) /\ DOMAIN t = DOMAIN s
  BY <1>1, <1>3
<1>5. t[i] = y /\ \A j \in DOMAIN s : j # i => t[j] = s[j]
  BY <1>1
<1> HIDE DEF t
<1>6. f \in Ledgers /\ Rest(d, f) /\ f.activations = t /\ f.incidents = d.incidents
  BY <1>4 DEF Ledgers, Rest, Frame
<1> HIDE DEF f
<1>7. Indexes(f) = Indexes(d)
  BY <1>1, <1>4, <1>6 DEF Indexes
<1>8. TakenRows(d, f, i)
  <2>1. \A j \in Indexes(d) \ {i} : f.activations[j] = d.activations[j]
    BY <1>1, <1>5, <1>6
  <2>2. f.activations[i] = y
    BY <1>5, <1>6
  <2> QED BY <1>3, <1>7, <2>1, <2>2 DEF TakenRows
<1> QED BY <1>2, <1>6, <1>8

LEMMA TurnTyped ==
  ASSUME NEW d \in Ledgers
  PROVE  1 + Cardinality({j \in Indexes(d) : d.activations[j].status = "claimed"}) \in Nat
<1> DEFINE claimed == {j \in Indexes(d) : d.activations[j].status = "claimed"}
<1>1. Indexes(d) = 1..Len(d.activations) /\ Len(d.activations) \in Nat
  BY LedgerFields
<1>2. IsFiniteSet(Indexes(d))
  BY <1>1, FS_Interval
<1>3. claimed \subseteq Indexes(d)
  OBVIOUS
<1>4. IsFiniteSet(claimed)
  BY <1>2, <1>3, FS_Subset
<1>5. Cardinality(claimed) \in Nat
  BY <1>4, FS_CardinalityType
<1> QED BY <1>5

\* The incident of the claimed nudge waits.
IncidentWaits(m, i) ==
  [m EXCEPT !.incidents = {IF n.nudge = i THEN [n EXCEPT !.status = "waiting"] ELSE n : n \in @}]

LEMMA WaitingWrite ==
  ASSUME NEW d, GoodBut(d, {}), NEW m \in Ledgers, NEW i, TakenRows(d, m, i), Rest(d, m),
         m.incidents = d.incidents, d.activations[i].reason \in Recovery,
         NEW e, e = IncidentWaits(m, i)
  PROVE  /\ e \in Ledgers /\ Taken(d, e, i) /\ e.request = d.request
         /\ e.stopped = d.stopped
<1> DEFINE s == {IF n.nudge = i THEN [n EXCEPT !.status = "waiting"] ELSE n : n \in m.incidents}
           f == [m EXCEPT !.incidents = s]
<1>1. /\ d \in Ledgers /\ m.incidents \in SUBSET IncidentRow
      /\ \A n \in d.incidents : n.nudge \in Indexes(d)
  BY GoodParts, LedgerFields
<1>2. \A n \in IncidentRow : [n EXCEPT !.status = "waiting"] \in IncidentRow
                             /\ [n EXCEPT !.status = "waiting"].nudge = n.nudge
  BY DEF IncidentRow
<1>3. s \in SUBSET IncidentRow
  BY <1>1, <1>2
<1>4. \A n \in d.incidents : n.nudge # i => n \in s
  OBVIOUS
<1>5. \A n \in s : n.nudge \in Indexes(d)
  BY <1>1, <1>2
<1>6. e = f
  BY DEF IncidentWaits
<1> HIDE DEF s
<1>7. /\ f \in Ledgers /\ f.activations = m.activations /\ Frame(m, f) /\ f.results = m.results
      /\ f.request = m.request /\ f.incidents = s
  BY <1>3 DEF Ledgers, Frame
<1> HIDE DEF f
<1>8. TakenRows(d, f, i)
  BY <1>7 DEF TakenRows, Indexes
<1>9. Frame(d, f) /\ f.results = d.results /\ f.request = d.request
  BY <1>7 DEF Rest, Frame
<1>10. \A o \in Obligation : DebtTaken(d, f, o, i)
  BY <1>9 DEF DebtTaken, Engages, Frame, Recovery, AssignmentReasons
<1>11. \A r \in Request : RequestTaken(d, f, r, i)
  BY <1>9 DEF RequestTaken
<1> QED BY <1>4, <1>5, <1>6, <1>7, <1>8, <1>9, <1>10, <1>11 DEF Taken, Frame

\* The claim is on record with the assignment, and with its request.
ClaimRecorded(m, i, o) == [m EXCEPT !.obligation[o].claim = i]
RequestMarked(m, r, status) == [m EXCEPT !.request[r].status = status]
DebtClaimed(m, i, o) ==
  IF RequestOf(o) = None THEN ClaimRecorded(m, i, o)
  ELSE RequestMarked(ClaimRecorded(m, i, o), RequestOf(o), "claimed")

LEMMA AssignedWrite ==
  ASSUME NEW d, GoodBut(d, {}), NEW m \in Ledgers, NEW i, TakenRows(d, m, i), Rest(d, m),
         m.incidents = d.incidents, NEW o \in Obligation, Engages(d, i, o),
         d.obligation[o].claim \in {0, i},
         NEW e, e = DebtClaimed(m, i, o)
  PROVE  /\ e \in Ledgers /\ Taken(d, e, i)
         /\ \A q \in Request : DebtOf[q] = None => e.request[q] = d.request[q]
         /\ e.stopped = d.stopped
<1> DEFINE r == RequestOf(o)
           c == ClaimRecorded(m, i, o)
           k == [m.obligation[o] EXCEPT !.claim = i]
           f == [m EXCEPT !.obligation = [m.obligation EXCEPT ![o] = k]]
<1>1. /\ d \in Ledgers /\ i \in Indexes(d) /\ i \in Nat /\ i # 0 /\ o # None
      /\ DebtKept(d, o) /\ LiveKept(d, i) /\ Addressed(d, d.activations[i])
      /\ \A n \in d.incidents : n.nudge \in Indexes(d)
  BY GoodParts, LedgerFields, LedgerConstants DEF TakenRows
<1>2. d.obligation[o].claim = 0
  BY <1>1 DEF DebtKept, TakenRows, Live
<1>3. d.obligation[o].status = "open"
  BY <1>1 DEF LiveKept, TakenRows, Engages
<1>4. Frame(d, m) /\ m.results = d.results /\ m.request = d.request
  BY DEF Rest
<1>5. m.obligation[o] \in DebtRow /\ m.obligation[o] = d.obligation[o]
  BY <1>4, LedgerFields DEF Frame
<1>6. /\ k \in DebtRow /\ k.claim = i /\ k.status = d.obligation[o].status
      /\ k.generation = d.obligation[o].generation
  BY <1>1, <1>5 DEF DebtRow
<1>7. c = f
  BY LedgerFields DEF Ledgers, ClaimRecorded
<1>14. e = IF r = None THEN c ELSE RequestMarked(c, r, "claimed")
  BY DEF DebtClaimed
<1> HIDE DEF k, c
<1>8. f \in Ledgers /\ OnlyDebt(m, f, o) /\ f.obligation[o] = k
  BY <1>6, DebtWrite
<1> HIDE DEF f
<1>9. /\ c.generation = d.generation /\ c.work = d.work /\ c.wait = d.wait /\ c.handled = d.handled
      /\ c.replays = d.replays /\ c.armed = d.armed /\ c.assignment = d.assignment
      /\ c.request = d.request /\ c.results = d.results /\ c.activations = m.activations
      /\ c.incidents = d.incidents /\ c \in Ledgers
      /\ c.stopped = d.stopped
  BY <1>4, <1>7, <1>8 DEF OnlyDebt, Frame
<1>10. \A p \in Obligation : DebtTaken(d, c, p, i)
  <2>1. DebtTaken(d, c, o, i)
    BY <1>2, <1>6, <1>7, <1>8 DEF DebtTaken
  <2>2. ASSUME NEW p \in Obligation \ {o} PROVE DebtTaken(d, c, p, i)
    <3>1. ~Engages(d, i, p)
      BY DEF Engages
    <3>2. c.obligation[p] = d.obligation[p]
      BY <1>4, <1>7, <1>8 DEF OnlyDebt, Frame
    <3> QED BY <3>1, <3>2 DEF DebtTaken
  <2> QED BY <2>1, <2>2
<1>11. TakenRows(d, c, i)
  BY <1>9 DEF TakenRows, Indexes
<1>12. CASE r = None
  <2>1. e = c
    BY <1>12, <1>14
  <2>2. \A q \in Request : RequestTaken(d, c, q, i)
    BY <1>9 DEF RequestTaken
  <2> QED BY <1>1, <1>9, <1>10, <1>11, <2>1, <2>2 DEF Taken
<1>13. CASE r # None
  <2>1. r \in Request /\ DebtOf[r] = o
    BY <1>13 DEF RequestOf
  <2> DEFINE status == "claimed"
  <2>11. /\ status = "claimed"
         /\ status \in {"none", "delivery_pending", "claimed", "reply_ready", "handled", "closed_no_reply"}
    OBVIOUS
  <2>2. e = [c EXCEPT !.request[r].status = status]
    BY <1>13, <1>14 DEF RequestMarked
  <2> HIDE DEF r, status
  <2>3. /\ e \in Ledgers /\ Frame(c, e) /\ e.activations = c.activations
        /\ e.results = c.results /\ e.incidents = c.incidents
        /\ e.request[r].status = "claimed" /\ e.request[r].message = c.request[r].message
        /\ e.request[r].reply = c.request[r].reply
        /\ e.request[r].answered = c.request[r].answered
        /\ \A p \in Request \ {r} : e.request[p] = c.request[p]
    BY <1>9, <2>1, <2>2, <2>11, StatusWrite
  <2>4. d.request[r].status \in {"delivery_pending", "claimed"}
    <3>1. RequestKept(d, r) /\ d.request[r] \in RequestRow
      BY <1>1, <2>1, GoodParts, LedgerFields
    <3> QED BY <1>1, <1>3, <2>1, <3>1 DEF RequestKept, RequestRow
  <2>5. RequestTaken(d, e, r, i)
    BY <1>1, <1>9, <2>1, <2>3, <2>4 DEF RequestTaken
  <2>6. \A q \in Request \ {r} : RequestTaken(d, e, q, i)
    BY <1>9, <2>3 DEF RequestTaken
  <2>7. \A p \in Obligation : DebtTaken(d, e, p, i)
    BY <1>10, <2>3 DEF DebtTaken, Frame
  <2>8. TakenRows(d, e, i)
    BY <1>11, <2>3 DEF TakenRows, Indexes
  <2>9. Taken(d, e, i)
    BY <1>1, <1>9, <2>3, <2>5, <2>6, <2>7, <2>8 DEF Taken, Frame
  <2>10. \A q \in Request : DebtOf[q] = None => e.request[q] = d.request[q]
    BY <1>1, <1>9, <2>1, <2>3
  <2>12. e.stopped = d.stopped
    BY <1>9, <2>3 DEF Frame
  <2> QED BY <2>3, <2>9, <2>10, <2>12
<1> QED BY <1>12, <1>13

\* The message that calls for no reply has been read.
LEMMA ReadWrite ==
  ASSUME NEW d, GoodBut(d, {}), NEW m \in Ledgers, NEW i, TakenRows(d, m, i), Rest(d, m),
         m.incidents = d.incidents, d.activations[i].reason = "request_message",
         d.activations[i].marks.obligation = None, NEW r, r = d.activations[i].marks.request,
         NEW e, e = RequestMarked(m, r, "closed_no_reply")
  PROVE  /\ e \in Ledgers /\ Taken(d, e, i) /\ r \in Request
         /\ e.request[r].status = "closed_no_reply"
         /\ \A q \in Request \ {r} : e.request[q] = d.request[q]
         /\ e.stopped = d.stopped
<1> DEFINE x == d.activations[i]
<1>1. /\ d \in Ledgers /\ i \in Indexes(d) /\ x \in Row /\ LiveKept(d, i) /\ Addressed(d, x)
      /\ \A n \in d.incidents : n.nudge \in Indexes(d)
  BY GoodParts, LedgerFields DEF TakenRows
<1>2. r \in Request /\ DebtOf[r] = None
  BY <1>1 DEF Addressed, Row, Marks
<1>3. d.request[r].message = i /\ d.request[r].status = "delivery_pending"
  BY <1>1 DEF LiveKept, TakenRows
<1>4. Frame(d, m) /\ m.results = d.results /\ m.request = d.request
  BY DEF Rest
<1>5. /\ e \in Ledgers /\ Frame(m, e) /\ e.activations = m.activations
      /\ e.results = m.results /\ e.incidents = m.incidents
      /\ e.request[r].status = "closed_no_reply" /\ e.request[r].message = m.request[r].message
      /\ e.request[r].reply = m.request[r].reply
      /\ e.request[r].answered = m.request[r].answered
      /\ \A p \in Request \ {r} : e.request[p] = m.request[p]
  <2> DEFINE status == "closed_no_reply"
  <2>1. /\ status = "closed_no_reply"
        /\ status \in {"none", "delivery_pending", "claimed", "reply_ready", "handled", "closed_no_reply"}
    OBVIOUS
  <2>2. e = [m EXCEPT !.request[r].status = status]
    BY DEF RequestMarked
  <2> HIDE DEF status
  <2>3. m \in Ledgers /\ r \in Request
    BY <1>2
  <2> QED BY ONLY <2>1, <2>2, <2>3, StatusWrite
<1>6. TakenRows(d, e, i)
  <2>1. TakenRows(d, m, i) /\ e.activations = m.activations
    BY <1>5
  <2> QED BY ONLY <2>1 DEF TakenRows, Indexes
<1>7. Frame(d, e)
  BY <1>4, <1>5 DEF Frame
<1>8. \A o \in Obligation : DebtTaken(d, e, o, i)
  BY <1>7, LedgerConstants DEF DebtTaken, Engages, Frame
<1>9. \A q \in Request : RequestTaken(d, e, q, i)
  <2>1. RequestTaken(d, e, r, i)
    BY <1>2, <1>3, <1>4, <1>5 DEF RequestTaken
  <2>2. \A q \in Request \ {r} : RequestTaken(d, e, q, i)
    BY <1>4, <1>5 DEF RequestTaken
  <2> QED BY <2>1, <2>2
<1>10. /\ e.stopped = d.stopped /\ e.incidents = d.incidents /\ e.results = d.results
       /\ \A q \in Request \ {r} : e.request[q] = d.request[q]
  <2>1. e.stopped = d.stopped
    BY ONLY <1>7 DEF Frame
  <2>2. m.incidents = d.incidents
    OBVIOUS
  <2>3. e.incidents = d.incidents /\ e.results = d.results
    BY ONLY <1>4, <1>5, <2>2
  <2>4. \A q \in Request \ {r} : e.request[q] = d.request[q]
    BY ONLY <1>4, <1>5
  <2> QED BY <2>1, <2>3, <2>4
<1>11. Taken(d, e, i)
  <2>1. \A n \in e.incidents : n.nudge \in Indexes(d)
    BY <1>1, <1>10
  <2> QED BY ONLY <1>6, <1>7, <1>8, <1>9, <1>10, <2>1 DEF Taken, Frame
<1>12. e \in Ledgers /\ e.request[r].status = "closed_no_reply"
  BY <1>5
<1> QED BY ONLY <1>2, <1>10, <1>11, <1>12

\* The claimed notice of an assignment is its claim; the claimed notice of an owner stays its route.
LEMMA TakenRemembers ==
  ASSUME NEW d, GoodBut(d, {}), NEW e \in Ledgers, NEW i, Taken(d, e, i), e.stopped = d.stopped
  PROVE  Remembers(d, e)
<1>1. /\ d \in Ledgers /\ i # 0 /\ i \in Indexes(d) /\ LiveKept(d, i) /\ Addressed(d, d.activations[i])
      /\ None \notin Obligation
  BY GoodParts, LedgerFields, LedgerConstants DEF Taken, TakenRows
<1>2. /\ TakenRows(d, e, i) /\ e.generation = d.generation /\ e.work = d.work
      /\ e.assignment = d.assignment /\ \A o \in Obligation : DebtTaken(d, e, o, i)
  BY DEF Taken
<1>3. \A o \in Obligation : /\ e.obligation[o].status = d.obligation[o].status
                            /\ e.obligation[o].generation = d.obligation[o].generation
  BY TakenDebts
<1>4. ASSUME NEW o \in Obligation, DebtRouted(d, o) PROVE DebtRouted(e, o)
  <2>1. Owed(e, o) => Owed(d, o)
    BY <1>2, <1>3 DEF Owed, ExplicitStop, ContinuationAllowed
  <2>2. CASE Engages(d, i, o)
    <3>1. e.obligation[o].claim = i
      BY <1>2, <2>2 DEF DebtTaken
    <3> QED BY <1>1, <3>1 DEF DebtRouted
  <2>3. CASE ~Engages(d, i, o)
    <3>1. e.obligation[o] = d.obligation[o]
      BY <1>2, <2>3 DEF DebtTaken
    <3>2. ASSUME NEW j \in Indexes(d), d.activations[j].status \in Live,
                 d.activations[j].marks.obligation = o, d.activations[j].reason # "assignment_recovery"
          PROVE  j \in Indexes(e) /\ e.activations[j] = d.activations[j]
      <4>1. j # i
        BY <1>1, <2>3, <3>2 DEF Engages, Addressed
      <4> QED BY <1>2, <4>1 DEF TakenRows
    <3>3. Noticed(d, o) => Noticed(e, o)
      BY <3>2 DEF Noticed
    <3> QED BY <1>4, <2>1, <3>1, <3>3 DEF DebtRouted
  <2> QED BY <2>2, <2>3
<1>5. ASSUME NEW o \in Obligation, InStep(d, o) PROVE InStep(e, o)
  <2>1. ASSUME e.obligation[o].status = "open", e.assignment[o].mode = "none",
               NEW j \in Indexes(e), e.activations[j].status = "claimed",
               e.activations[j].marks.obligation = o,
               e.activations[j].endpoint = e.generation[Assignee[o]]
        PROVE  e.activations[j].generation = e.obligation[o].generation
    <3>1. CASE j = i
      <4>1. d.activations[i].marks.obligation = o /\ o # None
        BY <1>1, <1>2, <2>1, <3>1 DEF TakenRows
      <4>2. d.activations[i].generation = d.obligation[o].generation
        BY <1>1, <1>2, <4>1 DEF LiveKept, TakenRows
      <4> QED BY <1>1, <1>2, <1>3, <3>1, <4>2 DEF TakenRows
    <3>2. CASE j # i
      <4>1. j \in Indexes(d) /\ e.activations[j] = d.activations[j]
        BY <1>2, <3>2 DEF TakenRows
      <4> QED BY <1>2, <1>3, <1>5, <2>1, <4>1 DEF InStep
    <3> QED BY <3>1, <3>2
  <2> QED BY <2>1 DEF InStep
<1>6. ASSUME NEW w \in Work, OwnerRouted(d, w) PROVE OwnerRouted(e, w)
  <2>1. Continues(e, w) <=> Continues(d, w)
    BY <1>2 DEF Continues, ExplicitStop
  <2>2. ASSUME NEW j \in Indexes(d), OwnerRoute(d, w, d.activations[j])
        PROVE  j \in Indexes(e) /\ OwnerRoute(e, w, e.activations[j])
    <3>1. e.activations[j].status \in Active
      BY <1>2, <2>2 DEF TakenRows, OwnerRoute, Active
    <3> QED BY <1>2, <2>2, <3>1 DEF TakenRows, OwnerRoute
  <2> QED BY <1>6, <2>1, <2>2 DEF OwnerRouted
<1> QED BY <1>4, <1>5, <1>6 DEF Remembers, Routed

\* claim
LEMMA ClaimStep ==
  ASSUME GoodBut(ledger, {}), NEW i \in Indexes(ledger), Claim(i)
  PROVE  /\ GoodBut(ledger', {}) /\ Onward(ledger, ledger') /\ Within(ledger, ledger')
         /\ Quiet(ledger, ledger') \/ Takes(ledger, ledger')
         /\ Remembers(ledger, ledger')
<1> DEFINE d == ledger
           x == d.activations[i]
           o == x.marks.obligation
           r == AboutRequest(x)
           turn == 1 + Cardinality({j \in Indexes(d) : d.activations[j].status = "claimed"})
           m == ClaimedRow(d, i, turn)
           w == IncidentWaits(m, i)
           a == DebtClaimed(m, i, o)
           b == RequestMarked(m, r, "closed_no_reply")
           e == CASE x.reason \in Recovery -> w
                  [] o # None /\ x.reason \notin Recovery -> a
                  [] x.reason = "request_message" /\ o = None -> b
                  [] OTHER -> m
<1>1. /\ d \in Ledgers /\ x \in Row /\ Addressed(d, x)
      /\ \A n \in d.incidents : n.nudge \in Indexes(d)
  BY GoodParts, LedgerFields
<1>2. x.status \in Live /\ ~AlreadyClaimed(i) /\ ledger' = e
  <2> DEFINE taken == [ledger EXCEPT !.activations[i].status = "claimed", !.activations[i].turn = turn]
             claimed == [taken EXCEPT !.obligation[o].claim = i]
  <2>1. /\ x.status \in Live /\ ~AlreadyClaimed(i)
        /\ ledger' = CASE x.reason \in Recovery ->
                         [taken EXCEPT !.incidents =
                            {IF n.nudge = i THEN [n EXCEPT !.status = "waiting"] ELSE n : n \in @}]
                    [] o # None /\ x.reason \notin Recovery ->
                         IF r = None THEN claimed ELSE [claimed EXCEPT !.request[r].status = "claimed"]
                    [] x.reason = "request_message" /\ o = None ->
                         [taken EXCEPT !.request[r].status = "closed_no_reply"]
                    [] OTHER -> taken
    BY DEF Claim, Commit
  <2>2. taken = m
    BY DEF ClaimedRow
  <2> HIDE DEF taken, m, turn
  <2>3. ledger' = CASE x.reason \in Recovery -> w
                    [] o # None /\ x.reason \notin Recovery ->
                         IF r = None THEN ClaimRecorded(m, i, o)
                         ELSE RequestMarked(ClaimRecorded(m, i, o), r, "claimed")
                    [] x.reason = "request_message" /\ o = None -> b
                    [] OTHER -> m
    BY <2>1, <2>2 DEF IncidentWaits, ClaimRecorded, RequestMarked
  <2>4. o # None /\ x.reason \notin Recovery => r = RequestOf(o)
    BY <1>1 DEF Addressed, AboutRequest, Recovery
  <2>5. o # None /\ x.reason \notin Recovery =>
          a = IF r = None THEN ClaimRecorded(m, i, o)
              ELSE RequestMarked(ClaimRecorded(m, i, o), r, "claimed")
    BY <2>4 DEF DebtClaimed
  <2> HIDE DEF a, b, w, x, o, r
  <2>6. ledger' = e
    BY <2>3, <2>5
  <2> QED BY <2>1, <2>6
<1>3. o # None /\ x.reason \notin Recovery => d.obligation[o].claim \in {0, i}
  BY <1>2 DEF AlreadyClaimed
<1>4. GoodBut(d, {}) /\ i \in Indexes(d)
  BY DEF d
<1>5. turn \in Nat
  BY <1>1, TurnTyped
<1> HIDE DEF d, turn
<1>6. m \in Ledgers /\ TakenRows(d, m, i) /\ Rest(d, m) /\ m.incidents = d.incidents
  BY <1>1, <1>2, <1>4, <1>5, ClaimWrite
<1> HIDE DEF m
<1> DEFINE Done == \E f \in Ledgers : /\ f = e /\ Taken(d, f, i) /\ f.stopped = d.stopped
                                      /\ Quiet(d, f) \/ Takes(d, f)
<1>7. ASSUME x.reason \in Recovery PROVE Done
  <2>1. e = w
    BY <1>7 DEF Recovery
  <2>2. w \in Ledgers /\ Taken(d, w, i) /\ w.request = d.request /\ w.stopped = d.stopped
    BY <1>4, <1>6, <1>7, WaitingWrite
  <2> HIDE DEF w, e
  <2>3. Quiet(d, w) \/ Takes(d, w)
    BY <1>4, <1>7, <2>2, TakesReply DEF Recovery, AssignmentReasons
  <2> QED BY <2>1, <2>2, <2>3
<1>8. ASSUME o # None, x.reason \notin Recovery PROVE Done
  <2>1. e = a
    BY <1>8
  <2>2. o \in Obligation /\ x.reason \in AssignmentReasons /\ r = RequestOf(o)
    BY <1>1, <1>8 DEF Addressed, AboutRequest, Recovery, Row, Marks
  <2>3. Engages(d, i, o) /\ d.obligation[o].claim \in {0, i}
    BY <1>3, <1>8, <2>2 DEF Engages
  <2>4. a = DebtClaimed(m, i, o)
    OBVIOUS
  <2> HIDE DEF a, e, o, r
  <2>6. /\ a \in Ledgers /\ Taken(d, a, i)
        /\ \A q \in Request : DebtOf[q] = None => a.request[q] = d.request[q]
        /\ a.stopped = d.stopped
    BY <1>4, <1>6, <2>2, <2>3, <2>4, AssignedWrite
  <2>7. Quiet(d, a) \/ Takes(d, a)
    BY <1>4, <2>2, <2>3, <2>6, TakesDebt
  <2> QED BY <2>1, <2>6, <2>7
<1>9. ASSUME x.reason = "request_message", o = None PROVE Done
  <2>1. e = b
    BY <1>9 DEF Recovery
  <2>2. r = x.marks.request /\ b = RequestMarked(m, r, "closed_no_reply")
    BY <1>9 DEF AboutRequest
  <2> HIDE DEF b, e, r
  <2>3. /\ b \in Ledgers /\ Taken(d, b, i) /\ r \in Request
        /\ b.request[r].status = "closed_no_reply"
        /\ \A q \in Request \ {r} : b.request[q] = d.request[q]
        /\ b.stopped = d.stopped
    BY <1>4, <1>6, <1>9, <2>2, ReadWrite
  <2>4. Takes(d, b)
    BY <1>4, <1>9, <2>2, <2>3, TakesMessage
  <2> QED BY <2>1, <2>3, <2>4
<1>10. ASSUME x.reason \notin Recovery, o = None, x.reason # "request_message" PROVE Done
  <2>1. e = m
    BY <1>10
  <2>2. x.reason \notin AssignmentReasons
    BY <1>1, <1>10 DEF Addressed, OwnerControl, Recovery, AssignmentReasons
  <2> HIDE DEF e
  <2>3. \A p \in Obligation : DebtTaken(d, m, p, i)
    BY <1>6, <2>2 DEF DebtTaken, Engages, Rest, Frame
  <2>4. \A q \in Request : RequestTaken(d, m, q, i)
    BY <1>6 DEF RequestTaken, Rest
  <2>5. Taken(d, m, i)
    BY <1>1, <1>6, <2>3, <2>4 DEF Taken, Rest, Frame
  <2>6. m.request = d.request /\ m.stopped = d.stopped
    BY <1>6 DEF Rest, Frame
  <2>7. Quiet(d, m) \/ Takes(d, m)
    BY <1>4, <1>6, <2>2, <2>5, <2>6, TakesReply
  <2> QED BY <1>6, <2>1, <2>5, <2>6, <2>7
<1>11. Done
  BY <1>7, <1>8, <1>9, <1>10
<1> HIDE DEF e
<1>12. PICK f \in Ledgers : /\ f = e /\ Taken(d, f, i) /\ f.stopped = d.stopped
                            /\ Quiet(d, f) \/ Takes(d, f)
  BY <1>11
<1>13. GoodBut(e, {})
  BY <1>4, <1>12, TakenGood
<1>14. Onward(d, e)
  <2>1. TakenRows(d, e, i)
    BY <1>12 DEF Taken
  <2>2. \A j \in Indexes(d) : j = i \/ e.activations[j] = d.activations[j]
    BY <2>1 DEF TakenRows
  <2>3. /\ Indexes(e) = Indexes(d) /\ d.activations[i].status \in Live
        /\ e.activations[i].status = "claimed"
    BY <2>1 DEF TakenRows
  <2> QED BY <2>2, <2>3 DEF Onward
<1>15. Quiet(d, e) \/ Takes(d, e)
  BY <1>12
<1>16. Within(d, e)
  BY <1>12, WithinSame DEF Taken
<1>17. Remembers(d, e)
  BY <1>4, <1>12, TakenRemembers
<1> QED BY <1>2, <1>13, <1>14, <1>15, <1>16, <1>17 DEF d

-----------------------------------------------------------------------------
(***************************************************************************)
(* Every transaction keeps the ledger good, moves rows, endpoints and      *)
(* revisions only forward, and is one step of the lifecycle of a request   *)
(* or none.                                                                *)
(***************************************************************************)
Life(d, e) ==
  \/ Quiet(d, e) \/ Loses(d, e) \/ Takes(d, e)
  \/ \E r \in Request : Moves(d, e, r, "unsent", "owed", FALSE, FALSE)
  \/ \E r \in Request : DebtOf[r] # None /\ Moves(d, e, r, "owed", "answered", TRUE, FALSE)
  \/ \E r \in Request : DebtOf[r] # None /\ Moves(d, e, r, "answered", "handled", TRUE, FALSE)

Steps(d, e) ==
  /\ GoodBut(e, {}) /\ Onward(d, e) /\ Within(d, e) /\ Life(d, e)
  /\ Remembers(d, e)

\* The variables beside the ledger.
Books ==
  /\ agenda' = agenda /\ publishing' = publishing /\ events' = events
  /\ \/ disruptions' = disruptions
     \/ disruptions' = disruptions + 1 /\ disruptions < agenda.disruptions

LEMMA CommitBooks == \A d : (Commit(d) => Books) /\ (Disrupt(d) => Books)
BY DEF Commit, Disrupt, Books, files

LEMMA QuietlySteps == \A d, e : Quietly(d, e) /\ Remembers(d, e) => Steps(d, e)
BY DEF Quietly, Steps, Life

LEMMA LosesSteps ==
  \A d, e : /\ GoodBut(e, {}) /\ Loses(d, e) /\ Onward(d, e) /\ Within(d, e)
            /\ Remembers(d, e)
            => Steps(d, e)
BY DEF Steps, Life

LEMMA UsableSources == Usable \subseteq Sources
BY LedgerConstants DEF Usable, Sources

\* The steps of an owner.
LEMMA OwnerSteps ==
  ASSUME GoodBut(ledger, {}), agenda \in Agendas, NEW w \in Work, OwnerStep(w)
  PROVE  Steps(ledger, ledger') /\ Books
<1>1. ASSUME NEW a \in Founder, StartWork(w, a)
      PROVE  Quietly(ledger, ledger') /\ Remembers(ledger, ledger') /\ Books
  <2>1. Books
    BY <1>1, CommitBooks DEF StartWork
  <2> QED BY <1>1, <2>1, StartWorkStep
<1>2. ASSUME AdoptRecovery(w) PROVE Quietly(ledger, ledger') /\ Remembers(ledger, ledger') /\ Books
  <2>1. Books
    BY <1>2, CommitBooks DEF AdoptRecovery
  <2> QED BY <1>2, <2>1, AdoptRecoveryStep
<1>3. ASSUME NEW any \in WaitModes, NEW sources \in SUBSET Usable, NEW handled, NEW reprocess,
             CheckpointWaiting(w, any, sources, handled, reprocess)
      PROVE  Quietly(ledger, ledger') /\ Remembers(ledger, ledger') /\ Books
  <2>1. Books
    BY <1>3, CommitBooks DEF CheckpointWaiting
  <2>2. sources \in SUBSET Sources
    BY UsableSources
  <2> QED BY <1>3, <2>1, <2>2, CheckpointWaitingStep
<1>4. ASSUME NEW mode \in agenda.modes \ {"waiting"}, NEW handled, Checkpoint(w, mode, handled)
      PROVE  Quietly(ledger, ledger') /\ Remembers(ledger, ledger') /\ Books
  <2>1. Books
    BY <1>4, CommitBooks DEF Checkpoint
  <2>2. mode \in {"paused", "continue", "complete"}
    BY ContinuityConstants
  <2> QED BY <1>4, <2>1, <2>2, CheckpointStep
<1>5. ASSUME NEW to \in Actor, Transfer(w, to) PROVE Quietly(ledger, ledger') /\ Remembers(ledger, ledger') /\ Books
  <2>1. Books
    BY <1>5, CommitBooks DEF Transfer
  <2> QED BY <1>5, <2>1, TransferStep
<1>6. \/ \E a \in Founder : StartWork(w, a)
      \/ AdoptRecovery(w)
      \/ \E any \in WaitModes, sources \in SUBSET Usable : \E handled, reprocess :
           CheckpointWaiting(w, any, sources, handled, reprocess)
      \/ \E mode \in agenda.modes \ {"waiting"} : \E handled : Checkpoint(w, mode, handled)
      \/ \E to \in Actor : Transfer(w, to)
  BY DEF OwnerStep
<1>7. Quietly(ledger, ledger') /\ Remembers(ledger, ledger') /\ Books
  BY <1>1, <1>2, <1>3, <1>4, <1>5, <1>6
<1> QED BY <1>7, QuietlySteps

\* The steps of an assignee.
LEMMA AssigneeSteps ==
  ASSUME GoodBut(ledger, {}), agenda \in Agendas, NEW o \in Obligation, AssigneeStep(o)
  PROVE  Steps(ledger, ledger') /\ Books
<1>1. ASSUME OpenObligation(o) PROVE Steps(ledger, ledger') /\ Books
  <2>1. Books
    BY <1>1, CommitBooks DEF OpenObligation
  <2> QED BY <1>1, <2>1, OpenObligationStep, QuietlySteps
<1>2. ASSUME ResolveObligation(o) PROVE Steps(ledger, ledger') /\ Books
  <2>1. Books
    BY <1>2, CommitBooks DEF ResolveObligation
  <2> QED BY <1>2, <2>1, ResolveObligationStep, QuietlySteps
<1>3. ASSUME NEW mode \in agenda.assignments, NEW any \in WaitModes, NEW sources \in SUBSET Usable,
             NEW handled, NEW reprocess, AssignmentCheckpoint(o, mode, any, sources, handled, reprocess)
      PROVE  Steps(ledger, ledger') /\ Books
  <2>1. Books
    BY <1>3, CommitBooks DEF AssignmentCheckpoint
  <2>2. sources \in SUBSET Sources
    BY UsableSources
  <2>3. mode \in {"paused", "continue", "waiting"} /\ any \in BOOLEAN
    BY ContinuityConstants
  <2>4. GoodBut(ledger', {}) /\ Loses(ledger, ledger') /\ Onward(ledger, ledger')
        /\ Within(ledger, ledger') /\ Remembers(ledger, ledger')
    BY <1>3, <2>2, <2>3, AssignmentCheckpointStep
  <2> QED BY <2>1, <2>4, LosesSteps
<1>4. \/ OpenObligation(o) \/ ResolveObligation(o)
      \/ \E mode \in agenda.assignments, any \in WaitModes, sources \in SUBSET Usable :
           \E handled, reprocess : AssignmentCheckpoint(o, mode, any, sources, handled, reprocess)
  BY DEF AssigneeStep
<1> QED BY <1>1, <1>2, <1>3, <1>4

\* The steps of a request.
LEMMA RequestSteps ==
  ASSUME GoodBut(ledger, {}), NEW r \in Request, RequestStep(r)
  PROVE  Steps(ledger, ledger') /\ Books
<1>1. ASSUME RequestSend(r) PROVE Steps(ledger, ledger') /\ Books
  <2>1. Books
    BY <1>1, CommitBooks DEF RequestSend
  <2>2. /\ GoodBut(ledger', {}) /\ Onward(ledger, ledger') /\ Within(ledger, ledger')
        /\ Remembers(ledger, ledger')
        /\ Moves(ledger, ledger', r, "unsent", "owed", FALSE, FALSE)
    BY <1>1, RequestSendStep
  <2> QED BY <2>1, <2>2 DEF Steps, Life
<1>2. ASSUME RequestProgress(r) PROVE Steps(ledger, ledger') /\ Books
  <2>1. Books
    BY <1>2, CommitBooks DEF RequestProgress
  <2> QED BY <1>2, <2>1, RequestProgressStep, QuietlySteps
<1>3. ASSUME RequestRespond(r) PROVE Steps(ledger, ledger') /\ Books
  <2>1. Books /\ DebtOf[r] # None
    BY <1>3, CommitBooks DEF RequestRespond, Responding
  <2>2. /\ GoodBut(ledger', {}) /\ Onward(ledger, ledger') /\ Within(ledger, ledger')
        /\ Remembers(ledger, ledger')
        /\ Moves(ledger, ledger', r, "owed", "answered", TRUE, FALSE)
    BY <1>3, RequestRespondStep
  <2> QED BY <2>1, <2>2 DEF Steps, Life
<1>4. ASSUME RequestHandle(r) PROVE Steps(ledger, ledger') /\ Books
  <2>1. Books /\ ledger.request[r].status = "reply_ready"
    BY <1>4, CommitBooks DEF RequestHandle
  <2>2. /\ GoodBut(ledger', {}) /\ Onward(ledger, ledger') /\ Within(ledger, ledger')
        /\ Remembers(ledger, ledger')
        /\ Moves(ledger, ledger', r, "answered", "handled", TRUE, FALSE)
    BY <1>4, RequestHandleStep
  <2>3. RequestKept(ledger, r)
    BY GoodParts
  <2>4. DebtOf[r] # None
    BY <2>1, <2>3 DEF RequestKept
  <2> QED BY <2>1, <2>2, <2>4 DEF Steps, Life
<1> QED BY <1>1, <1>2, <1>3, <1>4 DEF RequestStep

\* The claim of an activation.
LEMMA ClaimSteps ==
  ASSUME GoodBut(ledger, {}), NEW i \in Indexes(ledger), Claim(i)
  PROVE  Steps(ledger, ledger') /\ Books
<1>1. Books
  BY CommitBooks DEF Claim
<1>2. /\ GoodBut(ledger', {}) /\ Onward(ledger, ledger') /\ Within(ledger, ledger')
      /\ Quiet(ledger, ledger') \/ Takes(ledger, ledger')
      /\ Remembers(ledger, ledger')
  BY ClaimStep
<1> QED BY <1>1, <1>2 DEF Steps, Life

\* Endpoints and controls.
LEMMA ControlSteps ==
  ASSUME GoodBut(ledger, {}), ControlStep
  PROVE  Steps(ledger, ledger') /\ Books
<1>1. ASSUME NEW a \in Actor, RegisterActor(a) PROVE Steps(ledger, ledger') /\ Books
  <2>1. Books
    BY <1>1, CommitBooks DEF RegisterActor
  <2>2. /\ GoodBut(ledger', {}) /\ Loses(ledger, ledger') /\ Onward(ledger, ledger')
        /\ Within(ledger, ledger') /\ Remembers(ledger, ledger')
    BY <1>1, RegisterActorStep
  <2> QED BY <2>1, <2>2, LosesSteps
<1>2. ASSUME NEW a \in Actor, NEW scope \in {"project"} \cup Actor \cup Work, Stop(scope, a)
      PROVE  Steps(ledger, ledger') /\ Books
  <2>1. Books
    BY <1>2, CommitBooks DEF Stop
  <2> QED BY <1>2, <2>1, StopStep, QuietlySteps
<1>3. ASSUME NEW a \in Actor, NEW scope \in {"project"} \cup Actor \cup Work, Resume(scope, a)
      PROVE  Steps(ledger, ledger') /\ Books
  <2>1. Books
    BY <1>3, CommitBooks DEF Resume
  <2> QED BY <1>3, <2>1, ResumeStep, QuietlySteps
<1> QED BY <1>1, <1>2, <1>3 DEF ControlStep

\* What the service does by itself.
LEMMA ServiceSteps ==
  ASSUME GoodBut(ledger, {}), ServiceStep
  PROVE  Steps(ledger, ledger') /\ Books
<1>1. ASSUME ConfigureRecovery PROVE Quietly(ledger, ledger') /\ Remembers(ledger, ledger') /\ Books
  <2>1. Books
    BY <1>1, CommitBooks DEF ConfigureRecovery
  <2> QED BY <1>1, <2>1, ConfigureRecoveryStep
<1>2. ASSUME NEW s \in External, NEW outcome \in {"unreadable", "terminal"}, SourceEnds(s, outcome)
      PROVE  Quietly(ledger, ledger') /\ Remembers(ledger, ledger') /\ Books
  <2>1. Books
    BY <1>2, CommitBooks DEF SourceEnds
  <2> QED BY <1>2, <2>1, SourceEndsStep
<1>3. ASSUME NEW s \in External, ObserveSignal(s) PROVE Quietly(ledger, ledger') /\ Remembers(ledger, ledger') /\ Books
  <2>1. Books
    BY <1>3, CommitBooks DEF ObserveSignal
  <2> QED BY <1>3, <2>1, ObserveSignalStep
<1>4. ASSUME NEW due, Reconcile(due) PROVE Quietly(ledger, ledger') /\ Remembers(ledger, ledger') /\ Books
  <2>1. Books
    BY <1>4, CommitBooks DEF Reconcile
  <2> QED BY <1>4, <2>1, ReconcileStep
<1>5. ASSUME SelfCheck PROVE Quietly(ledger, ledger') /\ Remembers(ledger, ledger') /\ Books
  <2>1. Books
    BY <1>5, CommitBooks DEF SelfCheck
  <2> QED BY <1>5, <2>1, SelfCheckStep
<1>6. Quietly(ledger, ledger') /\ Remembers(ledger, ledger') /\ Books
  BY <1>1, <1>2, <1>3, <1>4, <1>5 DEF ServiceStep
<1> QED BY <1>6, QuietlySteps

-----------------------------------------------------------------------------
(***************************************************************************)
(* The inductive invariant.                                                *)
(***************************************************************************)
LEMMA InitLedger ==
  ASSUME Init
  PROVE  GoodBut(ledger, {}) /\ Indexes(ledger) = {} /\ Routed(ledger)
<1> DEFINE d == ledger
<1>1. /\ d.generation = [a \in Actor |-> 1]
      /\ d.work = [w \in Work |-> [mode |-> "none", owner |-> None, revision |-> 0]]
      /\ d.wait = [w \in Work |-> NoWait] /\ d.handled = [w \in Work |-> {}]
      /\ d.replays = [w \in Work |-> {}]
      /\ d.obligation = [o \in Obligation |-> [status |-> "none", generation |-> 0, claim |-> 0]]
      /\ d.assignment = [o \in Obligation |->
                          [mode |-> "none", any |-> FALSE, sources |-> {}, handled |-> {}]]
      /\ d.request = [r \in Request |->
                        [status |-> "none", message |-> 0, reply |-> 0, answered |-> FALSE]]
      /\ d.results = <<>> /\ d.activations = <<>> /\ d.incidents = {}
  BY DEF Init
<1>2. d \in Ledgers
  <2>1. /\ [a \in Actor |-> 1] \in [Actor -> Nat]
        /\ [w \in Work |-> [mode |-> "none", owner |-> None, revision |-> 0]] \in [Work -> WorkRow]
        /\ [w \in Work |-> NoWait] \in [Work -> WaitRow]
    BY DEF WorkRow, WaitRow, NoWait
  <2>2. /\ [w \in Work |-> {}] \in [Work -> SUBSET Outcome]
        /\ [w \in Work |-> {}] \in [Work -> SUBSET (Outcome \X Nat)]
        /\ [w \in Work |-> <<0, 0, 0>>] \in [Work -> Nat \X Nat \X Nat]
    OBVIOUS
  <2>3. /\ [o \in Obligation |-> [status |-> "none", generation |-> 0, claim |-> 0]]
             \in [Obligation -> DebtRow]
        /\ [o \in Obligation |-> [mode |-> "none", any |-> FALSE, sources |-> {}, handled |-> {}]]
             \in [Obligation -> AssignmentRow]
        /\ [o \in Obligation |-> {}] \in [Obligation -> SUBSET Outcome]
    BY DEF DebtRow, AssignmentRow
  <2>4. /\ [r \in Request |-> [status |-> "none", message |-> 0, reply |-> 0, answered |-> FALSE]]
             \in [Request -> RequestRow]
        /\ [s \in External |-> "pending"] \in [External -> {"pending", "unreadable", "terminal"}]
    BY DEF RequestRow
  <2>5. <<>> \in Seq(Outcome) /\ <<>> \in Seq(Row)
    OBVIOUS
  <2> QED BY <2>1, <2>2, <2>3, <2>4, <2>5 DEF Init, Ledgers
<1>3. Indexes(d) = {} /\ Outcomes(d) = {}
  <2>1. DOMAIN <<>> = {}
    OBVIOUS
  <2> QED BY <1>1, <2>1 DEF Indexes, Outcomes, Range
<1> HIDE DEF d
<1>4. \A w \in Work : WorkKept(d, w)
  BY <1>1 DEF WorkKept, NoWait, PendingReplays
<1>5. \A o \in Obligation : DebtKept(d, o) /\ Settled(d, o)
  BY <1>1 DEF DebtKept, Settled
<1>6. ASSUME NEW r \in Request PROVE RequestKept(d, r)
  <2>1. /\ d.request[r].status = "none" /\ d.request[r].reply = 0 /\ d.request[r].answered = FALSE
        /\ d.request[r].message = 0
        /\ DebtOf[r] # None => d.obligation[DebtOf[r]].status = "none"
    BY <1>1, LedgerConstants
  <2> QED BY <1>3, <2>1 DEF RequestKept
<1>7. GoodBut(d, {})
  BY <1>1, <1>2, <1>3, <1>4, <1>5, <1>6 DEF GoodBut, Good
<1>8. Routed(d)
  <2>1. /\ \A o \in Obligation : d.obligation[o].status = "none"
        /\ \A w \in Work : d.work[w].mode = "none"
    BY <1>1
  <2> QED BY <2>1 DEF Routed, DebtRouted, Owed, InStep, OwnerRouted, Continues
<1> QED BY <1>3, <1>7, <1>8 DEF d


Inv ==
  /\ GoodBut(ledger, {}) /\ Routed(ledger)
  /\ agenda \in Agendas /\ disruptions \in 0..agenda.disruptions
  /\ \A a \in Actor : ledger.generation[a] \in 1..agenda.generations
  /\ \A w \in Work : ledger.work[w].revision <= agenda.revisions
  /\ publishing \subseteq Indexes(ledger) /\ events \subseteq Indexes(ledger)
  /\ \A i \in Indexes(ledger) : ledger.activations[i].status = "published" => i \in events

\* Every action but those of the publisher.
Transaction ==
  \/ \E w \in Work : OwnerStep(w)
  \/ \E o \in Obligation : AssigneeStep(o)
  \/ \E r \in Request : RequestStep(r)
  \/ \E i \in Indexes(ledger) : Claim(i)
  \/ ControlStep \/ ServiceStep

LEMMA TransactionSteps ==
  ASSUME GoodBut(ledger, {}), agenda \in Agendas, Transaction
  PROVE  Steps(ledger, ledger') /\ Books
BY OwnerSteps, AssigneeSteps, RequestSteps, ClaimSteps, ControlSteps, ServiceSteps DEF Transaction

\* A publisher moves no row but the one it marks.
LEMMA PublisherSteps ==
  ASSUME GoodBut(ledger, {}), NEW i \in Indexes(ledger),
         ReadPending(i) \/ WriteEvent(i) \/ MarkPublished(i) \/ PublicationFails(i)
  PROVE  /\ GoodBut(ledger', {}) /\ Quiet(ledger, ledger') /\ Within(ledger, ledger')
         /\ Remembers(ledger, ledger')
         /\ Indexes(ledger') = Indexes(ledger)
         /\ \A j \in Indexes(ledger) :
              \/ ledger'.activations[j].status = ledger.activations[j].status
              \/ j = i /\ i \in events /\ ledger.activations[j].status = "pending"
         /\ agenda' = agenda /\ disruptions' = disruptions
         /\ publishing' \subseteq publishing \cup {i} /\ events \subseteq events'
         /\ events' \subseteq events \cup {i}
<1>1. CASE MarkPublished(i)
  <2>1. /\ agenda' = agenda /\ disruptions' = disruptions /\ i \in events
        /\ publishing' \subseteq publishing /\ events' = events
    BY <1>1 DEF MarkPublished
  <2> QED BY <1>1, <2>1, MarkPublishedStep
<1>2. CASE ReadPending(i) \/ WriteEvent(i) \/ PublicationFails(i)
  <2>1. /\ ledger' = ledger /\ agenda' = agenda /\ disruptions' = disruptions
        /\ publishing' \subseteq publishing \cup {i} /\ events \subseteq events'
        /\ events' \subseteq events \cup {i}
    BY <1>2 DEF ReadPending, WriteEvent, PublicationFails
  <2>2. Quiet(ledger, ledger') /\ Within(ledger, ledger') /\ Remembers(ledger, ledger')
    BY <2>1, WithinSame DEF Quiet, Alike, Remembers
  <2> QED BY <2>1, <2>2
<1> QED BY <1>1, <1>2

\* The invariant, and the parts of it that a step could break.
LEMMA InitInv ==
  ASSUME Init
  PROVE  Inv
<1>1. GoodBut(ledger, {}) /\ Indexes(ledger) = {} /\ Routed(ledger)
  BY InitLedger
<1>2. agenda \in Agendas /\ disruptions = 0 /\ publishing = {} /\ events = {}
  BY DEF Init
<1>3. agenda.revisions \in Nat /\ agenda.generations \in Nat \ {0} /\ agenda.disruptions \in Nat
  BY <1>2, ContinuityConstants
<1>4. /\ \A a \in Actor : ledger.generation[a] = 1
      /\ \A w \in Work : ledger.work[w].revision = 0
  BY DEF Init
<1> QED BY <1>1, <1>2, <1>3, <1>4 DEF Inv

\* What moves only within its bounds stays within them.
LEMMA WithinBounds ==
  ASSUME NEW d \in Ledgers, NEW e, Within(d, e), agenda \in Agendas,
         \A a \in Actor : d.generation[a] \in 1..agenda.generations,
         \A w \in Work : d.work[w].revision <= agenda.revisions
  PROVE  /\ \A a \in Actor : e.generation[a] \in 1..agenda.generations
         /\ \A w \in Work : e.work[w].revision <= agenda.revisions
<1>1. agenda.revisions \in Nat \ {0} /\ agenda.generations \in Nat \ {0}
  BY ContinuityConstants
<1>2. \A w \in Work : d.work[w].revision \in Nat
  BY LedgerFields DEF WorkRow
<1>3. ASSUME NEW a \in Actor PROVE e.generation[a] \in 1..agenda.generations
  BY <1>1, <1>3 DEF Within
<1>4. ASSUME NEW w \in Work PROVE e.work[w].revision <= agenda.revisions
  BY <1>1, <1>2, <1>4 DEF Within
<1> QED BY <1>3, <1>4

LEMMA TransactionInv ==
  ASSUME Inv, Transaction
  PROVE  Inv'
<1>1. /\ GoodBut(ledger, {}) /\ Routed(ledger) /\ agenda \in Agendas /\ disruptions \in 0..agenda.disruptions
      /\ \A a \in Actor : ledger.generation[a] \in 1..agenda.generations
      /\ \A w \in Work : ledger.work[w].revision <= agenda.revisions
      /\ publishing \subseteq Indexes(ledger) /\ events \subseteq Indexes(ledger)
      /\ \A i \in Indexes(ledger) : ledger.activations[i].status = "published" => i \in events
  BY DEF Inv
<1>2. Steps(ledger, ledger') /\ Books
  BY <1>1, TransactionSteps
<1>3. /\ GoodBut(ledger', {}) /\ Onward(ledger, ledger') /\ Within(ledger, ledger')
      /\ Routed(ledger')
  BY <1>1, <1>2 DEF Steps, Remembers
<1>4. /\ \A a \in Actor : ledger'.generation[a] \in 1..agenda.generations
      /\ \A w \in Work : ledger'.work[w].revision <= agenda.revisions
  <2>1. ledger \in Ledgers
    BY <1>1, GoodParts
  <2> QED BY <1>1, <1>3, <2>1, WithinBounds
<1>5. agenda' = agenda /\ publishing' = publishing /\ events' = events
      /\ disruptions' \in 0..agenda.disruptions
  <2>1. agenda.disruptions \in Nat
    BY <1>1, ContinuityConstants
  <2> QED BY <1>1, <1>2, <2>1 DEF Books
<1>6. publishing \subseteq Indexes(ledger') /\ events \subseteq Indexes(ledger')
  BY <1>1, <1>3 DEF Onward
<1>7. \A i \in Indexes(ledger') : ledger'.activations[i].status = "published" => i \in events
  BY <1>1, <1>3 DEF Onward
<1> QED BY <1>1, <1>3, <1>4, <1>5, <1>6, <1>7 DEF Inv

LEMMA PublisherInv ==
  ASSUME Inv, PublisherStep
  PROVE  Inv'
<1>1. /\ GoodBut(ledger, {}) /\ Routed(ledger) /\ agenda \in Agendas /\ disruptions \in 0..agenda.disruptions
      /\ \A a \in Actor : ledger.generation[a] \in 1..agenda.generations
      /\ \A w \in Work : ledger.work[w].revision <= agenda.revisions
      /\ publishing \subseteq Indexes(ledger) /\ events \subseteq Indexes(ledger)
      /\ \A i \in Indexes(ledger) : ledger.activations[i].status = "published" => i \in events
  BY DEF Inv
<1>2. PICK i \in Indexes(ledger) :
        ReadPending(i) \/ WriteEvent(i) \/ MarkPublished(i) \/ PublicationFails(i)
  BY DEF PublisherStep
<1>3. /\ GoodBut(ledger', {}) /\ Within(ledger, ledger') /\ Indexes(ledger') = Indexes(ledger)
      /\ Routed(ledger')
      /\ \A j \in Indexes(ledger) :
           \/ ledger'.activations[j].status = ledger.activations[j].status
           \/ j = i /\ i \in events /\ ledger.activations[j].status = "pending"
      /\ agenda' = agenda /\ disruptions' = disruptions
      /\ publishing' \subseteq publishing \cup {i} /\ events \subseteq events'
      /\ events' \subseteq events \cup {i}
  BY <1>1, <1>2, PublisherSteps DEF Remembers
<1>4. /\ \A a \in Actor : ledger'.generation[a] \in 1..agenda.generations
      /\ \A w \in Work : ledger'.work[w].revision <= agenda.revisions
  <2>1. ledger \in Ledgers
    BY <1>1, GoodParts
  <2> QED BY <1>1, <1>3, <2>1, WithinBounds
<1>5. publishing' \subseteq Indexes(ledger') /\ events' \subseteq Indexes(ledger')
  BY <1>1, <1>2, <1>3
<1>6. \A j \in Indexes(ledger') : ledger'.activations[j].status = "published" => j \in events'
  BY <1>1, <1>3
<1> QED BY <1>1, <1>3, <1>4, <1>5, <1>6 DEF Inv

\* The invariant is kept by every step.
THEOREM Invariance == Spec => []Inv
<1>1. ASSUME Inv, [Next]_vars PROVE Inv'
  <2>1. CASE Transaction
    BY <1>1, <2>1, TransactionInv
  <2>2. CASE PublisherStep
    BY <1>1, <2>2, PublisherInv
  <2>3. CASE UNCHANGED vars
    BY <1>1, <2>3 DEF vars, Inv
  <2> QED BY <1>1, <2>1, <2>2, <2>3 DEF Next, Transaction
<1> QED BY <1>1, InitInv, PTL DEF Spec

-----------------------------------------------------------------------------
(***************************************************************************)
(* What the invariant says.                                                *)
(***************************************************************************)
\* Every table holds the states the schema and the code give it.
LEMMA InvTypes ==
  ASSUME Inv
  PROVE  TypeOK
<1>1. /\ GoodBut(ledger, {}) /\ agenda \in Agendas /\ disruptions \in 0..agenda.disruptions
      /\ \A a \in Actor : ledger.generation[a] \in 1..agenda.generations
      /\ \A w \in Work : ledger.work[w].revision <= agenda.revisions
      /\ publishing \subseteq Indexes(ledger) /\ events \subseteq Indexes(ledger)
  BY DEF Inv
<1>2. /\ ledger \in Ledgers
      /\ \A w \in Work : WorkKept(ledger, w)
      /\ \A o \in Obligation : DebtKept(ledger, o)
  BY <1>1, GoodParts
<1>3. ledger.generation \in [Actor -> 1..agenda.generations]
  BY <1>1, <1>2, LedgerFields
<1>4. ASSUME NEW w \in Work
      PROVE  /\ ledger.work[w].mode \in {"none", "paused", "continue", "waiting", "complete"}
             /\ ledger.work[w].revision \in 0..agenda.revisions
             /\ ledger.wait[w].sources # {} <=> ledger.work[w].mode = "waiting"
  <2>1. ledger.work[w] \in WorkRow /\ WorkKept(ledger, w) /\ agenda.revisions \in Nat
    BY <1>1, <1>2, LedgerFields, ContinuityConstants
  <2> QED BY <1>1, <2>1 DEF WorkRow, WorkKept
<1>5. ASSUME NEW o \in Obligation
      PROVE  /\ ledger.obligation[o].status \in {"none", "open", "resolved"}
             /\ ledger.obligation[o].claim \in {0} \cup Indexes(ledger)
  <2>1. ledger.obligation[o] \in DebtRow /\ DebtKept(ledger, o)
    BY <1>2, LedgerFields
  <2> QED BY <2>1 DEF DebtRow, DebtKept
<1>6. \A r \in Request : ledger.request[r].status \in
        {"none", "delivery_pending", "claimed", "reply_ready", "handled", "closed_no_reply"}
  BY <1>2, LedgerFields DEF RequestRow
<1>7. \A i \in Indexes(ledger) :
        ledger.activations[i].status \in {"pending", "published", "claimed", "revoked"}
  BY <1>2, LedgerFields DEF Row, Active, Live
<1> QED BY <1>1, <1>3, <1>4, <1>5, <1>6, <1>7 DEF TypeOK

\* The notices that ObligationRoutes selects are current.
LEMMA InvClaims ==
  ASSUME Inv
  PROVE  SingleAssignmentClaim
<1>1. /\ ledger \in Ledgers
      /\ \A i \in Indexes(ledger) : Addressed(ledger, ledger.activations[i]) /\ NoticeKept(ledger, i)
  BY GoodParts DEF Inv
<1>2. ASSUME NEW o \in Obligation,
             NEW i \in ObligationRoutes(ledger, o, AssignmentReasons),
             ledger.obligation[o].status = "open", ledger.activations[i].status = "claimed"
      PROVE  ledger.obligation[o].claim = i
  <2>1. /\ i \in Indexes(ledger) /\ ledger.activations[i].marks.obligation = o
        /\ ledger.activations[i].reason \in AssignmentReasons
        /\ ledger.activations[i].generation = ledger.obligation[o].generation
    BY DEF ObligationRoutes
  <2>2. ledger.activations[i].reason # "assignment_recovery" /\ o # None
    BY <2>1, LedgerConstants DEF AssignmentReasons
  <2>3. Current(ledger, i, o) /\ NoticeKept(ledger, i)
    BY <1>1, <2>1, <2>2 DEF Current
  <2> QED BY <1>2, <2>1, <2>2, <2>3 DEF NoticeKept, Active
<1>3. AssignmentReasons =
        {"obligation_assigned", "obligation_reminder", "request_message", "assignment_continue",
         "assignment_paused_control", "assignment_wait_satisfied"}
  BY DEF AssignmentReasons
<1>4. \A o \in Obligation : \A i \in ObligationRoutes(ledger, o, AssignmentReasons) :
        ledger.obligation[o].status = "open" /\ ledger.activations[i].status = "claimed"
          => ledger.obligation[o].claim = i
  BY <1>2
<1> QED BY <1>3, <1>4 DEF SingleAssignmentClaim

\* In every committed state the rows of a request, the claims of an assignment, the nudges of a
\* claim, the results put back and the published events agree (request_respond, claim,
\* _reconcile_recovery, publish_pending).
THEOREM LedgerStaysConsistent == Spec => []LedgerConsistent
<1>1. ASSUME Inv PROVE LedgerConsistent
  <2>1. /\ ledger \in Ledgers
        /\ \A w \in Work : WorkKept(ledger, w)
        /\ \A r \in Request : RequestKept(ledger, r)
        /\ \A i \in Indexes(ledger) : NudgeKept(ledger, i)
    BY <1>1, GoodParts DEF Inv
  <2>2. TypeOK /\ SingleAssignmentClaim
    BY <1>1, InvTypes, InvClaims
  <2>3. ReplyAgreement
    BY <2>1 DEF ReplyAgreement, RequestKept
  <2>4. ReplayIsUnhandled
    BY <2>1 DEF ReplayIsUnhandled, WorkKept
  <2>5. OneNudge
    BY <2>1 DEF OneNudge, NudgeKept
  <2>6. PublishedHasEvent
    BY <1>1 DEF PublishedHasEvent, Inv
  <2> QED BY <2>2, <2>3, <2>4, <2>5, <2>6 DEF LedgerConsistent
<1> QED BY <1>1, Invariance, PTL

\* What one reconcile brings about: nothing that is owed changes, the waits that are over and
\* the messages of the open requests have their route, and nobody is forgotten meanwhile.
LEMMA ReconciledKeeps ==
  ASSUME GoodBut(ledger, {}), Routed(ledger)
  PROVE  LET d == Reconciled
         IN /\ GoodBut(d, {}) /\ Routed(d) /\ Frame(ledger, d)
            /\ \A w \in Work : ~ExplicitStop(d, w, d.work[w].owner) => WaitRouted(d, w)
            /\ \A o \in Obligation : ~ExplicitStop(d, WorkOf[o], Assignee[o]) => WaitNoticed(d, o)
            /\ \A r \in Request : MessageRouted(d, r)
<1> DEFINE a == ReconcileSources(ledger, WaitSources)
           b == EvaluateWaits(a)
           d == RedeliverRequests(b, Request)
<1>1. Reconciled = d
  BY DEF Reconciled
<1>2. Keeps(ledger, a, {})
  BY ReconcileSourcesKeeps
<1> HIDE DEF a
<1>3. GoodBut(a, {})
  BY <1>2 DEF Keeps
<1>4. /\ Keeps(a, b, {})
      /\ \A w \in Work : ~ExplicitStop(a, w, a.work[w].owner) => WaitRouted(b, w)
      /\ \A o \in Obligation : ~ExplicitStop(a, WorkOf[o], Assignee[o]) => WaitNoticed(b, o)
  BY <1>3, EvaluateWaitsKeep
<1> HIDE DEF b
<1>5. GoodBut(b, {})
  BY <1>4 DEF Keeps
<1>6. Keeps(b, d, {}) /\ d.results = b.results /\ \A r \in Request : MessageRouted(d, r)
  BY <1>5, RedeliverRequestsKeep
<1> HIDE DEF d
<1>7. Keeps(ledger, b, {})
  BY <1>2, <1>4, KeepsTransitive
<1>8. Keeps(ledger, d, {})
  BY <1>6, <1>7, KeepsTransitive
<1>9. Routed(d)
  BY <1>8, RemembersKept DEF Remembers
<1>10. Frame(ledger, d) /\ GoodBut(d, {}) /\ Frame(b, d) /\ Frame(a, b)
  BY <1>4, <1>6, <1>8 DEF Keeps, Extends
<1>11. d.work = a.work /\ d.stopped = a.stopped
  BY <1>10 DEF Frame
<1>12. \A w, x : ExplicitStop(d, w, x) <=> ExplicitStop(a, w, x)
  BY <1>11 DEF ExplicitStop
<1>13. ASSUME NEW w \in Work, ~ExplicitStop(d, w, d.work[w].owner) PROVE WaitRouted(d, w)
  <2>1. WaitRouted(b, w)
    BY <1>4, <1>11, <1>12, <1>13
  <2> QED BY <1>5, <1>6, <2>1, WaitStays
<1>14. ASSUME NEW o \in Obligation, ~ExplicitStop(d, WorkOf[o], Assignee[o]) PROVE WaitNoticed(d, o)
  <2>1. WaitNoticed(b, o)
    BY <1>4, <1>12, <1>14
  <2> QED BY <1>5, <1>6, <2>1, WaitNoticeStays
<1> QED BY <1>1, <1>6, <1>9, <1>10, <1>13, <1>14

LEMMA NobodyWaits ==
  ASSUME Inv
  PROVE  NobodyForgotten
<1> DEFINE d == Reconciled
<1>1. /\ GoodBut(d, {}) /\ Routed(d) /\ Frame(ledger, d)
      /\ \A w \in Work : ~ExplicitStop(d, w, d.work[w].owner) => WaitRouted(d, w)
      /\ \A o \in Obligation : ~ExplicitStop(d, WorkOf[o], Assignee[o]) => WaitNoticed(d, o)
      /\ \A r \in Request : MessageRouted(d, r)
  BY ReconciledKeeps DEF Inv
<1> HIDE DEF d
<1>2. d.obligation = ledger.obligation /\ d.work = ledger.work
  BY <1>1 DEF Frame
<1>3. ASSUME NEW o \in Obligation, d.obligation[o].status = "open",
             ~ExplicitStop(d, WorkOf[o], Assignee[o]),
             ~(RequestOf(o) = None /\ d.work[WorkOf[o]].mode = "complete")
      PROVE  Reached(d, o) \/ (AssignmentWait(d, o) /\ ~AssignmentSatisfied(d, o))
  <2>1. ContinuationAllowed(d, o)
    BY <1>3 DEF ContinuationAllowed
  <2> QED BY <1>1, <1>3, <2>1, DebtReached
<1>4. NoDebtForgotten
  <2> SUFFICES ASSUME NEW o \in Obligation
               PROVE  \/ ledger.obligation[o].status # "open" \/ ExplicitStop(d, WorkOf[o], Assignee[o])
                      \/ RequestOf(o) = None /\ ledger.work[WorkOf[o]].mode = "complete"
                      \/ CurrentClaim(d, o) # 0
                      \/ AssignmentWait(d, o) /\ ~AssignmentSatisfied(d, o)
                      \/ \E i \in Indexes(d) : LET x == d.activations[i]
                                               IN x.status \in Live /\ x.marks.obligation = o
                                                    /\ x.actor = Assignee[o]
                                                    /\ x.endpoint = d.generation[x.actor]
                                                    /\ x.generation = d.obligation[o].generation
    BY DEF NoDebtForgotten, d
  <2> QED BY <1>2, <1>3 DEF Reached
<1>5. NoOwnerForgotten
  <2> SUFFICES ASSUME NEW w \in Work
               PROVE  \/ ledger.work[w].mode \notin {"continue", "waiting"}
                      \/ ExplicitStop(d, w, d.work[w].owner)
                      \/ d.work[w].mode = "waiting" /\ ~WaitSatisfied(d, w)
                      \/ \E reason \in OwnerControl : OwnerRoutes(d, w, reason) # {}
                      \/ CompletionReplies(d, w) # {}
    BY DEF NoOwnerForgotten, d
  <2> QED BY <1>1, <1>2, OwnerReached
<1> QED BY <1>4, <1>5 DEF NobodyForgotten

\* However the transactions followed one another, one reconcile leaves every actor that owes
\* something a claim, a notice at its present endpoint, or a wait that is not over; and every
\* owner that goes on a route (checkpoint, register_actor, transfer, stop, resume, reconcile).
THEOREM NobodyIsForgotten == Spec => []NobodyForgotten
<1>1. Inv => NobodyForgotten
  BY NobodyWaits
<1> QED BY <1>1, Invariance, PTL

\* A live row about a request is for the actor that the request names.
LEMMA RequestsAgree ==
  ASSUME NEW i \in Indexes(ledger), GoodBut(ledger, {}), ledger.activations[i].status \in Live
  PROVE  RequestAgrees(i, ledger.activations[i])
<1> DEFINE x == ledger.activations[i]
           r == x.marks.request
           o == x.marks.obligation
           q == AboutRequest(x)
<1>1. ledger \in Ledgers /\ Addressed(ledger, x) /\ LiveKept(ledger, i)
  BY GoodParts
<1>2. x \in Row /\ o \in Obligation \cup {None} /\ r \in Request \cup {None}
  BY <1>1, LedgerFields DEF Row, Marks
<1>3. SUFFICES ASSUME q # None PROVE RequestAgrees(i, x)
  BY DEF RequestAgrees
<1>4. CASE o # None
  <2>1. q = RequestOf(o) /\ q \in Request /\ DebtOf[q] = o
    <3>1. q = RequestOf(o)
      BY <1>1, <1>3, <1>4 DEF AboutRequest, Addressed
    <3> QED BY <1>2, <1>3, <1>4, <3>1 DEF RequestOf
  <2>2. x.actor = Assignee[q]
    BY <1>1, <1>4, <2>1, LedgerConstants DEF Addressed
  <2>3. x.reason # "request_reply" /\ ~ReplyRecovery(x)
    BY <1>1, <1>4 DEF Addressed, AssignmentReasons, ReplyRecovery
  <2> HIDE DEF x
  <2> QED BY <2>2, <2>3 DEF RequestAgrees, x
<1>5. CASE o = None
  <2>1. q = r /\ r # None /\ r \in Request
    BY <1>2, <1>3, <1>5 DEF AboutRequest
  <2>2. x.reason \in {"work_recovery", "request_message", "request_reply"}
    BY <1>1, <1>5, <2>1 DEF Addressed
  <2>3. CASE x.reason = "request_message"
    <3>1. x.actor = Assignee[q] /\ x.reason # "request_reply" /\ ~ReplyRecovery(x)
      BY <1>1, <2>1, <2>3 DEF Addressed, ReplyRecovery
    <3> HIDE DEF x
    <3> QED BY <3>1 DEF RequestAgrees, x
  <2>4. CASE x.reason = "request_reply"
    <3>1. x.actor = ReturnActor[q] /\ ~ReplyRecovery(x) /\ ledger.request[q].reply = i
          /\ ledger.request[q].status = "reply_ready"
      BY <1>1, <2>1, <2>4 DEF Addressed, LiveKept, ReplyRecovery
    <3> HIDE DEF x
    <3> QED BY <2>4, <3>1 DEF RequestAgrees, x
  <2>5. CASE x.reason = "work_recovery"
    <3>1. /\ x.actor = ReturnActor[q] /\ ReplyRecovery(x) /\ x.reason # "request_reply"
          /\ ledger.request[q].reply = x.marks.after /\ ledger.request[q].status = "reply_ready"
          /\ ledger.activations[x.marks.after].status = "claimed"
      BY <1>1, <2>1, <2>5 DEF Addressed, LiveKept, ReplyRecovery
    <3> HIDE DEF x
    <3> QED BY <3>1 DEF RequestAgrees, x
  <2> QED BY <2>2, <2>3, <2>4, <2>5
<1> QED BY <1>2, <1>4, <1>5

\* Whatever is live can be claimed by the actor it is addressed to, unless that actor is stopped
\* or its work does not go on: the watcher never delivers what claim would refuse
\* (delivery_disposition, claim).
THEOREM DeliveryIsClaimable == Spec => []DeliverableIsClaimable
<1>1. ASSUME Inv PROVE DeliverableIsClaimable
  <2> SUFFICES ASSUME NEW i \in Indexes(ledger), ledger.activations[i].status \in Live,
                      ~Stopped(ledger.activations[i]),
                      \/ Communication(ledger.activations[i])
                      \/ /\ ledger.work[ledger.activations[i].work].mode # "paused"
                         /\ ledger.work[ledger.activations[i].work].mode = "complete"
                              => ledger.activations[i].reason # "assignment_continue"
               PROVE  Authorised(i)
    BY DEF DeliverableIsClaimable
  <2> DEFINE x == ledger.activations[i]
             r == x.marks.request
             o == x.marks.obligation
             mode == ledger.work[x.work].mode
  <2>1. /\ ledger \in Ledgers /\ Addressed(ledger, x) /\ LiveKept(ledger, i) /\ NudgeKept(ledger, i)
        /\ GoodBut(ledger, {})
    BY <1>1, GoodParts DEF Inv
  <2>2. x \in Row /\ x.work \in Work
    BY <2>1, LedgerFields DEF Row
  <2>3. x.endpoint = ledger.generation[x.actor]
    BY <2>1 DEF LiveKept
  <2>4. ~ExplicitStop(ledger, x.work, x.actor)
    BY DEF Stopped
  <2>5. RequestAgrees(i, x)
    BY <2>1, RequestsAgree
  <2>6. o # None => ledger.obligation[o].status = "open" /\ ledger.obligation[o].generation = x.generation
    BY <2>1 DEF LiveKept
  <2>7. ~Communication(x) /\ o = None => r = None
    BY <2>1 DEF Addressed, Communication, ReplyRecovery
  <2>8. ~Communication(x) => mode \notin {"complete", "paused"}
    <3>1. ASSUME ~Communication(x), mode = "complete" PROVE FALSE
      <4>1. CASE o = None
        BY <2>1, <2>7, <3>1, <4>1 DEF LiveKept
      <4>2. CASE o # None
        <5>1. RequestOf(o) = None
          BY <3>1, <4>2 DEF Communication
        <5> QED BY <2>1, <3>1, <4>2, <5>1 DEF LiveKept
      <4> QED BY <4>1, <4>2
    <3> QED BY <3>1
  <2>9. o = None /\ ~Communication(x) =>
          /\ x.revision = ledger.work[x.work].revision
          /\ x.actor = Owner(x.work) /\ mode \in {"continue", "waiting"}
    <3>1. mode \in {"none", "paused", "continue", "waiting", "complete"} /\ mode # "none"
      BY <2>1, <2>2, LedgerFields DEF WorkRow, Addressed
    <3> QED BY <2>1, <2>7, <2>8, <3>1 DEF LiveKept, Owner
  <2>10. x.reason \in Recovery =>
           (\E n \in ledger.incidents : n.nudge = i /\ n.status = "queued") /\ x.work \in ledger.armed
    BY <2>1 DEF NudgeKept, Queued, Recovery
  <2>11. x.reason \in Recovery /\ ~Communication(x) => ~RecoveryStop(ledger, x.work, x.actor)
    BY <2>4, <2>8 DEF RecoveryStop
  <2> HIDE DEF x
  <2> QED BY <2>3, <2>4, <2>5, <2>6, <2>8, <2>9, <2>10, <2>11 DEF Authorised, x
<1> QED BY <1>1, Invariance, PTL

\* What was claimed or revoked while a publisher still held its pending copy stays so.
THEOREM FinalRowsStay == Spec => FinalStays
<1> DEFINE A == \A i \in Indexes(ledger) :
                  ledger.activations[i].status \in {"claimed", "revoked"}
                    => ledger'.activations[i].status = ledger.activations[i].status
<1>1. ASSUME Inv, [Next]_vars PROVE A
  <2>1. CASE Transaction
    <3>1. Onward(ledger, ledger')
      BY <1>1, <2>1, TransactionSteps DEF Inv, Steps
    <3> QED BY <3>1 DEF Onward, Live
  <2>2. CASE PublisherStep
    <3>1. PICK i \in Indexes(ledger) :
            ReadPending(i) \/ WriteEvent(i) \/ MarkPublished(i) \/ PublicationFails(i)
      BY <2>2 DEF PublisherStep
    <3>2. \A j \in Indexes(ledger) :
            \/ ledger'.activations[j].status = ledger.activations[j].status
            \/ ledger.activations[j].status = "pending"
      BY <1>1, <3>1, PublisherSteps DEF Inv
    <3> QED BY <3>2
  <2>3. CASE UNCHANGED vars
    BY <2>3 DEF vars
  <2> QED BY <1>1, <2>1, <2>2, <2>3 DEF Next, Transaction
<1>2. Inv /\ [Next]_vars => [A]_vars
  BY <1>1
<1> QED BY <1>2, Invariance, PTL DEF Spec, FinalStays

-----------------------------------------------------------------------------
(***************************************************************************)
(* The refinement of the request lifecycle.                                *)
(***************************************************************************)
PhasesOf(d) == [r \in Request |-> PhaseOf(d, r)]
HeldsOf(d) == [r \in Request |-> HeldOf(d, r)]

\* What a step of a ledger is for the lifecycle.
AbstractStep(d, e, r, from, to, held, holds) ==
  /\ PhasesOf(d)[r] = from /\ HeldsOf(d)[r] = held
  /\ PhasesOf(e) = [PhasesOf(d) EXCEPT ![r] = to]
  /\ HeldsOf(e) = [HeldsOf(d) EXCEPT ![r] = holds]

LEMMA HeldTyped == \A d, r : HeldOf(d, r) \in BOOLEAN
BY ZenonT(20) DEF HeldOf

LEMMA MovesAbstract ==
  ASSUME NEW d, NEW e, NEW r \in Request, NEW from, NEW to, NEW held \in BOOLEAN, NEW holds \in BOOLEAN,
         Moves(d, e, r, from, to, held, holds)
  PROVE  AbstractStep(d, e, r, from, to, held, holds)
<1>1. /\ PhaseOf(d, r) = from /\ PhaseOf(e, r) = to
      /\ HeldOf(d, r) <=> held
      /\ HeldOf(e, r) <=> holds
  BY DEF Moves
<1>2. \A q \in Request \ {r} : PhaseOf(e, q) = PhaseOf(d, q) /\ (HeldOf(e, q) <=> HeldOf(d, q))
  BY DEF Moves, Alike
<1>3. HeldOf(d, r) = held /\ HeldOf(e, r) = holds
  BY <1>1, HeldTyped
<1>4. \A q \in Request \ {r} : HeldOf(e, q) = HeldOf(d, q)
  BY <1>2, HeldTyped
<1>5. PhasesOf(d)[r] = from /\ PhasesOf(e) = [PhasesOf(d) EXCEPT ![r] = to]
  BY <1>1, <1>2 DEF PhasesOf
<1>6. HeldsOf(d)[r] = held /\ HeldsOf(e) = [HeldsOf(d) EXCEPT ![r] = holds]
  BY <1>3, <1>4 DEF HeldsOf
<1> QED BY <1>5, <1>6 DEF AbstractStep

LEMMA QuietAbstract ==
  ASSUME NEW d, NEW e, Quiet(d, e)
  PROVE  PhasesOf(e) = PhasesOf(d) /\ HeldsOf(e) = HeldsOf(d)
<1>1. \A r \in Request : PhaseOf(e, r) = PhaseOf(d, r) /\ (HeldOf(e, r) <=> HeldOf(d, r))
  BY DEF Quiet, Alike
<1>2. \A r \in Request : HeldOf(e, r) = HeldOf(d, r)
  BY <1>1, HeldTyped
<1> QED BY <1>1, <1>2 DEF PhasesOf, HeldsOf

LEMMA LosesAbstract ==
  ASSUME NEW d, NEW e, Loses(d, e)
  PROVE  LET S == {r \in Request : HeldOf(d, r) /\ ~HeldOf(e, r)}
         IN /\ PhasesOf(e) = PhasesOf(d)
            /\ HeldsOf(e) = [r \in Request |-> HeldsOf(d)[r] /\ r \notin S]
            /\ \A r \in S : HeldsOf(d)[r]
            /\ S = {} => HeldsOf(e) = HeldsOf(d)
<1> DEFINE S == {r \in Request : HeldOf(d, r) /\ ~HeldOf(e, r)}
<1>1. \A r \in Request : PhaseOf(e, r) = PhaseOf(d, r) /\ (HeldOf(e, r) => HeldOf(d, r))
  BY DEF Loses
<1>2. ASSUME NEW r \in Request PROVE HeldOf(e, r) = (HeldOf(d, r) /\ r \notin S)
  <2>1. HeldOf(e, r) <=> (HeldOf(d, r) /\ r \notin S)
    BY <1>1
  <2> QED BY <2>1, HeldTyped
<1>3. \A r \in Request : HeldsOf(d)[r] = HeldOf(d, r)
  BY DEF HeldsOf
<1>4. PhasesOf(e) = PhasesOf(d)
  BY <1>1 DEF PhasesOf
<1>5. HeldsOf(e) = [r \in Request |-> HeldsOf(d)[r] /\ r \notin S]
  BY <1>2, <1>3 DEF HeldsOf
<1>6. \A r \in S : HeldsOf(d)[r]
  BY <1>3
<1>7. ASSUME S = {} PROVE HeldsOf(e) = HeldsOf(d)
  <2>1. \A r \in Request : HeldOf(e, r) = HeldOf(d, r)
    <3>1. \A r \in Request : HeldOf(e, r) <=> HeldOf(d, r)
      BY <1>1, <1>7
    <3> QED BY <3>1, HeldTyped
  <2> QED BY <2>1 DEF HeldsOf
<1> QED BY <1>4, <1>5, <1>6, <1>7

\* The lifecycle's variables are those two functions of the ledger.
LEMMA AbstractVariables ==
  /\ [r \in Request |-> Phase(r)] = PhasesOf(ledger)
  /\ [r \in Request |-> Held(r)] = HeldsOf(ledger)
  /\ [r \in Request |-> Phase(r)]' = PhasesOf(ledger')
  /\ [r \in Request |-> Held(r)]' = HeldsOf(ledger')
<1>1. \A r : Phase(r) = PhaseOf(ledger, r) /\ Phase(r)' = PhaseOf(ledger', r)
  BY DEF Phase, PhaseOf
<1>2. \A r : Held(r) = HeldOf(ledger, r) /\ Held(r)' = HeldOf(ledger', r)
  BY DEF Held, HeldOf, Held0
<1> QED BY <1>1, <1>2 DEF PhasesOf, HeldsOf

LEMMA LifecycleStart ==
  ASSUME Init
  PROVE  Lifecycle!Init
<1>1. \A r \in Request : ledger.request[r].status = "none"
  BY DEF Init
<1>2. \A o \in Obligation : ledger.obligation[o].status = "none"
  BY DEF Init
<1>3. ASSUME NEW r \in Request PROVE PhaseOf(ledger, r) = "unsent" /\ HeldOf(ledger, r) = FALSE
  <2>1. PhaseOf(ledger, r) = "unsent"
    BY <1>1 DEF PhaseOf
  <2>2. DebtOf[r] # None => DebtOf[r] \in Obligation
    BY LedgerConstants
  <2>3. ~HeldOf(ledger, r)
    BY <1>1, <1>2, <2>2 DEF HeldOf
  <2> QED BY <2>1, <2>3, HeldTyped
<1>4. PhasesOf(ledger) = [r \in Request |-> "unsent"] /\ HeldsOf(ledger) = [r \in Request |-> FALSE]
  BY <1>3 DEF PhasesOf, HeldsOf
<1> QED BY <1>4, AbstractVariables DEF Lifecycle!Init

\* What happens to the requests in a step is a step of the lifecycle.
LEMMA LifecycleStep ==
  ASSUME Life(ledger, ledger')
  PROVE  [Lifecycle!Next]_(Lifecycle!lifecycle)
<1> DEFINE phases == [r \in Request |-> Phase(r)]
           helds == [r \in Request |-> Held(r)]
<1>0. /\ phases = PhasesOf(ledger) /\ helds = HeldsOf(ledger)
      /\ phases' = PhasesOf(ledger') /\ helds' = HeldsOf(ledger')
  BY AbstractVariables
<1>s. \A r, from, to, held, holds :
        AbstractStep(ledger, ledger', r, from, to, held, holds)
          => Lifecycle!Step(r, from, to, held, holds)
  BY <1>0 DEF AbstractStep, Lifecycle!Step
<1>1. CASE Quiet(ledger, ledger')
  <2>1. phases' = phases /\ helds' = helds
    BY <1>0, <1>1, QuietAbstract
  <2> QED BY <2>1 DEF Lifecycle!lifecycle
<1>2. CASE Loses(ledger, ledger')
  <2> DEFINE S == {r \in Request : HeldOf(ledger, r) /\ ~HeldOf(ledger', r)}
  <2>1. /\ phases' = phases /\ helds' = [r \in Request |-> helds[r] /\ r \notin S]
        /\ \A r \in S : helds[r]
        /\ S = {} => helds' = helds
    BY <1>0, <1>2, LosesAbstract
  <2>2. S \in SUBSET Request
    OBVIOUS
  <2> HIDE DEF S
  <2>3. CASE S = {}
    BY <2>1, <2>3 DEF Lifecycle!lifecycle
  <2>4. CASE S # {}
    <3>1. Lifecycle!Lose(S)
      BY <2>1, <2>4 DEF Lifecycle!Lose
    <3> QED BY <2>2, <3>1 DEF Lifecycle!Next
  <2> QED BY <2>3, <2>4
<1>3. ASSUME NEW r \in Request, Moves(ledger, ledger', r, "unsent", "owed", FALSE, FALSE)
      PROVE  Lifecycle!Next
  <2>1. Lifecycle!Send(r)
    BY <1>3, <1>s, MovesAbstract DEF Lifecycle!Send
  <2> QED BY <2>1 DEF Lifecycle!Next
<1>4. ASSUME NEW r \in Request, DebtOf[r] # None,
             Moves(ledger, ledger', r, "owed", "answered", TRUE, FALSE)
      PROVE  Lifecycle!Next
  <2>1. Lifecycle!Answer(r)
    BY <1>4, <1>s, MovesAbstract DEF Lifecycle!Answer
  <2> QED BY <2>1 DEF Lifecycle!Next
<1>5. ASSUME NEW r \in Request, DebtOf[r] # None,
             Moves(ledger, ledger', r, "answered", "handled", TRUE, FALSE)
      PROVE  Lifecycle!Next
  <2>1. Lifecycle!Handle(r)
    BY <1>5, <1>s, MovesAbstract DEF Lifecycle!Handle
  <2> QED BY <2>1 DEF Lifecycle!Next
<1>6. ASSUME NEW r \in Request, DebtOf[r] = None,
             Moves(ledger, ledger', r, "owed", "read", FALSE, FALSE)
      PROVE  Lifecycle!Next
  <2>1. Lifecycle!Read(r)
    BY <1>6, <1>s, MovesAbstract DEF Lifecycle!Read
  <2> QED BY <2>1 DEF Lifecycle!Next
<1>7. ASSUME NEW r \in Request, DebtOf[r] # None, NEW at \in {"owed", "answered"},
             Moves(ledger, ledger', r, at, at, FALSE, TRUE)
      PROVE  Lifecycle!Next
  <2>1. Lifecycle!Step(r, at, at, FALSE, TRUE)
    BY <1>7, <1>s, MovesAbstract
  <2>2. Lifecycle!Take(r)
    BY <1>7, <2>1 DEF Lifecycle!Take
  <2> QED BY <2>2 DEF Lifecycle!Next
<1>8. CASE Takes(ledger, ledger')
  BY <1>6, <1>7, <1>8 DEF Takes
<1> QED BY <1>1, <1>2, <1>3, <1>4, <1>5, <1>8 DEF Life

LEMMA LifecycleKept ==
  ASSUME Inv, [Next]_vars
  PROVE  [Lifecycle!Next]_(Lifecycle!lifecycle)
<1>1. CASE Transaction
  <2>1. Life(ledger, ledger')
    BY <1>1, TransactionSteps DEF Inv, Steps
  <2> QED BY <2>1, LifecycleStep
<1>2. CASE PublisherStep
  <2>1. Quiet(ledger, ledger')
    BY <1>2, PublisherSteps DEF Inv, PublisherStep
  <2> QED BY <2>1, LifecycleStep DEF Life
<1>3. CASE UNCHANGED vars
  <2>1. Quiet(ledger, ledger')
    BY <1>3 DEF vars, Quiet, Alike
  <2> QED BY <2>1, LifecycleStep DEF Life
<1> QED BY <1>1, <1>2, <1>3 DEF Next, Transaction

\* Every behaviour of the ledger is one of the lifecycle of its requests: a request is owed once
\* it is sent, answered at most once and only by the holder of its debt, handled only by the
\* holder of the reply, and never goes back, whatever transfers, new endpoints, recoveries and
\* redeliveries come between (request_send, request_respond, request_handle, claim).
THEOREM RequestsAreRefined == Spec => RefinesLifecycle
<1>1. Init => Lifecycle!Init
  BY LifecycleStart
<1>2. Inv /\ [Next]_vars => [Lifecycle!Next]_(Lifecycle!lifecycle)
  BY LifecycleKept
<1> QED BY <1>1, <1>2, Invariance, PTL DEF Spec, RefinesLifecycle, Lifecycle!Spec
====
