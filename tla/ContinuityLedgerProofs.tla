------------------------- MODULE ContinuityLedgerProofs -------------------------
(***************************************************************************)
(* What the helpers of continuity's transactions do to a ledger, for every *)
(* set of chats, works, obligations and requests (continuity.py).          *)
(*                                                                         *)
(* GoodBut(d, P) says that the rows of a ledger d agree with each other,   *)
(* but for the routes of the assignments in P, which the transaction is    *)
(* about to send again.  Every helper is given an effect lemma of that     *)
(* form: what it keeps, what it adds, and what it does to the phases of    *)
(* the requests.  ContinuityProofs composes them.                          *)
(***************************************************************************)
EXTENDS Continuity, FiniteSetTheorems, SequenceTheorems, WellFoundedInduction, TLAPS

(***************************************************************************)
(* Types.  A ledger is a value of Ledgers at every step of a transaction.  *)
(***************************************************************************)
Sources == Obligation \cup External
Outcome == Sources \X {"result", "event"}

AssignmentReasons ==
  {"obligation_assigned", "obligation_reminder", "request_message", "assignment_continue",
   "assignment_paused_control", "assignment_wait_satisfied"}
Reasons == OwnerControl \cup Recovery \cup AssignmentReasons \cup {"request_reply"}

Marks ==
  [request : Request \cup {None}, obligation : Obligation \cup {None}, after : Nat,
   outcomes : SUBSET Outcome]
Row ==
  [work : Work, actor : Actor, revision : Nat, endpoint : Nat, generation : Nat,
   reason : Reasons, marks : Marks, status : Active \cup {"revoked"}, turn : Nat]
WorkRow ==
  [mode : {"none", "paused", "continue", "waiting", "complete"}, owner : Actor \cup {None},
   revision : Nat]
WaitRow == [any : BOOLEAN, sources : SUBSET Sources, handled : SUBSET Outcome]
DebtRow == [status : {"none", "open", "resolved"}, generation : Nat, claim : Nat]
AssignmentRow ==
  [mode : {"none", "paused", "continue", "waiting"}, any : BOOLEAN, sources : SUBSET Sources,
   handled : SUBSET Outcome]
RequestRow ==
  [status : {"none", "delivery_pending", "claimed", "reply_ready", "handled", "closed_no_reply"},
   message : Nat, reply : Nat, answered : BOOLEAN]
IncidentRow == [source : Nat, nudge : Nat, status : {"queued", "waiting"}]

Ledgers ==
  [generation : [Actor -> Nat], work : [Work -> WorkRow], wait : [Work -> WaitRow],
   handled : [Work -> SUBSET Outcome], replays : [Work -> SUBSET (Outcome \X Nat)],
   replyOwner : [Work -> Nat \X Nat \X Nat], obligation : [Obligation -> DebtRow],
   assignment : [Obligation -> AssignmentRow], handledBy : [Obligation -> SUBSET Outcome],
   request : [Request -> RequestRow], retained : [External -> {"pending", "unreadable", "terminal"}],
   results : Seq(Outcome), stopped : SUBSET ({"project"} \cup Actor \cup Work),
   armed : SUBSET Work, adoptByDefault : BOOLEAN, activations : Seq(Row),
   incidents : SUBSET IncidentRow]

(***************************************************************************)
(* The invariant of a ledger.                                              *)
(***************************************************************************)
\* A work that does not exist yet has nothing; only a waiting work has a wait; a result put
\* back is not handled.
WorkKept(d, w) ==
  /\ d.work[w].mode # "none" => d.work[w].owner \in Actor
  /\ d.wait[w].sources # {} <=> d.work[w].mode = "waiting"
  /\ PendingReplays(d, w) \cap d.handled[w] = {}

\* The claim on record is a claimed notice of the present generation.
DebtKept(d, o) ==
  /\ d.obligation[o].status # "none" => d.work[WorkOf[o]].mode # "none"
  /\ d.obligation[o].status = "none" => d.obligation[o].claim = 0 /\ d.assignment[o].mode = "none"
  /\ d.obligation[o].claim # 0 =>
       /\ d.obligation[o].claim \in Indexes(d)
       /\ LET x == d.activations[d.obligation[o].claim]
          IN /\ x.status = "claimed" /\ x.marks.obligation = o /\ x.reason \in AssignmentReasons
             /\ x.generation = d.obligation[o].generation

\* The rows of a request agree.
RequestKept(d, r) ==
  LET q == d.request[r]
      o == DebtOf[r]
  IN /\ q.status # "none" => d.work[WorkOf[r]].mode # "none"
     /\ q.answered <=> q.status \in {"reply_ready", "handled"}
     /\ o = None => q.status \in {"none", "delivery_pending", "closed_no_reply"}
     /\ o # None =>
          /\ q.status # "closed_no_reply"
          /\ q.status = "none" <=> d.obligation[o].status = "none"
          /\ q.answered <=> d.obligation[o].status = "resolved"
          /\ q.answered <=> <<o, "result">> \in Outcomes(d)
     /\ q.reply # 0 =>
          /\ q.answered /\ q.reply \in Indexes(d)
          /\ d.activations[q.reply].reason = "request_reply"
          /\ d.activations[q.reply].marks.request = r
     /\ q.status = "handled" => q.reply # 0 /\ d.activations[q.reply].status = "claimed"
     /\ q.message # 0 =>
          q.message \in Indexes(d) /\ d.activations[q.message].marks.request = r

\* Whom a row is for, and what it is about.
Addressed(d, x) ==
  LET r == x.marks.request
      o == x.marks.obligation
  IN /\ d.work[x.work].mode # "none" /\ x.endpoint <= d.generation[x.actor]
     /\ o = None => x.reason \in OwnerControl \cup {"work_recovery", "request_message", "request_reply"}
     /\ o # None =>
          /\ x.work = WorkOf[o] /\ x.actor = Assignee[o]
          /\ x.reason \in AssignmentReasons \cup {"assignment_recovery"}
          /\ d.obligation[o].status # "none"
          /\ x.generation <= d.obligation[o].generation
          /\ r \in {None, RequestOf(o)}
          /\ RequestOf(o) # None /\ r = None
               => x.reason \in {"assignment_continue", "assignment_wait_satisfied"}
     /\ r # None => x.work = WorkOf[r] /\ d.request[r].status # "none"
     /\ x.reason \in OwnerControl => r = None
     /\ x.reason = "request_message" => r # None /\ o = DebtOf[r] /\ x.actor = Assignee[r]
     /\ x.reason = "request_reply" => r # None
     /\ r # None /\ x.reason \in {"request_reply", "work_recovery"}
          => x.actor = ReturnActor[r] /\ d.request[r].answered

Current(d, i, o) ==
  d.activations[i].marks.obligation = o /\ d.activations[i].reason # "assignment_recovery"
    /\ d.activations[i].generation = d.obligation[o].generation

\* How the assignee came to its present generation tells which notices it has.
NoticeKept(d, i) ==
  LET x == d.activations[i]
      o == x.marks.obligation
  IN o # None /\ Current(d, i, o) /\ d.obligation[o].status = "open" /\ x.status \in Active =>
       /\ x.status = "claimed" => d.obligation[o].claim = i
       /\ CASE d.assignment[o].mode = "continue" -> x.reason = "assignment_continue"
            [] d.assignment[o].mode = "waiting" -> x.reason = "assignment_wait_satisfied"
            [] d.assignment[o].mode = "none" ->
                 x.reason \in {"obligation_assigned", "obligation_reminder", "request_message"}
            [] d.assignment[o].mode = "paused" ->
                 x.status \in Live => x.reason = "assignment_paused_control"
       /\ x.reason \in {"assignment_continue", "assignment_wait_satisfied"} =>
            \A j \in Indexes(d) :
              Current(d, j, o) /\ d.activations[j].status \in Active
                /\ d.activations[j].reason = x.reason => j = i

\* They were sent to the present endpoint.
Settled(d, o) ==
  d.obligation[o].status = "open" =>
    \A i \in Indexes(d) :
      Current(d, i, o) /\ d.activations[i].status \in Active
        => d.activations[i].endpoint = d.generation[Assignee[o]]

\* What is live was sent under the present authority.
LiveKept(d, i) ==
  LET x == d.activations[i]
      r == x.marks.request
      o == x.marks.obligation
  IN x.status \in Live =>
       /\ x.endpoint = d.generation[x.actor]
       /\ o # None =>
            /\ d.obligation[o].status = "open" /\ x.generation = d.obligation[o].generation
            /\ d.work[x.work].mode = "complete" /\ RequestOf(o) = None
                 => x.reason = "assignment_continue"
       /\ o = None /\ r = None =>
            /\ x.revision = d.work[x.work].revision /\ x.actor = d.work[x.work].owner
            /\ d.work[x.work].mode # "complete"
            /\ x.reason = "continue_checkpoint" => d.work[x.work].mode = "continue"
            /\ x.reason = "wait_satisfied" => d.work[x.work].mode = "waiting"
       /\ x.reason = "request_reply" =>
            d.request[r].reply = i /\ d.request[r].status = "reply_ready"
       /\ x.reason = "request_message" /\ o = None =>
            d.request[r].message = i /\ d.request[r].status = "delivery_pending"
       /\ x.reason = "work_recovery" /\ r # None =>
            /\ d.request[r].reply = x.marks.after /\ d.request[r].status = "reply_ready"
            /\ x.marks.after # 0
            /\ ActiveCurrent(d, x.marks.after, ReturnActor[r], "request_reply")
            /\ d.activations[x.marks.after].status = "claimed"

\* A live nudge stands for one queued incident of the claim it is about.
Queued(d, i, source) ==
  \E n \in d.incidents : n.nudge = i /\ n.status = "queued" /\ n.source = source
NudgeKept(d, i) ==
  LET x == d.activations[i]
      o == x.marks.obligation
  IN x.status \in Live /\ x.reason \in Recovery =>
       /\ x.work \in d.armed /\ x.marks.outcomes = {}
       /\ x.reason = "assignment_recovery" =>
            /\ d.obligation[o].claim # 0 /\ Queued(d, i, d.obligation[o].claim)
            /\ o # None /\ x.marks.request = RequestOf(o) /\ x.marks.after = 0
       /\ x.reason = "work_recovery" =>
            /\ Queued(d, i, x.marks.after)
            /\ x.marks.after \in Indexes(d) /\ d.activations[x.marks.after].work = x.work
       /\ \A j \in Indexes(d) :
            LET y == d.activations[j]
            IN y.status \in Live /\ y.reason = x.reason /\ y.actor = x.actor /\ y.marks = x.marks
                 => j = i

Good(d) ==
  /\ d \in Ledgers
  /\ \A w \in Work : WorkKept(d, w)
  /\ \A o \in Obligation : DebtKept(d, o)
  /\ \A r \in Request : RequestKept(d, r)
  /\ \A i \in Indexes(d) : /\ Addressed(d, d.activations[i]) /\ NoticeKept(d, i)
                           /\ LiveKept(d, i) /\ NudgeKept(d, i)
  /\ \A n \in d.incidents : n.nudge \in Indexes(d)

\* All notices are settled, but those of the assignments in P.
GoodBut(d, P) == Good(d) /\ \A o \in Obligation \ P : Settled(d, o)


(***************************************************************************)
(* Who is owed a notice, and has one.  No step of reconcile creates the    *)
(* notices of an assignment that goes on or the continuation of an owner:  *)
(* every transaction must leave them in place.                             *)
(***************************************************************************)
Noticed(d, o) ==
  \E i \in Indexes(d) :
    /\ d.activations[i].status \in Live /\ d.activations[i].marks.obligation = o
    /\ d.activations[i].reason # "assignment_recovery"

\* The assignee is to go on, and no message of a request tells it so.
Owed(d, o) ==
  /\ d.obligation[o].status = "open" /\ ~ExplicitStop(d, WorkOf[o], Assignee[o])
  /\ d.assignment[o].mode # "waiting" /\ ContinuationAllowed(d, o)
  /\ d.assignment[o].mode = "none" => RequestOf(o) = None

DebtRouted(d, o) == Owed(d, o) => d.obligation[o].claim # 0 \/ Noticed(d, o)

\* A claim made at the present endpoint is of the present generation, until the assignee
\* writes its first checkpoint.
InStep(d, o) ==
  d.obligation[o].status = "open" /\ d.assignment[o].mode = "none" =>
    \A i \in Indexes(d) :
      /\ d.activations[i].status = "claimed" /\ d.activations[i].marks.obligation = o
      /\ d.activations[i].endpoint = d.generation[Assignee[o]]
      => d.activations[i].generation = d.obligation[o].generation

Continues(d, w) == d.work[w].mode = "continue" /\ ~ExplicitStop(d, w, d.work[w].owner)

OwnerRoute(d, w, x) ==
  /\ x.work = w /\ x.actor = d.work[w].owner /\ x.reason \in OwnerControl
  /\ x.status \in Active /\ x.revision = d.work[w].revision
  /\ x.endpoint = d.generation[d.work[w].owner]

OwnerRouted(d, w) ==
  Continues(d, w) => \E i \in Indexes(d) : OwnerRoute(d, w, d.activations[i])

Routed(d) ==
  /\ \A o \in Obligation : DebtRouted(d, o) /\ InStep(d, o)
  /\ \A w \in Work : OwnerRouted(d, w)

\* From d to e nobody is forgotten but the assignments in O and the works in W, which the
\* transaction is about to route again.
Routes(d, e, O, W) ==
  /\ \A o \in Obligation \ O : /\ DebtRouted(d, o) => DebtRouted(e, o)
                               /\ InStep(d, o) => InStep(e, o)
  /\ \A w \in Work \ W : OwnerRouted(d, w) => OwnerRouted(e, w)

(***************************************************************************)
(* Folds.  A helper that is folded over a finite set keeps what every one  *)
(* of its steps keeps: J[s] is what holds when the elements of s are done. *)
(***************************************************************************)
Pick(s) == CHOOSE x \in s : TRUE

LEMMA PickIn == \A s : s # {} => Pick(s) \in s
BY DEF Pick

\* The equation of a fold of F from b, up to the set t.
Folds(g, t, L, F, b) ==
  /\ g \in [SUBSET t -> L]
  /\ \A s \in SUBSET t : g[s] = IF s = {} THEN b ELSE F[<<Pick(s), g[s \ {Pick(s)}]>>]

\* A nonempty set of finite sets has a smallest one.
LEMMA SmallestSet ==
  ASSUME NEW S, IsFiniteSet(S), NEW Wrong, Wrong \subseteq SUBSET S, Wrong # {}
  PROVE  \E s \in Wrong : \A x \in s : s \ {x} \notin Wrong
<1>1. FiniteSubsetsOf(S) = SUBSET S
  BY FS_FiniteSubsetsOfFinite
<1>2. IsWellFoundedOn(StrictSubsetOrdering(S), SUBSET S)
  BY <1>1, FS_StrictSubsetOrderingWellFounded
<1>3. PICK s \in Wrong : \A t \in Wrong : ~ (<<t, s>> \in StrictSubsetOrdering(S))
  BY <1>2, WFMin
<1>4. ASSUME NEW x \in s, s \ {x} \in Wrong PROVE FALSE
  <2>1. <<s \ {x}, s>> \in StrictSubsetOrdering(S)
    BY DEF StrictSubsetOrdering
  <2> QED BY <1>3, <1>4, <2>1
<1> QED BY <1>4

LEMMA SmallestStrict ==
  ASSUME NEW S, IsFiniteSet(S), NEW Wrong, Wrong \subseteq SUBSET S, Wrong # {}
  PROVE  \E s \in Wrong : \A t \in SUBSET s : t # s => t \notin Wrong
<1>1. FiniteSubsetsOf(S) = SUBSET S
  BY FS_FiniteSubsetsOfFinite
<1>2. IsWellFoundedOn(StrictSubsetOrdering(S), SUBSET S)
  BY <1>1, FS_StrictSubsetOrderingWellFounded
<1>3. PICK s \in Wrong : \A t \in Wrong : ~ (<<t, s>> \in StrictSubsetOrdering(S))
  BY <1>2, WFMin
<1>4. ASSUME NEW t \in SUBSET s, t # s, t \in Wrong PROVE FALSE
  <2>1. <<t, s>> \in StrictSubsetOrdering(S)
    BY <1>4 DEF StrictSubsetOrdering
  <2> QED BY <1>3, <1>4, <2>1
<1> QED BY <1>4

LEMMA FoldUnique ==
  ASSUME NEW S, IsFiniteSet(S), NEW L, NEW F, NEW b, NEW t \in SUBSET S, NEW u \in SUBSET t,
         NEW g, NEW h, Folds(g, t, L, F, b), Folds(h, u, L, F, b)
  PROVE  \A s \in SUBSET u : g[s] = h[s]
<1> DEFINE Wrong == {s \in SUBSET u : g[s] # h[s]}
<1> SUFFICES ASSUME Wrong # {} PROVE FALSE
  OBVIOUS
<1>1. Wrong \subseteq SUBSET S
  OBVIOUS
<1>2. PICK s \in Wrong : \A x \in s : s \ {x} \notin Wrong
  BY <1>1, SmallestSet
<1>3. /\ s \in SUBSET u /\ s \in SUBSET t
      /\ g[s] = IF s = {} THEN b ELSE F[<<Pick(s), g[s \ {Pick(s)}]>>]
      /\ h[s] = IF s = {} THEN b ELSE F[<<Pick(s), h[s \ {Pick(s)}]>>]
  BY DEF Folds
<1>4. s # {}
  BY <1>3
<1>5. Pick(s) \in s
  BY <1>4, PickIn
<1>6. g[s \ {Pick(s)}] = h[s \ {Pick(s)}]
  BY <1>2, <1>3, <1>5
<1> QED BY <1>3, <1>4, <1>6

LEMMA FoldExists ==
  ASSUME NEW S, IsFiniteSet(S), NEW L, NEW F \in [S \X L -> L], NEW b \in L
  PROVE  \E g : Folds(g, S, L, F, b)
<1> DEFINE Wrong == {t \in SUBSET S : ~ \E g : Folds(g, t, L, F, b)}
<1> SUFFICES ASSUME Wrong # {} PROVE FALSE
  OBVIOUS
<1>1. Wrong \subseteq SUBSET S
  OBVIOUS
<1>2. PICK t \in Wrong : \A s \in SUBSET t : s # t => s \notin Wrong
  <2> HIDE DEF Wrong
  <2> QED BY <1>1, SmallestStrict
<1> DEFINE G(s) == CHOOSE g : Folds(g, s, L, F, b)
           x == Pick(t)
           last == IF t = {} THEN b ELSE F[<<x, G(t \ {x})[t \ {x}]>>]
           g == [s \in SUBSET t |-> IF s = t THEN last ELSE G(s)[s]]
<1>3. ASSUME NEW s \in SUBSET t, s # t PROVE Folds(G(s), s, L, F, b)
  BY <1>2, <1>3
<1> HIDE DEF G
<1>4. ASSUME NEW s \in SUBSET t, s # t PROVE G(s)[s] \in L
  BY <1>3, <1>4 DEF Folds
<1>5. last \in L
  <2>1. CASE t = {}
    BY <2>1
  <2>2. CASE t # {}
    <3>1. x \in t /\ x \in S /\ t \ {x} \in SUBSET t /\ t \ {x} # t
      BY <2>2, PickIn
    <3>2. G(t \ {x})[t \ {x}] \in L
      BY <3>1, <1>4
    <3> QED BY <2>2, <3>1, <3>2
  <2> QED BY <2>1, <2>2
<1>6. g \in [SUBSET t -> L]
  BY <1>4, <1>5
<1>7. ASSUME NEW s \in SUBSET t
      PROVE  g[s] = IF s = {} THEN b ELSE F[<<Pick(s), g[s \ {Pick(s)}]>>]
  <2>1. CASE s = {} /\ s = t
    BY <2>1
  <2>2. CASE s = {} /\ s # t
    BY <2>2, <1>3 DEF Folds
  <2>3. CASE s # {}
    <3> DEFINE y == Pick(s)
    <3>1. y \in s /\ s \ {y} \in SUBSET t /\ s \ {y} # t /\ s \ {y} # s /\ s \ {y} \in SUBSET s
      BY <2>3, PickIn
    <3> HIDE DEF y
    <3>2. g[s \ {y}] = G(s \ {y})[s \ {y}]
      BY <3>1
    <3>3. CASE s = t
      BY <2>3, <3>2, <3>3 DEF y
    <3>4. CASE s # t
      <4>1. Folds(G(s), s, L, F, b) /\ Folds(G(s \ {y}), s \ {y}, L, F, b)
        BY <3>1, <3>4, <1>3
      <4>2. G(s)[s \ {y}] = G(s \ {y})[s \ {y}]
        BY <3>1, <4>1, FoldUnique
      <4>3. G(s)[s] = F[<<y, G(s)[s \ {y}]>>]
        BY <2>3, <4>1 DEF Folds, y
      <4>4. g[s] = G(s)[s]
        BY <3>4
      <4> QED BY <2>3, <3>2, <4>2, <4>3, <4>4 DEF y
    <3> QED BY <3>3, <3>4
  <2> QED BY <2>1, <2>2, <2>3
<1> HIDE DEF g
<1>8. Folds(g, t, L, F, b)
  BY <1>6, <1>7 DEF Folds
<1> QED BY <1>2, <1>8

\* J holds along a fold whose steps keep it.
LEMMA FoldKeeps ==
  ASSUME NEW S, IsFiniteSet(S), NEW J, NEW g, g[{}] \in J[{}],
         \A s \in SUBSET S : s # {} /\ g[s \ {Pick(s)}] \in J[s \ {Pick(s)}] => g[s] \in J[s]
  PROVE  \A s \in SUBSET S : g[s] \in J[s]
<1> DEFINE Wrong == {s \in SUBSET S : g[s] \notin J[s]}
<1> SUFFICES ASSUME Wrong # {} PROVE FALSE
  OBVIOUS
<1>1. Wrong \subseteq SUBSET S
  OBVIOUS
<1>2. PICK s \in Wrong : \A x \in s : s \ {x} \notin Wrong
  BY <1>1, SmallestSet
<1>3. s # {}
  OBVIOUS
<1>4. Pick(s) \in s
  BY <1>3, PickIn
<1>5. s \ {Pick(s)} \in SUBSET S
  OBVIOUS
<1> QED BY <1>2, <1>3, <1>4, <1>5

FoldOf(g, S, F, b) ==
  g = [s \in SUBSET S |-> IF s = {} THEN b ELSE F[<<Pick(s), g[s \ {Pick(s)}]>>]]

\* A fold exists whose values are in J, if F takes J[s \ {x}] to J[s].
LEMMA FoldWithin ==
  ASSUME NEW S, IsFiniteSet(S), NEW L, NEW J \in [SUBSET S -> SUBSET L], NEW b \in J[{}],
         NEW F \in [S \X L -> L],
         \A s \in SUBSET S : \A x \in s : \A e \in J[s \ {x}] : F[<<x, e>>] \in J[s]
  PROVE  \E g : (\A s \in SUBSET S : g[s] \in J[s]) /\ FoldOf(g, S, F, b)
<1>1. b \in L
  OBVIOUS
<1>2. PICK g : Folds(g, S, L, F, b)
  BY <1>1, FoldExists
<1>3. FoldOf(g, S, F, b)
  BY <1>2 DEF Folds, FoldOf
<1>4. g[{}] \in J[{}]
  BY <1>2 DEF Folds
<1>5. ASSUME NEW s \in SUBSET S, s # {}, g[s \ {Pick(s)}] \in J[s \ {Pick(s)}]
      PROVE  g[s] \in J[s]
  <2>1. Pick(s) \in s
    BY <1>5, PickIn
  <2>2. g[s] = F[<<Pick(s), g[s \ {Pick(s)}]>>]
    BY <1>2, <1>5 DEF Folds
  <2> QED BY <1>5, <2>1, <2>2
<1>6. \A s \in SUBSET S : g[s] \in J[s]
  BY <1>4, <1>5, FoldKeeps
<1> QED BY <1>3, <1>6

-----------------------------------------------------------------------------
(***************************************************************************)
(* Choices and types.                                                      *)
(***************************************************************************)
LEMMA LeastNat ==
  ASSUME NEW T \in SUBSET Nat, T # {}
  PROVE  \E n \in T : \A m \in T : n <= m
<1>1. PICK n \in T : \A m \in T : ~ (<<m, n>> \in OpToRel(<, Nat))
  BY NatLessThanWellFounded, WFMin
<1>2. \A m \in T : ~ (m < n)
  BY <1>1, Zenon DEF OpToRel
<1>3. \A m \in T : n <= m
  BY <1>2
<1> QED BY <1>3

LEMMA MinIn ==
  ASSUME NEW T \in SUBSET Nat, T # {}
  PROVE  Min(T) \in T
BY LeastNat DEF Min

LEMMA OutcomesTyped ==
  ASSUME NEW d \in Ledgers
  PROVE  Outcomes(d) \subseteq Outcome
BY DEF Outcomes, Range, Ledgers

LEMMA EarliestIn ==
  ASSUME NEW d \in Ledgers, NEW C \in SUBSET Outcomes(d), C # {}
  PROVE  Earliest(d, C) \in C
<1> DEFINE T == {Position(d, c) : c \in C}
<1>1. \A c \in C : Position(d, c) \in DOMAIN d.results
  BY DEF Position, Outcomes, Range
<1>2. d.results \in Seq(Outcome)
  BY DEF Ledgers
<1>3. DOMAIN d.results \subseteq Nat
  BY <1>2
<1>4. T \in SUBSET Nat /\ T # {}
  BY <1>1, <1>3
<1>5. PICK n \in T : \A m \in T : n <= m
  <2> HIDE DEF T
  <2> QED BY <1>4, LeastNat
<1>6. PICK c \in C : n = Position(d, c)
  OBVIOUS
<1>7. \A other \in C : Position(d, c) <= Position(d, other)
  BY <1>5, <1>6
<1> QED BY <1>7 DEF Earliest

LEMMA ManifestTyped ==
  ASSUME NEW d \in Ledgers, NEW wait, Unhandled(d, wait) # {}
  PROVE  WaitManifest(d, wait) \subseteq Outcomes(d)
<1> DEFINE fresh == Unhandled(d, wait)
           Of(s) == {c \in fresh : Source(c) = s}
           firsts == {Earliest(d, Of(s)) : s \in {Source(c) : c \in fresh}}
<1>1. fresh \subseteq Outcomes(d)
  BY DEF Unhandled
<1>2. ASSUME NEW c \in fresh PROVE Earliest(d, Of(Source(c))) \in fresh
  <2>1. Of(Source(c)) \in SUBSET Outcomes(d) /\ c \in Of(Source(c))
    BY <1>1
  <2>2. Earliest(d, Of(Source(c))) \in Of(Source(c))
    <3> HIDE DEF Of, fresh
    <3> QED BY <2>1, EarliestIn
  <2> QED BY <2>2
<1>3. firsts \subseteq fresh
  BY <1>2
<1>4. firsts # {}
  <2>1. PICK c \in fresh : TRUE
    OBVIOUS
  <2>2. Earliest(d, Of(Source(c))) \in firsts
    OBVIOUS
  <2> QED BY <2>2
<1>5. WaitManifest(d, wait) = IF wait.any THEN {Earliest(d, firsts)} ELSE firsts
  BY DEF WaitManifest
<1>6. Earliest(d, firsts) \in firsts
  <2>1. firsts \in SUBSET Outcomes(d)
    BY <1>1, <1>3
  <2> HIDE DEF firsts
  <2> QED BY <2>1, <1>4, EarliestIn
<1> QED BY <1>1, <1>3, <1>5, <1>6

LEMMA AssignmentManifestTyped ==
  ASSUME NEW d \in Ledgers, NEW o \in Obligation, AssignmentSatisfied(d, o)
  PROVE  AssignmentManifest(d, o) \subseteq Outcomes(d)
<1> DEFINE fresh == Unhandled(d, d.assignment[o])
<1>1. fresh \in SUBSET Outcomes(d) /\ fresh # {}
  BY DEF Unhandled, AssignmentSatisfied, Satisfied
<1>2. Earliest(d, fresh) \in fresh
  <2> HIDE DEF fresh
  <2> QED BY <1>1, EarliestIn
<1> QED BY <1>1, <1>2 DEF AssignmentManifest

(***************************************************************************)
(* A transaction between its primary writes and its commit only extends    *)
(* the ledger: it adds notices and external results, replaces what the     *)
(* requests point to, and queues incidents.                                *)
(***************************************************************************)
Frame(d, e) ==
  /\ e.generation = d.generation /\ e.work = d.work /\ e.wait = d.wait /\ e.handled = d.handled
  /\ e.replays = d.replays /\ e.obligation = d.obligation /\ e.assignment = d.assignment
  /\ e.handledBy = d.handledBy /\ e.retained = d.retained /\ e.stopped = d.stopped
  /\ e.armed = d.armed /\ e.adoptByDefault = d.adoptByDefault

\* The rows of d are the first rows of e; the others are new.
Added(d, e) ==
  /\ Len(d.activations) <= Len(e.activations)
  /\ \A i \in Indexes(d) : e.activations[i] = d.activations[i]
  /\ \A i \in Indexes(e) \ Indexes(d) : e.activations[i].status = "pending"

Held0(d, r) == ActiveCurrent(d, d.request[r].reply, ReturnActor[r], "request_reply")

RequestExtends(d, e, r) ==
  /\ e.request[r].answered = d.request[r].answered
  /\ \/ e.request[r].status = d.request[r].status
     \/ d.request[r].status = "claimed" /\ e.request[r].status = "delivery_pending"
  /\ \/ e.request[r].reply = d.request[r].reply
     \/ e.request[r].reply > Len(d.activations) /\ ~Held0(d, r)

Extends(d, e) ==
  /\ Frame(d, e) /\ Added(d, e)
  /\ Outcomes(d) \subseteq Outcomes(e)
  /\ \A c \in Outcomes(e) \ Outcomes(d) : Source(c) \in External
  /\ \A r \in Request : RequestExtends(d, e, r)

LEMMA LedgerFields ==
  ASSUME NEW d \in Ledgers
  PROVE  /\ d.generation \in [Actor -> Nat] /\ d.work \in [Work -> WorkRow]
         /\ d.wait \in [Work -> WaitRow] /\ d.obligation \in [Obligation -> DebtRow]
         /\ d.assignment \in [Obligation -> AssignmentRow] /\ d.request \in [Request -> RequestRow]
         /\ d.results \in Seq(Outcome) /\ d.activations \in Seq(Row)
         /\ d.incidents \in SUBSET IncidentRow /\ Len(d.activations) \in Nat
         /\ Indexes(d) = 1..Len(d.activations) /\ Outcomes(d) \subseteq Outcome
         /\ \A i \in Indexes(d) : d.activations[i] \in Row
<1>1. /\ d.generation \in [Actor -> Nat] /\ d.work \in [Work -> WorkRow]
      /\ d.wait \in [Work -> WaitRow] /\ d.obligation \in [Obligation -> DebtRow]
      /\ d.assignment \in [Obligation -> AssignmentRow] /\ d.request \in [Request -> RequestRow]
      /\ d.results \in Seq(Outcome) /\ d.activations \in Seq(Row)
      /\ d.incidents \in SUBSET IncidentRow
  BY DEF Ledgers
<1>2. Len(d.activations) \in Nat /\ Indexes(d) = 1..Len(d.activations)
  BY <1>1 DEF Indexes
<1>3. \A i \in Indexes(d) : d.activations[i] \in Row
  BY <1>1 DEF Indexes
<1> QED BY <1>1, <1>2, <1>3, OutcomesTyped

LEMMA ExtendsReflexive ==
  ASSUME NEW d \in Ledgers
  PROVE  Extends(d, d)
BY LedgerFields DEF Extends, Frame, Added, RequestExtends

LEMMA ExtendsTransitive ==
  ASSUME NEW d \in Ledgers, NEW e \in Ledgers, NEW f \in Ledgers,
         \A r \in Request : d.request[r].reply <= Len(d.activations),
         Extends(d, e), Extends(e, f)
  PROVE  Extends(d, f)
<1> USE LedgerFields
<1>1. Frame(d, f)
  BY DEF Extends, Frame
<1>2. Added(d, f)
  <2>1. Indexes(d) \subseteq Indexes(e) /\ Indexes(e) \subseteq Indexes(f)
    BY DEF Extends, Added
  <2> QED BY <2>1 DEF Extends, Added
<1>3. Outcomes(d) \subseteq Outcomes(f) /\ \A c \in Outcomes(f) \ Outcomes(d) : Source(c) \in External
  BY DEF Extends
<1>4. ASSUME NEW r \in Request PROVE RequestExtends(d, f, r)
  <2>1. RequestExtends(d, e, r) /\ RequestExtends(e, f, r)
    BY DEF Extends
  <2>2. Len(d.activations) <= Len(e.activations)
    BY DEF Extends, Added
  <2>3. e.request[r].reply = d.request[r].reply => (Held0(d, r) <=> Held0(e, r))
    <3> DEFINE q == d.request[r].reply
    <3>1. q \in Nat /\ q <= Len(d.activations)
      BY DEF RequestRow
    <3>2. q # 0 => q \in Indexes(d)
      BY <3>1
    <3>3. q # 0 => e.activations[q] = d.activations[q]
      BY <3>2 DEF Extends, Added
    <3>4. e.generation = d.generation
      BY DEF Extends, Frame
    <3> HIDE DEF q
    <3>5. ActiveCurrent(d, q, ReturnActor[r], "request_reply") <=> ActiveCurrent(e, q, ReturnActor[r], "request_reply")
      BY <3>3, <3>4 DEF ActiveCurrent
    <3> QED BY <3>5 DEF Held0, q
  <2>4. f.request[r].reply \in Nat /\ e.request[r].reply \in Nat /\ d.request[r].reply \in Nat
    BY DEF RequestRow
  <2> QED BY <2>1, <2>2, <2>3, <2>4 DEF RequestExtends
<1> QED BY <1>1, <1>2, <1>3, <1>4 DEF Extends

-----------------------------------------------------------------------------
(***************************************************************************)
(* Adding a row.                                                           *)
(***************************************************************************)
NewRow(d, w, a, reason, g, marks) ==
  [work |-> w, actor |-> a, revision |-> d.work[w].revision, endpoint |-> d.generation[a],
   generation |-> g, reason |-> reason, marks |-> marks, status |-> "pending", turn |-> 0]

Appended(d, e, x) ==
  /\ Frame(d, e) /\ e.results = d.results
  /\ x \in Row /\ x.status = "pending" /\ e.activations = Append(d.activations, x)

LEMMA NewRowTyped ==
  ASSUME NEW d \in Ledgers, NEW w \in Work, NEW a \in Actor, NEW reason \in Reasons, NEW g \in Nat,
         NEW marks \in Marks
  PROVE  NewRow(d, w, a, reason, g, marks) \in Row
<1>1. d.work[w] \in WorkRow /\ d.generation[a] \in Nat
  BY LedgerFields
<1>2. d.work[w].revision \in Nat
  BY <1>1 DEF WorkRow
<1>3. "pending" \in Active \cup {"revoked"}
  BY DEF Active, Live
<1> QED BY <1>1, <1>2, <1>3 DEF NewRow, Row

LEMMA CreateEffect ==
  ASSUME NEW d \in Ledgers, NEW w \in Work, NEW a \in Actor, NEW reason \in Reasons, NEW g \in Nat,
         NEW marks \in Marks
  PROVE  LET e == Create(d, w, a, reason, g, marks)
         IN /\ e \in Ledgers /\ Appended(d, e, NewRow(d, w, a, reason, g, marks))
            /\ e.request = d.request /\ e.incidents = d.incidents
            /\ e.replyOwner = d.replyOwner
<1> DEFINE x == NewRow(d, w, a, reason, g, marks)
           e == Create(d, w, a, reason, g, marks)
<1>1. x \in Row
  BY NewRowTyped
<1>2. e = [d EXCEPT !.activations = Append(d.activations, x)]
  BY DEF Create, NewRow
<1>3. x.status = "pending"
  BY DEF NewRow
<1> HIDE DEF x, e
<1>4. d.activations \in Seq(Row)
  BY LedgerFields
<1>5. Append(d.activations, x) \in Seq(Row)
  BY <1>1, <1>4
<1>6. e \in Ledgers
  BY <1>2, <1>5 DEF Ledgers
<1>7. e.activations = Append(d.activations, x)
  BY <1>2 DEF Ledgers
<1>8. Frame(d, e) /\ e.results = d.results /\ e.request = d.request /\ e.incidents = d.incidents /\ e.replyOwner = d.replyOwner
  BY <1>2 DEF Ledgers, Frame
<1>9. Appended(d, e, x)
  BY <1>1, <1>3, <1>7, <1>8 DEF Appended
<1> QED BY <1>6, <1>8, <1>9 DEF e, x

LEMMA AppendedRows ==
  ASSUME NEW d \in Ledgers, NEW e \in Ledgers, NEW x, Appended(d, e, x)
  PROVE  LET n == Len(d.activations) + 1
         IN /\ n \in Nat /\ n # 0 /\ n \notin Indexes(d) /\ Indexes(e) = Indexes(d) \cup {n}
            /\ Len(e.activations) = n /\ Latest(e) = n /\ e.activations[n] = x
            /\ \A i \in Indexes(d) : e.activations[i] = d.activations[i]
            /\ Outcomes(e) = Outcomes(d) /\ Added(d, e)
<1> DEFINE n == Len(d.activations) + 1
<1>1. d.activations \in Seq(Row) /\ Len(d.activations) \in Nat /\ Indexes(d) = 1..Len(d.activations)
  BY LedgerFields
<1>2. e.activations = Append(d.activations, x) /\ x \in Row
  BY DEF Appended
<1>3. Len(e.activations) = n /\ e.activations[n] = x /\ Latest(e) = n
  BY <1>1, <1>2 DEF Latest
<1>4. \A i \in Indexes(d) : e.activations[i] = d.activations[i]
  BY <1>1, <1>2
<1>5. Indexes(e) = 1..n
  BY <1>1, <1>2 DEF Indexes
<1>6. Indexes(e) = Indexes(d) \cup {n} /\ n \notin Indexes(d)
  BY <1>1, <1>5
<1>7. Outcomes(e) = Outcomes(d)
  BY DEF Appended, Outcomes
<1>8. Added(d, e)
  BY <1>1, <1>3, <1>4, <1>6 DEF Added, Appended
<1> QED BY <1>1, <1>3, <1>4, <1>6, <1>7, <1>8

(***************************************************************************)
(* What stays as it was when a row is added.                               *)
(***************************************************************************)
SameRequests(d, e) ==
  \A r \in Request : /\ e.request[r].answered = d.request[r].answered
                     /\ e.request[r].status = "none" <=> d.request[r].status = "none"

LEMMA AddressedStays ==
  ASSUME NEW d \in Ledgers, NEW e \in Ledgers, NEW x \in Row, Frame(d, e), SameRequests(d, e),
         Addressed(d, x)
  PROVE  Addressed(e, x)
<1>1. x.marks.request \in Request \cup {None}
  BY DEF Row, Marks
<1> QED BY <1>1 DEF Addressed, Frame, SameRequests

LEMMA WorkStays ==
  ASSUME NEW d, NEW e, NEW w, Frame(d, e), WorkKept(d, w)
  PROVE  WorkKept(e, w)
BY DEF Frame, WorkKept, PendingReplays

LEMMA DebtStays ==
  ASSUME NEW d \in Ledgers, NEW e \in Ledgers, NEW o \in Obligation, Frame(d, e), Added(d, e),
         DebtKept(d, o)
  PROVE  DebtKept(e, o)
<1>1. Indexes(d) \subseteq Indexes(e)
  BY LedgerFields DEF Added
<1> QED BY <1>1 DEF Frame, Added, DebtKept

LEMMA RequestStays ==
  ASSUME NEW d \in Ledgers, NEW e \in Ledgers, NEW r \in Request, Frame(d, e), Added(d, e),
         e.request[r] = d.request[r], RequestKept(d, r),
         DebtOf[r] # None => (<<DebtOf[r], "result">> \in Outcomes(e)
                                <=> <<DebtOf[r], "result">> \in Outcomes(d))
  PROVE  RequestKept(e, r)
<1>1. Indexes(d) \subseteq Indexes(e)
  BY LedgerFields DEF Added
<1> QED BY <1>1 DEF Frame, Added, RequestKept

LEMMA LiveStays ==
  ASSUME NEW d \in Ledgers, NEW e \in Ledgers, NEW i \in Indexes(d), Frame(d, e), Added(d, e),
         \A r \in Request : RequestKept(d, r),
         LET r == d.activations[i].marks.request
         IN r = None \/ d.activations[i].marks.obligation # None \/ e.request[r] = d.request[r],
         Addressed(d, d.activations[i]), LiveKept(d, i)
  PROVE  LiveKept(e, i)
<1> DEFINE x == d.activations[i]
           r == x.marks.request
<1>1. e.activations[i] = x /\ x \in Row
  BY LedgerFields DEF Added
<1>2. r \in Request \cup {None}
  BY <1>1 DEF Row, Marks
<1>3. ASSUME x.status \in Live, x.reason = "work_recovery", r # None
      PROVE  x.marks.after \in Indexes(d) /\ e.request[r] = d.request[r]
  <2>1. d.request[r].reply = x.marks.after /\ x.marks.after # 0
    BY <1>3 DEF LiveKept
  <2>2. RequestKept(d, r)
    BY <1>2, <1>3
  <2>3. x.marks.obligation = None
    BY <1>3 DEF Addressed, AssignmentReasons
  <2> QED BY <1>3, <2>1, <2>2, <2>3 DEF RequestKept
<1>4. x.reason = "request_reply" => x.marks.obligation = None /\ r # None
  BY DEF Addressed, AssignmentReasons
<1>5. x.reason = "request_message" => r # None
  BY DEF Addressed
<1> HIDE DEF x, r
<1>6. x.status \in Live => x.endpoint = e.generation[x.actor]
  BY DEF LiveKept, Frame, x
<1>7. x.marks.obligation # None /\ x.status \in Live =>
        LET o == x.marks.obligation
        IN  /\ e.obligation[o].status = "open" /\ x.generation = e.obligation[o].generation
            /\ e.work[x.work].mode = "complete" /\ RequestOf(o) = None
                 => x.reason = "assignment_continue"
  BY DEF LiveKept, Frame, x
<1>8. x.status \in Live /\ x.marks.obligation = None /\ r = None =>
            /\ x.revision = e.work[x.work].revision /\ x.actor = e.work[x.work].owner
            /\ e.work[x.work].mode # "complete"
            /\ x.reason = "continue_checkpoint" => e.work[x.work].mode = "continue"
            /\ x.reason = "wait_satisfied" => e.work[x.work].mode = "waiting"
  BY DEF LiveKept, Frame, x, r
<1>9. x.status \in Live /\ x.reason = "request_reply" =>
            e.request[r].reply = i /\ e.request[r].status = "reply_ready"
  BY <1>4 DEF LiveKept, x, r
<1>10. x.status \in Live /\ x.reason = "request_message" /\ x.marks.obligation = None =>
            e.request[r].message = i /\ e.request[r].status = "delivery_pending"
  BY <1>5 DEF LiveKept, x, r
<1>11. x.status \in Live /\ x.reason = "work_recovery" /\ r # None =>
            /\ e.request[r].reply = x.marks.after /\ e.request[r].status = "reply_ready"
            /\ x.marks.after # 0
            /\ ActiveCurrent(e, x.marks.after, ReturnActor[r], "request_reply")
            /\ e.activations[x.marks.after].status = "claimed"
  <2> SUFFICES ASSUME x.status \in Live, x.reason = "work_recovery", r # None
               PROVE  /\ e.request[r].reply = x.marks.after /\ e.request[r].status = "reply_ready"
                      /\ x.marks.after # 0
                      /\ ActiveCurrent(e, x.marks.after, ReturnActor[r], "request_reply")
                      /\ e.activations[x.marks.after].status = "claimed"
    OBVIOUS
  <2>1. /\ d.request[r].reply = x.marks.after /\ d.request[r].status = "reply_ready"
        /\ x.marks.after # 0
        /\ ActiveCurrent(d, x.marks.after, ReturnActor[r], "request_reply")
        /\ d.activations[x.marks.after].status = "claimed"
    BY DEF LiveKept, x, r
  <2>2. e.activations[x.marks.after] = d.activations[x.marks.after] /\ e.request[r] = d.request[r]
    BY <1>3 DEF Added
  <2> QED BY <2>1, <2>2 DEF ActiveCurrent, Frame
<1> QED BY <1>1, <1>6, <1>7, <1>8, <1>9, <1>10, <1>11 DEF LiveKept, r

Single == {"assignment_continue", "assignment_wait_satisfied"}

\* A new notice of an assignment fits its mode, and is the only one where there may be one.
Fits(d, x) ==
  LET o == x.marks.obligation
      mode == d.assignment[o].mode
  IN o # None /\ x.reason # "assignment_recovery" =>
       /\ x.generation = d.obligation[o].generation
       /\ mode = "continue" => x.reason = "assignment_continue"
       /\ mode = "waiting" => x.reason = "assignment_wait_satisfied"
       /\ mode = "none" => x.reason \in {"obligation_assigned", "obligation_reminder", "request_message"}
       /\ mode = "paused" => x.reason = "assignment_paused_control"
       /\ x.reason \in Single =>
            \A j \in Indexes(d) :
              ~ (/\ Current(d, j, o) /\ d.activations[j].status \in Active
                 /\ d.activations[j].reason = x.reason)

LEMMA NoticeStays ==
  ASSUME NEW d \in Ledgers, NEW e \in Ledgers, NEW x, Appended(d, e, x), Fits(d, x),
         NEW i \in Indexes(d), NoticeKept(d, i)
  PROVE  NoticeKept(e, i)
<1> DEFINE y == d.activations[i]
           o == y.marks.obligation
           n == Len(d.activations) + 1
<1>1. /\ e.activations[i] = y /\ e.activations[n] = x
      /\ Indexes(e) = Indexes(d) \cup {n} /\ n \notin Indexes(d)
      /\ \A j \in Indexes(d) : e.activations[j] = d.activations[j]
  BY AppendedRows
<1>2. \A j \in Indexes(d) : Current(e, j, o) <=> Current(d, j, o)
  BY <1>1 DEF Current, Appended, Frame
<1>3. e.assignment = d.assignment /\ e.obligation = d.obligation
  BY DEF Appended, Frame
<1> HIDE DEF o, n
<1> SUFFICES ASSUME o # None, Current(e, i, o), e.obligation[o].status = "open", y.status \in Active
             PROVE  /\ y.status = "claimed" => e.obligation[o].claim = i
                    /\ CASE e.assignment[o].mode = "continue" -> y.reason = "assignment_continue"
                         [] e.assignment[o].mode = "waiting" -> y.reason = "assignment_wait_satisfied"
                         [] e.assignment[o].mode = "none" ->
                              y.reason \in {"obligation_assigned", "obligation_reminder", "request_message"}
                         [] e.assignment[o].mode = "paused" ->
                              y.status \in Live => y.reason = "assignment_paused_control"
                    /\ y.reason \in {"assignment_continue", "assignment_wait_satisfied"} =>
                         \A j \in Indexes(e) :
                           Current(e, j, o) /\ e.activations[j].status \in Active
                             /\ e.activations[j].reason = y.reason => j = i
  BY <1>1 DEF NoticeKept, o
<1>4. Current(d, i, o)
  BY <1>2
<1>5. /\ y.status = "claimed" => d.obligation[o].claim = i
      /\ CASE d.assignment[o].mode = "continue" -> y.reason = "assignment_continue"
           [] d.assignment[o].mode = "waiting" -> y.reason = "assignment_wait_satisfied"
           [] d.assignment[o].mode = "none" ->
                y.reason \in {"obligation_assigned", "obligation_reminder", "request_message"}
           [] d.assignment[o].mode = "paused" ->
                y.status \in Live => y.reason = "assignment_paused_control"
      /\ y.reason \in {"assignment_continue", "assignment_wait_satisfied"} =>
           \A j \in Indexes(d) :
             Current(d, j, o) /\ d.activations[j].status \in Active
               /\ d.activations[j].reason = y.reason => j = i
  BY <1>3, <1>4 DEF NoticeKept, o
<1>6. ASSUME y.reason \in Single, Current(e, n, o), x.reason = y.reason PROVE FALSE
  <2>1. x.marks.obligation = o /\ x.reason # "assignment_recovery"
    BY <1>1, <1>6 DEF Current
  <2>2. ~ (Current(d, i, o) /\ y.status \in Active /\ y.reason = x.reason)
    BY <1>6, <2>1 DEF Fits
  <2> QED BY <1>4, <1>6, <2>2
<1> QED BY <1>1, <1>2, <1>3, <1>5, <1>6 DEF Single

LEMMA NoticeNew ==
  ASSUME NEW d \in Ledgers, NEW e \in Ledgers, NEW x, Appended(d, e, x), Fits(d, x)
  PROVE  NoticeKept(e, Len(e.activations))
<1> DEFINE n == Len(d.activations) + 1
           o == x.marks.obligation
<1>1. /\ e.activations[n] = x /\ Len(e.activations) = n
      /\ Indexes(e) = Indexes(d) \cup {n} /\ n \notin Indexes(d)
      /\ \A j \in Indexes(d) : e.activations[j] = d.activations[j]
  BY AppendedRows
<1>2. \A j \in Indexes(d) : Current(e, j, o) <=> Current(d, j, o)
  BY <1>1 DEF Current, Appended, Frame
<1>3. x.status = "pending" /\ e.assignment = d.assignment /\ e.obligation = d.obligation
  BY DEF Appended, Frame
<1> HIDE DEF n, o
<1> SUFFICES ASSUME o # None, Current(e, n, o), e.obligation[o].status = "open"
             PROVE  /\ CASE e.assignment[o].mode = "continue" -> x.reason = "assignment_continue"
                         [] e.assignment[o].mode = "waiting" -> x.reason = "assignment_wait_satisfied"
                         [] e.assignment[o].mode = "none" ->
                              x.reason \in {"obligation_assigned", "obligation_reminder", "request_message"}
                         [] e.assignment[o].mode = "paused" ->
                              x.status \in Live => x.reason = "assignment_paused_control"
                    /\ x.reason \in {"assignment_continue", "assignment_wait_satisfied"} =>
                         \A j \in Indexes(e) :
                           Current(e, j, o) /\ e.activations[j].status \in Active
                             /\ e.activations[j].reason = x.reason => j = n
  BY <1>1, <1>3 DEF NoticeKept, o
<1>4. x.reason # "assignment_recovery"
  BY <1>1 DEF Current
<1>5. LET mode == d.assignment[o].mode
      IN  /\ mode = "continue" => x.reason = "assignment_continue"
          /\ mode = "waiting" => x.reason = "assignment_wait_satisfied"
          /\ mode = "none" => x.reason \in {"obligation_assigned", "obligation_reminder", "request_message"}
          /\ mode = "paused" => x.reason = "assignment_paused_control"
          /\ x.reason \in Single =>
            \A j \in Indexes(d) :
              ~ (/\ Current(d, j, o) /\ d.activations[j].status \in Active
                 /\ d.activations[j].reason = x.reason)
  BY <1>4 DEF Fits, o
<1>6. o \in Obligation
  BY DEF Appended, Row, Marks, o
<1>7. d.assignment[o].mode \in {"none", "paused", "continue", "waiting"}
  BY <1>6, LedgerFields DEF AssignmentRow
<1> QED BY <1>1, <1>2, <1>3, <1>5, <1>7 DEF Single

LEMMA SettledStays ==
  ASSUME NEW d \in Ledgers, NEW e \in Ledgers, NEW x, Appended(d, e, x), NEW o \in Obligation,
         x.marks.obligation = o => x.actor = Assignee[o] /\ x.endpoint = d.generation[x.actor],
         Settled(d, o)
  PROVE  Settled(e, o)
<1> DEFINE n == Len(d.activations) + 1
<1>1. /\ e.activations[n] = x /\ Indexes(e) = Indexes(d) \cup {n}
      /\ \A j \in Indexes(d) : e.activations[j] = d.activations[j]
  BY AppendedRows
<1>2. e.generation = d.generation /\ e.obligation = d.obligation
  BY DEF Appended, Frame
<1>3. \A j \in Indexes(d) : Current(e, j, o) <=> Current(d, j, o)
  BY <1>1, <1>2 DEF Current
<1>4. Current(e, n, o) => x.marks.obligation = o
  BY <1>1 DEF Current
<1> HIDE DEF n
<1> QED BY <1>1, <1>2, <1>3, <1>4 DEF Settled

Twins(x, y) == y.reason = x.reason /\ y.actor = x.actor /\ y.marks = x.marks

LEMMA NudgeStays ==
  ASSUME NEW d \in Ledgers, NEW e \in Ledgers, NEW x, Appended(d, e, x),
         NEW i \in Indexes(d), NudgeKept(d, i),
         \A n \in d.incidents : n.nudge = i /\ n.status = "queued"
           /\ d.activations[i].status \in Live => n \in e.incidents,
         d.activations[i].status \in Live /\ x.reason \in Recovery => ~ Twins(d.activations[i], x)
  PROVE  NudgeKept(e, i)
<1> DEFINE y == d.activations[i]
           n == Len(d.activations) + 1
<1>1. /\ e.activations[n] = x /\ Indexes(e) = Indexes(d) \cup {n} /\ e.activations[i] = y
      /\ \A j \in Indexes(d) : e.activations[j] = d.activations[j]
  BY AppendedRows
<1>2. e.armed = d.armed /\ e.obligation = d.obligation
  BY DEF Appended, Frame
<1> HIDE DEF n, y
<1> SUFFICES ASSUME y.status \in Live, y.reason \in Recovery
             PROVE  NudgeKept(e, i)
  BY <1>1 DEF NudgeKept
<1>3. \A source : Queued(d, i, source) => Queued(e, i, source)
  BY DEF Queued, y
<1>4. /\ y.work \in d.armed /\ y.marks.outcomes = {}
      /\ y.reason = "assignment_recovery" =>
            /\ d.obligation[y.marks.obligation].claim # 0
            /\ Queued(d, i, d.obligation[y.marks.obligation].claim)
            /\ y.marks.obligation # None /\ y.marks.request = RequestOf(y.marks.obligation)
            /\ y.marks.after = 0
      /\ y.reason = "work_recovery" =>
            /\ Queued(d, i, y.marks.after)
            /\ y.marks.after \in Indexes(d) /\ d.activations[y.marks.after].work = y.work
      /\ \A j \in Indexes(d) :
            LET z == d.activations[j]
            IN z.status \in Live /\ z.reason = y.reason /\ z.actor = y.actor /\ z.marks = y.marks
                 => j = i
  BY DEF NudgeKept, y
<1>5. ~ Twins(y, x)
  BY DEF Twins, y
<1> QED BY <1>1, <1>2, <1>3, <1>4, <1>5 DEF NudgeKept, Twins

(***************************************************************************)
(* The invariant is kept if the new row, the requests and the nudges fit.  *)
(***************************************************************************)
LEMMA AppendGood ==
  ASSUME NEW d, NEW e \in Ledgers, NEW x, NEW P, GoodBut(d, P), Appended(d, e, x),
         \A r \in Request : RequestExtends(d, e, r) /\ RequestKept(e, r),
         \A i \in Indexes(d) : LiveKept(e, i) /\ NudgeKept(e, i),
         Addressed(e, x), Fits(d, x), LiveKept(e, Len(e.activations)),
         NudgeKept(e, Len(e.activations)),
         \A n \in e.incidents : n.nudge \in Indexes(e)
  PROVE  GoodBut(e, P) /\ Extends(d, e)
<1>1. /\ d \in Ledgers
      /\ \A w \in Work : WorkKept(d, w)
      /\ \A o \in Obligation : DebtKept(d, o)
      /\ \A r \in Request : RequestKept(d, r)
      /\ \A i \in Indexes(d) : Addressed(d, d.activations[i]) /\ NoticeKept(d, i)
      /\ \A o \in Obligation \ P : Settled(d, o)
  BY DEF GoodBut, Good
<1> DEFINE n == Len(e.activations)
<1>2. /\ e.activations[n] = x /\ Indexes(e) = Indexes(d) \cup {n} /\ n \notin Indexes(d)
      /\ \A i \in Indexes(d) : e.activations[i] = d.activations[i]
      /\ Outcomes(e) = Outcomes(d) /\ Added(d, e)
  BY <1>1, AppendedRows
<1>3. Frame(d, e) /\ x.status = "pending" /\ x \in Row
  BY DEF Appended
<1>4. \A w \in Work : WorkKept(e, w)
  BY <1>1, <1>3, WorkStays
<1>5. \A o \in Obligation : DebtKept(e, o)
  BY <1>1, <1>2, <1>3, DebtStays
<1>6. SameRequests(d, e)
  BY <1>1, LedgerFields DEF SameRequests, RequestExtends, RequestRow
<1>7. \A i \in Indexes(d) : Addressed(e, d.activations[i])
  BY <1>1, <1>3, <1>6, AddressedStays, LedgerFields
<1>8. \A i \in Indexes(d) : NoticeKept(e, i)
  BY <1>1, NoticeStays
<1>9. NoticeKept(e, n)
  BY <1>1, NoticeNew
<1>10. ASSUME NEW o \in Obligation \ P PROVE Settled(e, o)
  <2>1. x.marks.obligation = o => x.actor = Assignee[o]
    BY LedgerConstants DEF Addressed
  <2>2. x.endpoint = d.generation[x.actor]
    BY <1>2, <1>3 DEF LiveKept, Live, Frame
  <2> QED BY <1>1, <1>10, <2>1, <2>2, SettledStays
<1> HIDE DEF n
<1>11. \A i \in Indexes(e) : /\ Addressed(e, e.activations[i]) /\ NoticeKept(e, i)
                             /\ LiveKept(e, i) /\ NudgeKept(e, i)
  BY <1>2, <1>7, <1>8, <1>9 DEF n
<1>12. Extends(d, e)
  BY <1>2, <1>3 DEF Extends
<1>13. Good(e)
  BY <1>4, <1>5, <1>11 DEF Good
<1> QED BY <1>10, <1>12, <1>13 DEF GoodBut

\* What a new notice needs whatever its index is.
Allowed(d, x) ==
  LET o == x.marks.obligation
  IN /\ o # None =>
          /\ d.obligation[o].status = "open" /\ x.generation = d.obligation[o].generation
          /\ d.work[x.work].mode = "complete" /\ RequestOf(o) = None
               => x.reason = "assignment_continue"
     /\ o = None /\ x.marks.request = None =>
          /\ x.actor = d.work[x.work].owner /\ d.work[x.work].mode # "complete"
          /\ x.reason = "continue_checkpoint" => d.work[x.work].mode = "continue"
          /\ x.reason = "wait_satisfied" => d.work[x.work].mode = "waiting"

LEMMA GoodParts ==
  ASSUME NEW d, NEW P, GoodBut(d, P)
  PROVE  /\ d \in Ledgers
         /\ \A w \in Work : WorkKept(d, w)
         /\ \A o \in Obligation : DebtKept(d, o)
         /\ \A r \in Request : RequestKept(d, r)
         /\ \A i \in Indexes(d) : /\ Addressed(d, d.activations[i]) /\ NoticeKept(d, i)
                                  /\ LiveKept(d, i) /\ NudgeKept(d, i)
         /\ \A n \in d.incidents : n.nudge \in Indexes(d)
         /\ \A o \in Obligation \ P : Settled(d, o)
         /\ \A r \in Request : d.request[r].reply <= Len(d.activations)
<1>1. ASSUME NEW r \in Request PROVE d.request[r].reply <= Len(d.activations)
  <2>1. d \in Ledgers /\ RequestKept(d, r)
    BY DEF GoodBut, Good
  <2>2. Indexes(d) = 1..Len(d.activations) /\ Len(d.activations) \in Nat
    BY <2>1, LedgerFields
  <2>3. d.request[r].reply = 0 \/ d.request[r].reply \in Indexes(d)
    BY <2>1 DEF RequestKept
  <2> QED BY <2>2, <2>3
<1> QED BY <1>1 DEF GoodBut, Good

LEMMA CreateGood ==
  ASSUME NEW d, NEW P, GoodBut(d, P), NEW w \in Work, NEW a \in Actor,
         NEW reason \in Reasons \ (Recovery \cup {"request_reply"}), NEW g \in Nat,
         NEW marks \in Marks,
         reason = "request_message" => marks.obligation # None,
         LET x == NewRow(d, w, a, reason, g, marks)
         IN Addressed(d, x) /\ Fits(d, x) /\ Allowed(d, x)
  PROVE  LET e == Create(d, w, a, reason, g, marks)
         IN GoodBut(e, P) /\ Extends(d, e)
<1> DEFINE x == NewRow(d, w, a, reason, g, marks)
           e == Create(d, w, a, reason, g, marks)
           n == Len(e.activations)
<1>1. /\ d \in Ledgers
      /\ \A r \in Request : RequestKept(d, r)
      /\ \A i \in Indexes(d) : Addressed(d, d.activations[i]) /\ LiveKept(d, i) /\ NudgeKept(d, i)
      /\ \A m \in d.incidents : m.nudge \in Indexes(d)
  BY GoodParts
<1>2. e \in Ledgers /\ Appended(d, e, x) /\ e.request = d.request /\ e.incidents = d.incidents
  BY <1>1, CreateEffect
<1>3. x.work = w /\ x.actor = a /\ x.reason = reason /\ x.marks = marks
      /\ x.revision = d.work[w].revision /\ x.endpoint = d.generation[a] /\ x.status = "pending"
  BY DEF NewRow
<1>4. Addressed(d, x) /\ Fits(d, x) /\ Allowed(d, x)
  OBVIOUS
<1> HIDE DEF x, e
<1>5. /\ e.activations[n] = x /\ Indexes(e) = Indexes(d) \cup {n}
      /\ Outcomes(e) = Outcomes(d) /\ Added(d, e)
  BY <1>1, <1>2, AppendedRows
<1>6. Frame(d, e) /\ x \in Row
  BY <1>2 DEF Appended
<1> HIDE DEF n
<1>7. \A r \in Request : RequestExtends(d, e, r)
  BY <1>2 DEF RequestExtends
<1>8. \A r \in Request : RequestKept(e, r)
  BY <1>1, <1>2, <1>5, <1>6, RequestStays
<1>9. ASSUME NEW i \in Indexes(d) PROVE LiveKept(e, i)
  <2>1. d.activations[i].marks.request \in Request \cup {None}
    BY <1>1, LedgerFields DEF Row, Marks
  <2> QED BY <1>1, <1>2, <1>5, <1>6, <2>1, LiveStays
<1>10. ASSUME NEW i \in Indexes(d) PROVE NudgeKept(e, i)
  BY <1>1, <1>2, <1>3, NudgeStays
<1>11. SameRequests(d, e)
  BY <1>2 DEF SameRequests
<1>12. Addressed(e, x)
  BY <1>1, <1>2, <1>4, <1>6, <1>11, AddressedStays
<1>13. NudgeKept(e, n)
  BY <1>3, <1>5 DEF NudgeKept
<1>14. LiveKept(e, n)
  <2>1. reason # "work_recovery" /\ reason # "request_reply"
    BY DEF Recovery
  <2> QED BY <1>3, <1>4, <1>5, <1>6, <2>1 DEF LiveKept, Allowed, Frame
<1>15. \A m \in e.incidents : m.nudge \in Indexes(e)
  BY <1>1, <1>2, <1>5
<1> QED BY <1>2, <1>4, <1>7, <1>8, <1>9, <1>10, <1>12, <1>13, <1>14, <1>15, AppendGood DEF n, e

(***************************************************************************)
(* Messages and replies: a row and the pointer to it.                      *)
(***************************************************************************)
LEMMA RequestWrite ==
  ASSUME NEW d \in Ledgers, NEW r \in Request, NEW q \in RequestRow
  PROVE  LET e == [d EXCEPT !.request = [d.request EXCEPT ![r] = q]]
         IN /\ e \in Ledgers /\ Frame(d, e) /\ e.activations = d.activations
            /\ e.results = d.results /\ e.incidents = d.incidents /\ e.replyOwner = d.replyOwner
            /\ e.request[r] = q
            /\ \A p \in Request \ {r} : e.request[p] = d.request[p]
<1> DEFINE f == [d.request EXCEPT ![r] = q]
           e == [d EXCEPT !.request = f]
<1>1. d.request \in [Request -> RequestRow]
  BY LedgerFields
<1>2. f \in [Request -> RequestRow] /\ f[r] = q /\ \A p \in Request \ {r} : f[p] = d.request[p]
  BY <1>1
<1> HIDE DEF f
<1>3. e \in Ledgers
  BY <1>2 DEF Ledgers
<1>4. e.request = f
  BY DEF Ledgers
<1>5. /\ Frame(d, e) /\ e.activations = d.activations /\ e.results = d.results
      /\ e.incidents = d.incidents /\ e.replyOwner = d.replyOwner
  BY DEF Ledgers, Frame
<1> HIDE DEF e
<1> QED BY <1>2, <1>3, <1>4, <1>5 DEF e, f

MessageMarks(r) == [NoMarks EXCEPT !.request = r, !.obligation = DebtOf[r]]

LEMMA MarksTyped ==
  ASSUME NEW r \in Request \cup {None}, NEW o \in Obligation \cup {None}, NEW k \in Nat,
         NEW c \in SUBSET Outcome
  PROVE  /\ [NoMarks EXCEPT !.request = r, !.obligation = o] \in Marks
         /\ [NoMarks EXCEPT !.obligation = o] \in Marks
         /\ [NoMarks EXCEPT !.request = r, !.outcomes = c] \in Marks
         /\ [NoMarks EXCEPT !.obligation = o, !.outcomes = c] \in Marks
         /\ [NoMarks EXCEPT !.request = r, !.after = k] \in Marks
         /\ [NoMarks EXCEPT !.after = k] \in Marks /\ [NoMarks EXCEPT !.outcomes = c] \in Marks
         /\ NoMarks \in Marks
BY DEF NoMarks, Marks

LEMMA SendMessageEffect ==
  ASSUME NEW d \in Ledgers, NEW r \in Request
  PROVE  LET e == SendMessage(d, r)
             g == IF DebtOf[r] = None THEN 0 ELSE d.obligation[DebtOf[r]].generation
             x == NewRow(d, WorkOf[r], Assignee[r], "request_message", g, MessageMarks(r))
         IN /\ e \in Ledgers /\ Appended(d, e, x) /\ x.generation = g
            /\ e.incidents = d.incidents /\ e.replyOwner = d.replyOwner
            /\ e.request[r].status = "delivery_pending"
            /\ e.request[r].message = Len(e.activations)
            /\ e.request[r].answered = d.request[r].answered
            /\ e.request[r].reply = d.request[r].reply
            /\ \A p \in Request \ {r} : e.request[p] = d.request[p]
<1> DEFINE o == DebtOf[r]
           g == IF o = None THEN 0 ELSE d.obligation[o].generation
           c == Create(d, WorkOf[r], Assignee[r], "request_message", g, MessageMarks(r))
           x == NewRow(d, WorkOf[r], Assignee[r], "request_message", g, MessageMarks(r))
           q == [c.request[r] EXCEPT !.message = Latest(c), !.status = "delivery_pending"]
           e == SendMessage(d, r)
<1>1. o \in Obligation \cup {None} /\ WorkOf[r] \in Work /\ Assignee[r] \in Actor
  BY LedgerConstants
<1>2. g \in Nat
  BY <1>1, LedgerFields DEF DebtRow
<1>3. MessageMarks(r) \in Marks
  BY <1>1, MarksTyped DEF MessageMarks
<1>4. "request_message" \in Reasons
  BY DEF Reasons, AssignmentReasons
<1> HIDE DEF g
<1>5. c \in Ledgers /\ Appended(d, c, x) /\ c.request = d.request /\ c.incidents = d.incidents
      /\ c.replyOwner = d.replyOwner
  BY <1>1, <1>2, <1>3, <1>4, CreateEffect
<1>6. x.generation = g
  BY DEF NewRow
<1> HIDE DEF c, x
<1>7. c.request[r] \in RequestRow /\ Latest(c) = Len(c.activations) /\ Len(c.activations) \in Nat
  BY <1>5, LedgerFields DEF Latest
<1>8. /\ q \in RequestRow /\ q.status = "delivery_pending" /\ q.message = Len(c.activations)
      /\ q.answered = c.request[r].answered /\ q.reply = c.request[r].reply
  BY <1>7 DEF RequestRow
<1>9. e = [c EXCEPT !.request = [c.request EXCEPT ![r] = q]]
  <2>1. e = [c EXCEPT !.request[r].message = Latest(c), !.request[r].status = "delivery_pending"]
    BY DEF SendMessage, c, g, MessageMarks
  <2> HIDE DEF e
  <2> DEFINE p == [c.request[r] EXCEPT !.message = Latest(c)]
             h == [c.request EXCEPT ![r] = p]
             k == [c EXCEPT !.request = h]
  <2>2. k = [c EXCEPT !.request[r].message = Latest(c)]
    OBVIOUS
  <2>3. e = [k EXCEPT !.request[r].status = "delivery_pending"]
    BY <2>1, <2>2
  <2>4. k.request = h
    BY <1>5 DEF Ledgers
  <2>5. c.request \in [Request -> RequestRow]
    BY <1>5, LedgerFields
  <2>6. h[r] = p
    BY <2>5
  <2>7. q = [p EXCEPT !.status = "delivery_pending"]
    OBVIOUS
  <2>8. e = [k EXCEPT !.request = [h EXCEPT ![r] = q]]
    <3> HIDE DEF h, k, p
    <3> QED BY <2>3, <2>4, <2>6, <2>7
  <2> HIDE DEF p, q
  <2>9. [h EXCEPT ![r] = q] = [c.request EXCEPT ![r] = q]
    BY <2>5
  <2> HIDE DEF h
  <2>10. [k EXCEPT !.request = [h EXCEPT ![r] = q]] = [c EXCEPT !.request = [h EXCEPT ![r] = q]]
    OBVIOUS
  <2> QED BY <2>8, <2>9, <2>10
<1> HIDE DEF q, e
<1>10. /\ e \in Ledgers /\ Frame(c, e) /\ e.activations = c.activations
       /\ e.results = c.results /\ e.incidents = c.incidents /\ e.replyOwner = c.replyOwner
       /\ e.request[r] = q
       /\ \A p \in Request \ {r} : e.request[p] = c.request[p]
  BY <1>5, <1>8, <1>9, RequestWrite
<1>11. Appended(d, e, x)
  BY <1>5, <1>10 DEF Appended, Frame
<1> QED BY <1>5, <1>6, <1>8, <1>10, <1>11 DEF e, x, g

\* No message of an informational request is live.
NoLiveMessage(d, r) ==
  \A i \in Indexes(d) :
    LET y == d.activations[i]
    IN y.status \in Live /\ y.marks.request = r /\ y.marks.obligation = None
         => y.reason # "request_message"

\* A request that waits for its answer, and whose message is missing.
LEMMA SendMessageAnew ==
  ASSUME NEW d, NEW P, GoodBut(d, P), NEW r \in Request,
         d.request[r].status \in {"delivery_pending", "claimed"},
         DebtOf[r] # None => d.assignment[DebtOf[r]].mode = "none",
         NoLiveMessage(d, r) \/ DebtOf[r] # None
  PROVE  GoodBut(SendMessage(d, r), P) /\ Extends(d, SendMessage(d, r))
<1> DEFINE o == DebtOf[r]
           g == IF o = None THEN 0 ELSE d.obligation[o].generation
           x == NewRow(d, WorkOf[r], Assignee[r], "request_message", g, MessageMarks(r))
           e == SendMessage(d, r)
           n == Len(e.activations)
<1>1. /\ d \in Ledgers
      /\ \A q \in Request : RequestKept(d, q)
      /\ \A i \in Indexes(d) : Addressed(d, d.activations[i]) /\ LiveKept(d, i) /\ NudgeKept(d, i)
      /\ \A m \in d.incidents : m.nudge \in Indexes(d)
  BY GoodParts
<1>2. /\ e \in Ledgers /\ Appended(d, e, x) /\ x.generation = g
      /\ e.incidents = d.incidents
      /\ e.request[r].status = "delivery_pending"
      /\ e.request[r].message = Len(e.activations)
      /\ e.request[r].answered = d.request[r].answered
      /\ e.request[r].reply = d.request[r].reply
      /\ \A p \in Request \ {r} : e.request[p] = d.request[p]
  BY <1>1, SendMessageEffect
<1>3. /\ x.work = WorkOf[r] /\ x.actor = Assignee[r] /\ x.reason = "request_message"
      /\ x.marks = MessageMarks(r)
      /\ x.endpoint = d.generation[x.actor] /\ x.status = "pending"
  BY DEF NewRow
<1>4. /\ o \in Obligation \cup {None} /\ r # None
      /\ o # None => WorkOf[o] = WorkOf[r] /\ Assignee[o] = Assignee[r] /\ RequestOf(o) = r
  BY LedgerConstants DEF RequestOf
<1>5. x.marks.request = r /\ x.marks.obligation = o
  BY <1>3 DEF MessageMarks, NoMarks
<1>6. ~d.request[r].answered /\ d.work[WorkOf[r]].mode # "none"
  BY <1>1 DEF RequestKept
<1>7. o # None => d.obligation[o].status = "open" /\ d.obligation[o].generation \in Nat
  <2>1. o # None => d.obligation[o] \in DebtRow
    BY <1>1, <1>4, LedgerFields
  <2>2. RequestKept(d, r)
    BY <1>1
  <2>3. o # None => d.obligation[o].status # "none" /\ d.obligation[o].status # "resolved"
    BY <1>6, <2>2 DEF RequestKept
  <2> QED BY <2>1, <2>3 DEF DebtRow
<1>8. d.generation[x.actor] \in Nat
  BY <1>1, <1>3, LedgerFields, LedgerConstants
<1> HIDE DEF x, e, g
<1>9. g = IF o = None THEN 0 ELSE d.obligation[o].generation
  BY DEF g
<1> HIDE DEF o
<1>10. Addressed(d, x)
  BY <1>2, <1>3, <1>4, <1>5, <1>6, <1>7, <1>8, <1>9
  DEF Addressed, AssignmentReasons, OwnerControl, Recovery, o
<1>11. Fits(d, x)
  BY <1>2, <1>3, <1>5, <1>9 DEF Fits, Single, o
<1>12. /\ e.activations[n] = x /\ Indexes(e) = Indexes(d) \cup {n}
       /\ \A i \in Indexes(d) : e.activations[i] = d.activations[i]
       /\ Outcomes(e) = Outcomes(d) /\ Added(d, e)
  BY <1>1, <1>2, AppendedRows
<1>13. Frame(d, e) /\ x \in Row
  BY <1>2 DEF Appended
<1> HIDE DEF n
<1>14. \A q \in Request : RequestExtends(d, e, q)
  BY <1>2 DEF RequestExtends
<1>15. ASSUME NEW q \in Request PROVE RequestKept(e, q)
  <2>1. CASE q # r
    BY <1>1, <1>2, <1>12, <1>13, <2>1, RequestStays
  <2>2. CASE q = r
    <3>1. RequestKept(d, r)
      BY <1>1
    <3>2. d.request[r].reply = 0
      BY <1>6, <3>1 DEF RequestKept
    <3>3. DebtOf[r] = None => d.request[r].status = "delivery_pending"
      BY <3>1 DEF RequestKept
    <3>4. e.request[r].message = n /\ n \in Indexes(e) /\ e.activations[n].marks.request = r
      BY <1>2, <1>5, <1>12 DEF n
    <3> QED BY <1>2, <1>6, <1>12, <1>13, <2>2, <3>1, <3>2, <3>3, <3>4 DEF RequestKept, Frame
  <2> QED BY <2>1, <2>2
<1>16. ASSUME NEW i \in Indexes(d) PROVE LiveKept(e, i)
  <2> DEFINE y == d.activations[i]
  <2>1. y.marks.request \in Request \cup {None} /\ y.marks.obligation \in Obligation \cup {None}
    BY <1>1, LedgerFields DEF Row, Marks
  <2>2. CASE y.marks.request = r /\ y.marks.obligation = None
    <3>1. y.reason \in {"work_recovery", "request_message", "request_reply"}
      BY <1>1, <1>4, <2>2 DEF Addressed
    <3>2. y.reason = "request_message"
      BY <1>1, <1>4, <1>6, <2>2, <3>1 DEF Addressed
    <3>3. y.actor = Assignee[r] /\ DebtOf[r] = None
      BY <1>1, <2>2, <3>2 DEF Addressed
    <3>4. y.status \notin Live
      BY <2>2, <3>2, <3>3 DEF NoLiveMessage
    <3> QED BY <1>12, <3>4 DEF LiveKept
  <2>3. CASE ~(y.marks.request = r /\ y.marks.obligation = None)
    BY <1>1, <1>2, <1>12, <1>13, <2>1, <2>3, LiveStays
  <2> QED BY <2>2, <2>3
<1>17. ASSUME NEW i \in Indexes(d) PROVE NudgeKept(e, i)
  <2>1. x.reason \notin Recovery
    BY <1>3 DEF Recovery
  <2> QED BY <1>1, <1>2, <2>1, NudgeStays
<1>18. Addressed(e, x)
  <2>1. SameRequests(d, e)
    BY <1>2, <1>6 DEF SameRequests
  <2> QED BY <1>1, <1>2, <1>10, <1>13, <2>1, AddressedStays
<1>19. NudgeKept(e, n)
  BY <1>3, <1>12 DEF NudgeKept, Recovery
<1>20. LiveKept(e, n)
  BY <1>2, <1>3, <1>4, <1>5, <1>7, <1>9, <1>12, <1>13 DEF LiveKept, Frame, o, n
<1>21. \A m \in e.incidents : m.nudge \in Indexes(e)
  BY <1>1, <1>2, <1>12
<1> QED BY <1>2, <1>11, <1>14, <1>15, <1>16, <1>17, <1>18, <1>19, <1>20, <1>21, AppendGood DEF n, e

ReplyMarks(r, c) == [NoMarks EXCEPT !.request = r, !.outcomes = c]

LEMMA SendReplyEffect ==
  ASSUME NEW d \in Ledgers, NEW r \in Request, NEW c \in SUBSET Outcome
  PROVE  LET e == SendReply(d, r, c)
             x == NewRow(d, WorkOf[r], ReturnActor[r], "request_reply", 0, ReplyMarks(r, c))
         IN /\ e \in Ledgers /\ Appended(d, e, x)
            /\ e.incidents = d.incidents /\ e.replyOwner = d.replyOwner
            /\ e.request[r].status = d.request[r].status
            /\ e.request[r].message = d.request[r].message
            /\ e.request[r].answered = d.request[r].answered
            /\ e.request[r].reply = Len(e.activations)
            /\ \A p \in Request \ {r} : e.request[p] = d.request[p]
<1> DEFINE f == Create(d, WorkOf[r], ReturnActor[r], "request_reply", 0, ReplyMarks(r, c))
           x == NewRow(d, WorkOf[r], ReturnActor[r], "request_reply", 0, ReplyMarks(r, c))
           q == [f.request[r] EXCEPT !.reply = Latest(f)]
           e == SendReply(d, r, c)
<1>1. WorkOf[r] \in Work /\ ReturnActor[r] \in Actor
  BY LedgerConstants
<1>2. ReplyMarks(r, c) \in Marks
  BY MarksTyped DEF ReplyMarks
<1>3. "request_reply" \in Reasons
  BY DEF Reasons
<1>4. f \in Ledgers /\ Appended(d, f, x) /\ f.request = d.request /\ f.incidents = d.incidents
      /\ f.replyOwner = d.replyOwner
  BY <1>1, <1>2, <1>3, CreateEffect
<1>5. e = [f EXCEPT !.request = [f.request EXCEPT ![r] = q]]
  <2>1. e = [f EXCEPT !.request[r].reply = Latest(f)]
    BY DEF SendReply, ReplyMarks
  <2> HIDE DEF e, f
  <2> QED BY <2>1
<1> HIDE DEF f, x
<1>6. f.request[r] \in RequestRow /\ Latest(f) = Len(f.activations) /\ Len(f.activations) \in Nat
  BY <1>4, LedgerFields DEF Latest
<1>7. /\ q \in RequestRow /\ q.reply = Len(f.activations) /\ q.status = f.request[r].status
      /\ q.message = f.request[r].message /\ q.answered = f.request[r].answered
  BY <1>6 DEF RequestRow
<1> HIDE DEF q, e
<1>8. /\ e \in Ledgers /\ Frame(f, e) /\ e.activations = f.activations
      /\ e.results = f.results /\ e.incidents = f.incidents /\ e.replyOwner = f.replyOwner
      /\ e.request[r] = q
      /\ \A p \in Request \ {r} : e.request[p] = f.request[p]
  BY <1>4, <1>5, <1>7, RequestWrite
<1>9. Appended(d, e, x)
  BY <1>4, <1>8 DEF Appended, Frame
<1> QED BY <1>4, <1>7, <1>8, <1>9 DEF e, x

LEMMA SendMessageGood ==
  ASSUME NEW d, NEW P, GoodBut(d, P), NEW r \in Request,
         d.request[r].status \in {"delivery_pending", "claimed"},
         DebtOf[r] # None => d.assignment[DebtOf[r]].mode = "none",
         ~ActiveCurrent(d, d.request[r].message, Assignee[r], "request_message") \/ DebtOf[r] # None
  PROVE  GoodBut(SendMessage(d, r), P) /\ Extends(d, SendMessage(d, r))
<1>1. d \in Ledgers /\ \A i \in Indexes(d) : Addressed(d, d.activations[i]) /\ LiveKept(d, i)
  BY GoodParts
<1>2. ASSUME DebtOf[r] = None PROVE NoLiveMessage(d, r)
  <2> SUFFICES ASSUME NEW i \in Indexes(d), d.activations[i].status \in Live,
                      d.activations[i].marks.request = r, d.activations[i].marks.obligation = None,
                      d.activations[i].reason = "request_message"
               PROVE  FALSE
    BY DEF NoLiveMessage
  <2>1. d.activations[i].actor = Assignee[r]
    BY <1>1, LedgerConstants DEF Addressed
  <2>2. d.request[r].message = i /\ d.activations[i].endpoint = d.generation[Assignee[r]]
    BY <1>1, <2>1 DEF LiveKept
  <2>3. i # 0
    BY <1>1, LedgerFields
  <2> QED BY <1>2, <2>1, <2>2, <2>3 DEF ActiveCurrent, Active
<1> QED BY <1>2, SendMessageAnew

\* The reply of an answered request whose previous reply nobody has.
ReplySent(d, e, r, x) ==
  /\ Appended(d, e, x) /\ e.incidents = d.incidents
  /\ x.work = WorkOf[r] /\ x.actor = ReturnActor[r] /\ x.reason = "request_reply"
  /\ x.endpoint = d.generation[ReturnActor[r]]
  /\ x.marks.request = r /\ x.marks.obligation = None
  /\ e.request[r].status = d.request[r].status
  /\ e.request[r].message = d.request[r].message
  /\ e.request[r].answered = d.request[r].answered
  /\ e.request[r].reply = Len(e.activations)
  /\ \A p \in Request \ {r} : e.request[p] = d.request[p]

\* Nothing about the reply is live.
NoLiveReply(d, r) ==
  \A i \in Indexes(d) :
    LET y == d.activations[i]
    IN y.status \in Live /\ y.marks.request = r => y.reason \notin {"request_reply", "work_recovery"}

LEMMA SendReplySent ==
  ASSUME NEW d \in Ledgers, NEW r \in Request, NEW c \in SUBSET Outcome
  PROVE  LET e == SendReply(d, r, c)
         IN e \in Ledgers /\ e.replyOwner = d.replyOwner /\ \E x : ReplySent(d, e, r, x)
<1> DEFINE e == SendReply(d, r, c)
           x == NewRow(d, WorkOf[r], ReturnActor[r], "request_reply", 0, ReplyMarks(r, c))
<1>1. /\ e \in Ledgers /\ Appended(d, e, x)
      /\ e.incidents = d.incidents /\ e.replyOwner = d.replyOwner
      /\ e.request[r].status = d.request[r].status
      /\ e.request[r].message = d.request[r].message
      /\ e.request[r].answered = d.request[r].answered
      /\ e.request[r].reply = Len(e.activations)
      /\ \A p \in Request \ {r} : e.request[p] = d.request[p]
  BY SendReplyEffect
<1>2. /\ x.work = WorkOf[r] /\ x.actor = ReturnActor[r] /\ x.reason = "request_reply"
      /\ x.endpoint = d.generation[ReturnActor[r]] /\ x.marks = ReplyMarks(r, c)
  BY DEF NewRow
<1>3. x.marks.request = r /\ x.marks.obligation = None
  BY <1>2 DEF ReplyMarks, NoMarks
<1> HIDE DEF e, x
<1>4. ReplySent(d, e, r, x)
  BY <1>1, <1>2, <1>3 DEF ReplySent
<1> QED BY <1>1, <1>4 DEF e

LEMMA ReplyGood ==
  ASSUME NEW d, NEW P, GoodBut(d, P), NEW r \in Request, NEW e \in Ledgers, NEW x,
         d.request[r].status = "reply_ready", ReplySent(d, e, r, x),
         NoLiveReply(d, r), ~Held0(d, r)
  PROVE  GoodBut(e, P) /\ Extends(d, e)
<1> DEFINE n == Len(e.activations)
<1>1. /\ d \in Ledgers
      /\ \A q \in Request : RequestKept(d, q)
      /\ \A i \in Indexes(d) : Addressed(d, d.activations[i]) /\ LiveKept(d, i) /\ NudgeKept(d, i)
      /\ \A m \in d.incidents : m.nudge \in Indexes(d)
  BY GoodParts
<1>2. /\ Appended(d, e, x) /\ e.incidents = d.incidents
      /\ x.work = WorkOf[r] /\ x.actor = ReturnActor[r] /\ x.reason = "request_reply"
      /\ x.endpoint = d.generation[ReturnActor[r]]
      /\ x.marks.request = r /\ x.marks.obligation = None
      /\ e.request[r].status = d.request[r].status
      /\ e.request[r].message = d.request[r].message
      /\ e.request[r].answered = d.request[r].answered
      /\ e.request[r].reply = n
      /\ \A p \in Request \ {r} : e.request[p] = d.request[p]
  BY DEF ReplySent
<1>3. d.request[r].answered /\ d.work[WorkOf[r]].mode # "none" /\ DebtOf[r] # None
  BY <1>1 DEF RequestKept
<1>4. r # None /\ d.generation[x.actor] \in Nat
  BY <1>1, <1>2, LedgerFields, LedgerConstants
<1>5. /\ e.activations[n] = x /\ Indexes(e) = Indexes(d) \cup {n} /\ n = Len(d.activations) + 1
      /\ \A i \in Indexes(d) : e.activations[i] = d.activations[i]
      /\ Outcomes(e) = Outcomes(d) /\ Added(d, e) /\ n \in Nat /\ n # 0
  BY <1>1, <1>2, AppendedRows
<1>6. Frame(d, e) /\ x \in Row /\ x.status = "pending"
  BY <1>2 DEF Appended
<1>7. Len(d.activations) \in Nat
  BY <1>1, LedgerFields
<1> HIDE DEF n
<1>8. \A q \in Request : RequestExtends(d, e, q)
  BY <1>2, <1>5, <1>7 DEF RequestExtends
<1>9. ASSUME NEW q \in Request PROVE RequestKept(e, q)
  <2>1. CASE q # r
    BY <1>1, <1>2, <1>5, <1>6, <2>1, RequestStays
  <2>2. CASE q = r
    <3>1. RequestKept(d, r)
      BY <1>1
    <3>2. LET m == e.request[r].message
          IN m # 0 => m \in Indexes(e) /\ e.activations[m].marks.request = r
      BY <1>2, <1>5, <3>1 DEF RequestKept
    <3> QED BY <1>2, <1>3, <1>5, <1>6, <2>2, <3>1, <3>2 DEF RequestKept, Frame
  <2> QED BY <2>1, <2>2
<1>10. ASSUME NEW i \in Indexes(d) PROVE LiveKept(e, i)
  <2> DEFINE y == d.activations[i]
  <2>1. y.marks.request \in Request \cup {None} /\ y.marks.obligation \in Obligation \cup {None}
    BY <1>1, LedgerFields DEF Row, Marks
  <2>2. CASE y.marks.request = r /\ y.marks.obligation = None
    <3>1. y.reason \in {"work_recovery", "request_message", "request_reply"}
      BY <1>1, <1>4, <2>2 DEF Addressed
    <3>2. y.reason # "request_message"
      BY <1>1, <1>3, <2>2 DEF Addressed
    <3>3. y.status \notin Live
      BY <2>2, <3>1, <3>2 DEF NoLiveReply
    <3> QED BY <1>5, <3>3 DEF LiveKept
  <2>3. CASE ~(y.marks.request = r /\ y.marks.obligation = None)
    BY <1>1, <1>2, <1>5, <1>6, <2>1, <2>3, LiveStays
  <2> QED BY <2>2, <2>3
<1>11. ASSUME NEW i \in Indexes(d) PROVE NudgeKept(e, i)
  <2>1. x.reason \notin Recovery
    BY <1>2 DEF Recovery
  <2> QED BY <1>1, <1>2, <2>1, NudgeStays
<1>12. Addressed(e, x)
  BY <1>2, <1>3, <1>4, <1>6 DEF Addressed, OwnerControl, Frame
<1>13. Fits(d, x)
  BY <1>2 DEF Fits
<1>14. NudgeKept(e, n)
  BY <1>2, <1>5 DEF NudgeKept, Recovery
<1>15. LiveKept(e, n)
  BY <1>2, <1>4, <1>5, <1>6 DEF LiveKept, Frame
<1>16. \A m \in e.incidents : m.nudge \in Indexes(e)
  BY <1>1, <1>2, <1>5
<1> QED BY <1>2, <1>8, <1>9, <1>10, <1>11, <1>12, <1>13, <1>14, <1>15, <1>16, AppendGood DEF n

(***************************************************************************)
(* Nudges.                                                                 *)
(***************************************************************************)
LEMMA NudgeEffect ==
  ASSUME NEW d \in Ledgers, NEW source \in Nat, NEW due, NEW reason \in Recovery,
         NEW w \in Work, NEW a \in Actor, NEW g \in Nat, NEW marks \in Marks
  PROVE  LET e == Nudge(d, source, due, reason, w, a, g, marks)
             x == NewRow(d, w, a, reason, g, marks)
             known == Incident(d, source, reason, w, marks)
         IN \/ e = d
            \/ /\ e \in Ledgers /\ Appended(d, e, x) /\ e.request = d.request
               /\ e.replyOwner = d.replyOwner /\ source \in due
               /\ \A n \in known : n.status # "queued"
               /\ e.incidents = (d.incidents \ known)
                    \cup {[source |-> source, nudge |-> Len(d.activations) + 1, status |-> "queued"]}
<1> DEFINE x == NewRow(d, w, a, reason, g, marks)
           known == Incident(d, source, reason, w, marks)
           f == Create(d, w, a, reason, g, marks)
           m == [source |-> source, nudge |-> Latest(f), status |-> "queued"]
           e == Nudge(d, source, due, reason, w, a, g, marks)
<1>1. reason \in Reasons
  BY DEF Reasons
<1>2. f \in Ledgers /\ Appended(d, f, x) /\ f.request = d.request /\ f.incidents = d.incidents
      /\ f.replyOwner = d.replyOwner
  BY <1>1, CreateEffect
<1>3. e = IF source \notin due \/ \E n \in known : n.status = "queued" THEN d
          ELSE [f EXCEPT !.incidents = (f.incidents \ known) \cup {m}]
  BY DEF Nudge
<1> HIDE DEF f, x, known, e
<1>4. Latest(f) = Len(d.activations) + 1 /\ Latest(f) \in Nat
  BY <1>2, AppendedRows
<1>5. m \in IncidentRow
  BY <1>4 DEF IncidentRow
<1> DEFINE h == [f EXCEPT !.incidents = (f.incidents \ known) \cup {m}]
<1>6. (f.incidents \ known) \cup {m} \in SUBSET IncidentRow
  BY <1>2, <1>5, LedgerFields
<1>7. h \in Ledgers
  BY <1>2, <1>6 DEF Ledgers
<1>8. /\ h.incidents = (f.incidents \ known) \cup {m} /\ h.activations = f.activations
      /\ h.results = f.results /\ h.request = f.request /\ Frame(f, h) /\ h.replyOwner = f.replyOwner
  BY <1>2 DEF Ledgers, Frame
<1> HIDE DEF h
<1>9. Appended(d, h, x)
  BY <1>2, <1>8 DEF Appended, Frame
<1>10. CASE e = d
  BY <1>10 DEF e
<1>11. CASE e # d
  <2>1. e = h /\ source \in due /\ \A n \in known : n.status # "queued"
    BY <1>3, <1>11 DEF h
  <2> QED BY <1>2, <1>4, <1>7, <1>8, <1>9, <2>1 DEF e, x, known
<1> QED BY <1>10, <1>11

\* What a nudge is about.
NudgeAbout(d, source, x) ==
  LET o == x.marks.obligation
      r == x.marks.request
  IN /\ x.work \in d.armed /\ x.marks.outcomes = {} /\ source \in Indexes(d)
     /\ x.reason = "assignment_recovery" =>
          /\ o # None /\ r = RequestOf(o) /\ x.marks.after = 0
          /\ d.obligation[o].claim = source
     /\ x.reason = "work_recovery" =>
          /\ o = None /\ x.marks.after = source /\ d.activations[source].work = x.work
          /\ r # None =>
               /\ d.request[r].reply = source /\ d.request[r].status = "reply_ready"
               /\ Held0(d, r) /\ d.activations[source].status = "claimed"

LEMMA NudgeGood ==
  ASSUME NEW d, NEW P, GoodBut(d, P), NEW source \in Nat, NEW due, NEW reason \in Recovery,
         NEW w \in Work, NEW a \in Actor, NEW g \in Nat, NEW marks \in Marks,
         LET x == NewRow(d, w, a, reason, g, marks)
         IN source \in due => Addressed(d, x) /\ Allowed(d, x) /\ NudgeAbout(d, source, x)
  PROVE  LET e == Nudge(d, source, due, reason, w, a, g, marks)
         IN GoodBut(e, P) /\ Extends(d, e)
<1> DEFINE x == NewRow(d, w, a, reason, g, marks)
           known == Incident(d, source, reason, w, marks)
           e == Nudge(d, source, due, reason, w, a, g, marks)
           n == Len(d.activations) + 1
           m == [source |-> source, nudge |-> n, status |-> "queued"]
<1>1. /\ d \in Ledgers
      /\ \A q \in Request : RequestKept(d, q)
      /\ \A i \in Indexes(d) : Addressed(d, d.activations[i]) /\ LiveKept(d, i) /\ NudgeKept(d, i)
      /\ \A k \in d.incidents : k.nudge \in Indexes(d)
  BY GoodParts
<1>2. CASE e = d
  <2>1. Extends(d, d)
    BY <1>1, ExtendsReflexive
  <2> HIDE DEF e
  <2> QED BY <1>2, <2>1 DEF e
<1>3. ASSUME e # d PROVE GoodBut(e, P) /\ Extends(d, e)
  <2>1. /\ e \in Ledgers /\ Appended(d, e, x) /\ e.request = d.request
        /\ \A k \in known : k.status # "queued" /\ source \in due
        /\ e.incidents = (d.incidents \ known) \cup {m}
    BY <1>1, <1>3, NudgeEffect
  <2>2. source \in due
    BY <1>1, <1>3, NudgeEffect
  <2>3. x.work = w /\ x.actor = a /\ x.reason = reason /\ x.marks = marks
      /\ x.revision = d.work[w].revision /\ x.endpoint = d.generation[a] /\ x.status = "pending"
    BY DEF NewRow
  <2>4. Addressed(d, x) /\ Allowed(d, x) /\ NudgeAbout(d, source, x)
    BY <2>2
  <2>5. \A k : k \in known <=>
          /\ k \in d.incidents /\ k.source = source
          /\ d.activations[k.nudge].reason = reason
          /\ d.activations[k.nudge].marks.request = marks.request
          /\ reason = "work_recovery" /\ marks.request = None
                => d.activations[k.nudge].revision = d.work[w].revision
    BY DEF Incident
  <2> HIDE DEF x, known, e, n
  <2>6. /\ e.activations[n] = x /\ Indexes(e) = Indexes(d) \cup {n} /\ n = Len(e.activations)
        /\ \A i \in Indexes(d) : e.activations[i] = d.activations[i]
        /\ Outcomes(e) = Outcomes(d) /\ Added(d, e) /\ n \notin Indexes(d)
    BY <1>1, <2>1, AppendedRows DEF n
  <2>7. Frame(d, e) /\ x \in Row
    BY <2>1 DEF Appended
  <2>8. \A r \in Request : RequestExtends(d, e, r)
    BY <2>1 DEF RequestExtends
  <2>9. \A r \in Request : RequestKept(e, r)
    BY <1>1, <2>1, <2>6, <2>7, RequestStays
  <2>10. ASSUME NEW i \in Indexes(d) PROVE LiveKept(e, i)
    <3>1. d.activations[i].marks.request \in Request \cup {None}
      BY <1>1, LedgerFields DEF Row, Marks
    <3> QED BY <1>1, <2>1, <2>6, <2>7, <3>1, LiveStays
  <2>11. ASSUME NEW i \in Indexes(d) PROVE NudgeKept(e, i)
    <3> DEFINE y == d.activations[i]
    <3>1. ASSUME NEW k \in d.incidents, k.status = "queued" PROVE k \in e.incidents
      BY <2>1, <3>1
    <3>2. ASSUME y.status \in Live, Twins(y, x) PROVE FALSE
      <4>1. y.reason = reason /\ y.actor = a /\ y.marks = marks
        BY <2>3, <3>2 DEF Twins
      <4>2. Queued(d, i, source)
        BY <1>1, <2>3, <2>4, <3>2, <4>1 DEF NudgeKept, NudgeAbout, Recovery
      <4>3. PICK k \in d.incidents : k.nudge = i /\ k.status = "queued" /\ k.source = source
        BY <4>2 DEF Queued
      <4>4. ASSUME reason = "work_recovery", marks.request = None
            PROVE  y.revision = d.work[w].revision
        <5>1. y.work = w
          <6>1. y.marks.after = source /\ d.activations[y.marks.after].work = y.work
            BY <1>1, <2>3, <2>4, <3>2, <4>1, <4>4 DEF NudgeKept, NudgeAbout, Recovery
          <6> QED BY <2>3, <2>4, <4>4, <6>1 DEF NudgeAbout
        <5>2. y.marks.obligation = None
          BY <2>3, <2>4, <4>1, <4>4 DEF NudgeAbout
        <5> QED BY <1>1, <3>2, <4>1, <4>4, <5>1, <5>2 DEF LiveKept
      <4>5. k \in known
        BY <2>5, <4>1, <4>3, <4>4
      <4> QED BY <2>1, <4>3, <4>5
    <3> QED BY <1>1, <2>1, <3>1, <3>2, NudgeStays
  <2>12. SameRequests(d, e)
    BY <2>1 DEF SameRequests
  <2>13. Addressed(e, x)
    BY <1>1, <2>1, <2>4, <2>7, <2>12, AddressedStays
  <2>14. Fits(d, x)
    <3>1. x.reason = "work_recovery" => x.marks.obligation = None
      BY <2>4 DEF NudgeAbout
    <3> QED BY <2>3, <3>1 DEF Fits, Recovery
  <2>15. m \in e.incidents /\ m.nudge = n /\ m.status = "queued" /\ m.source = source
    BY <2>1
  <2>16. NudgeKept(e, n)
    <3>1. Queued(e, n, source)
      BY <2>15 DEF Queued
    <3>2. \A j \in Indexes(d) : d.activations[j].status \in Live => ~Twins(d.activations[j], x)
      <4> SUFFICES ASSUME NEW j \in Indexes(d), d.activations[j].status \in Live,
                          Twins(d.activations[j], x)
                   PROVE  FALSE
        OBVIOUS
      <4>1. NudgeKept(e, j) /\ e.activations[j] = d.activations[j]
        BY <2>6, <2>11
      <4>2. e.activations[n].status \in Live /\ x.reason \in Recovery
        BY <2>3, <2>6 DEF Live
      <4>3. n = j
        BY <2>3, <2>6, <4>1, <4>2 DEF NudgeKept, Twins
      <4> QED BY <2>6, <4>3
    <3>3. source # 0
      BY <1>1, <2>4, LedgerFields DEF NudgeAbout
    <3> QED BY <2>3, <2>4, <2>6, <2>7, <3>1, <3>2, <3>3 DEF NudgeKept, NudgeAbout, Twins, Frame
  <2>17. LiveKept(e, n)
    <3>1. x.reason \in Recovery
      BY <2>3
    <3>2. x.reason = "work_recovery" /\ x.marks.request # None =>
            ActiveCurrent(e, x.marks.after, ReturnActor[x.marks.request], "request_reply")
      <4> SUFFICES ASSUME x.reason = "work_recovery", x.marks.request # None
                   PROVE  ActiveCurrent(e, source, ReturnActor[x.marks.request], "request_reply")
        BY <2>4 DEF NudgeAbout
      <4>1. ActiveCurrent(d, source, ReturnActor[x.marks.request], "request_reply")
        BY <2>4 DEF NudgeAbout, Held0
      <4>2. e.activations[source] = d.activations[source] /\ e.generation = d.generation
        BY <2>4, <2>6, <2>7 DEF NudgeAbout, Frame
      <4> QED BY <4>1, <4>2 DEF ActiveCurrent
    <3>3. x.reason = "work_recovery" /\ x.marks.request # None =>
            LET r == x.marks.request
            IN /\ e.request[r].reply = x.marks.after /\ e.request[r].status = "reply_ready"
               /\ x.marks.after # 0
               /\ e.activations[x.marks.after].status = "claimed"
      BY <1>1, <2>1, <2>4, <2>6, LedgerFields DEF NudgeAbout
    <3> QED BY <2>3, <2>4, <2>6, <2>7, <3>1, <3>2, <3>3 DEF LiveKept, Allowed, Frame, Recovery
  <2>18. \A k \in e.incidents : k.nudge \in Indexes(e)
    BY <1>1, <2>1, <2>6
  <2> QED BY <2>1, <2>6, <2>8, <2>9, <2>10, <2>11, <2>13, <2>14, <2>16, <2>17, <2>18, AppendGood
<1> QED BY <1>2, <1>3

-----------------------------------------------------------------------------
(***************************************************************************)
(* The helpers keep the invariant and only extend the ledger.              *)
(***************************************************************************)
Keeps(d, e, P) == GoodBut(e, P) /\ Extends(d, e)

LEMMA KeepsReflexive ==
  ASSUME NEW d, NEW P, GoodBut(d, P)
  PROVE  Keeps(d, d, P)
BY ExtendsReflexive DEF Keeps, GoodBut, Good

LEMMA KeepsTransitive ==
  ASSUME NEW d, NEW e, NEW f, NEW P, GoodBut(d, P), Keeps(d, e, P), Keeps(e, f, P)
  PROVE  Keeps(d, f, P)
<1>1. d \in Ledgers /\ \A r \in Request : d.request[r].reply <= Len(d.activations)
  BY GoodParts
<1>2. e \in Ledgers /\ f \in Ledgers
  BY DEF Keeps, GoodBut, Good
<1> QED BY <1>1, <1>2, ExtendsTransitive DEF Keeps

\* Nobody is forgotten while the ledger is only extended.
LEMMA RoutesKept ==
  ASSUME NEW d \in Ledgers, NEW e \in Ledgers, Frame(d, e), Added(d, e), NEW O, NEW W
  PROVE  Routes(d, e, O, W)
<1>1. /\ e.generation = d.generation /\ e.work = d.work /\ e.obligation = d.obligation
      /\ e.assignment = d.assignment /\ e.stopped = d.stopped
  BY DEF Frame
<1>2. /\ \A i \in Indexes(d) : i \in Indexes(e) /\ e.activations[i] = d.activations[i]
      /\ \A i \in Indexes(e) \ Indexes(d) : e.activations[i].status = "pending"
  <2>1. /\ Indexes(d) = 1..Len(d.activations) /\ Len(d.activations) \in Nat
        /\ Indexes(e) = 1..Len(e.activations) /\ Len(e.activations) \in Nat
    BY LedgerFields
  <2>2. Indexes(d) \subseteq Indexes(e)
    BY <2>1 DEF Added
  <2> QED BY <2>2 DEF Added
<1>3. ASSUME NEW o \in Obligation, DebtRouted(d, o) PROVE DebtRouted(e, o)
  <2>1. Owed(e, o) <=> Owed(d, o)
    BY <1>1 DEF Owed, ExplicitStop, ContinuationAllowed
  <2>2. Noticed(d, o) => Noticed(e, o)
    BY <1>2 DEF Noticed
  <2> QED BY <1>1, <1>3, <2>1, <2>2 DEF DebtRouted
<1>4. ASSUME NEW o \in Obligation, InStep(d, o) PROVE InStep(e, o)
  <2>1. \A i \in Indexes(e) : e.activations[i].status = "claimed" => i \in Indexes(d)
    BY <1>2
  <2> QED BY <1>1, <1>2, <1>4, <2>1 DEF InStep
<1>5. ASSUME NEW w \in Work, OwnerRouted(d, w) PROVE OwnerRouted(e, w)
  <2>1. Continues(e, w) <=> Continues(d, w)
    BY <1>1 DEF Continues, ExplicitStop
  <2>2. ASSUME NEW x PROVE OwnerRoute(e, w, x) <=> OwnerRoute(d, w, x)
    BY <1>1 DEF OwnerRoute
  <2> QED BY <1>2, <1>5, <2>1, <2>2 DEF OwnerRouted
<1> QED BY <1>3, <1>4, <1>5 DEF Routes

LEMMA KeepsRoutes ==
  ASSUME NEW d \in Ledgers, NEW e, NEW P, Keeps(d, e, P), NEW O, NEW W
  PROVE  Routes(d, e, O, W)
<1>1. e \in Ledgers /\ Frame(d, e) /\ Added(d, e)
  BY DEF Keeps, GoodBut, Good, Extends
<1> QED BY <1>1, RoutesKept

LEMMA RoutesThen ==
  ASSUME NEW d, NEW e, NEW f, NEW O, NEW W, Routes(d, e, O, W), Routes(e, f, O, W)
  PROVE  Routes(d, f, O, W)
BY DEF Routes

LEMMA RoutesDone ==
  ASSUME NEW d, NEW e, NEW O, NEW W, Routes(d, e, O, W),
         \A o \in Obligation : o \in O => DebtRouted(e, o) /\ InStep(e, o),
         \A w \in Work : w \in W => OwnerRouted(e, w)
  PROVE  Routed(d) => Routed(e)
<1> SUFFICES ASSUME Routed(d) PROVE Routed(e)
  OBVIOUS
<1>1. /\ \A o \in Obligation : DebtRouted(d, o) /\ InStep(d, o)
      /\ \A w \in Work : OwnerRouted(d, w)
  BY DEF Routed
<1>2. ASSUME NEW o \in Obligation PROVE DebtRouted(e, o) /\ InStep(e, o)
  <2>1. CASE o \in O
    BY <2>1
  <2>2. CASE o \notin O
    BY <1>1, <2>2 DEF Routes
  <2> QED BY <2>1, <2>2
<1>3. ASSUME NEW w \in Work PROVE OwnerRouted(e, w)
  <2>1. CASE w \in W
    BY <2>1
  <2>2. CASE w \notin W
    BY <1>1, <2>2 DEF Routes
  <2> QED BY <2>1, <2>2
<1> QED BY <1>2, <1>3 DEF Routed

LEMMA HeldStays ==
  ASSUME NEW d, NEW e, NEW P, GoodBut(d, P), Keeps(d, e, P), NEW r \in Request, Held0(d, r)
  PROVE  Held0(e, r) /\ e.request[r].reply = d.request[r].reply
<1>1. d \in Ledgers /\ RequestKept(d, r) /\ Extends(d, e)
  BY GoodParts DEF Keeps
<1>2. e.request[r].reply = d.request[r].reply
  BY <1>1 DEF Extends, RequestExtends
<1> DEFINE q == d.request[r].reply
<1>3. q \in Indexes(d)
  BY <1>1 DEF Held0, ActiveCurrent, RequestKept
<1>4. e.activations[q] = d.activations[q] /\ e.generation = d.generation
  BY <1>1, <1>3 DEF Extends, Added, Frame
<1>5. ActiveCurrent(d, q, ReturnActor[r], "request_reply")
  BY DEF Held0
<1> HIDE DEF q
<1>6. ActiveCurrent(e, q, ReturnActor[r], "request_reply")
  BY <1>4, <1>5 DEF ActiveCurrent
<1> QED BY <1>2, <1>6 DEF Held0, q

(***************************************************************************)
(* What reconcile brings about: the waits that are over, and the messages  *)
(* of the open requests, have their route.  No result is recorded meanwhile. *)
(***************************************************************************)
WaitRouted(d, w) ==
  WaitSatisfied(d, w)
    => OwnerRoutes(d, w, "wait_satisfied") # {} \/ CompletionReplies(d, w) # {}

WaitNoticed(d, o) ==
  d.obligation[o].status = "open" /\ ContinuationAllowed(d, o) /\ AssignmentSatisfied(d, o)
    => ObligationRoutes(d, o, {"assignment_wait_satisfied"}) # {}

MessageRouted(d, r) ==
  /\ d.request[r].status \in {"delivery_pending", "claimed"}
  /\ ~ExplicitStop(d, WorkOf[r], Assignee[r])
  /\ DebtOf[r] # None => d.assignment[DebtOf[r]].mode = "none"
  => ActiveCurrent(d, d.request[r].message, Assignee[r], "request_message")

LEMMA ResultsRead ==
  ASSUME NEW d, NEW e, e.results = d.results, NEW wait
  PROVE  /\ WaitManifest(e, wait) = WaitManifest(d, wait)
         /\ Satisfied(e, wait) <=> Satisfied(d, wait)
<1>1. Outcomes(e) = Outcomes(d)
  BY DEF Outcomes
<1>2. \A c : Position(e, c) = Position(d, c)
  BY DEF Position
<1>3. \A S : Earliest(e, S) = Earliest(d, S)
  BY <1>2 DEF Earliest
<1>4. Unhandled(e, wait) = Unhandled(d, wait)
  BY <1>1 DEF Unhandled
<1>5. WaitManifest(e, wait) = WaitManifest(d, wait)
  BY <1>3, <1>4 DEF WaitManifest
<1>6. Satisfied(e, wait) <=> Satisfied(d, wait)
  BY <1>1, <1>4 DEF Satisfied
<1> QED BY <1>5, <1>6

\* The wait of a work reads what a step that only adds rows leaves in place.
LEMMA WaitStays ==
  ASSUME NEW d, NEW e, NEW P, GoodBut(d, P), Keeps(d, e, P), e.results = d.results,
         NEW w \in Work, WaitRouted(d, w)
  PROVE  WaitRouted(e, w)
<1>1. d \in Ledgers /\ e \in Ledgers /\ Extends(d, e)
  BY GoodParts DEF Keeps, GoodBut, Good
<1>2. /\ e.generation = d.generation /\ e.work = d.work /\ e.wait = d.wait /\ e.replays = d.replays
      /\ \A i \in Indexes(d) : i \in Indexes(e) /\ e.activations[i] = d.activations[i]
  <2>1. /\ Indexes(d) = 1..Len(d.activations) /\ Len(d.activations) \in Nat
        /\ Indexes(e) = 1..Len(e.activations) /\ Len(e.activations) \in Nat
    BY <1>1, LedgerFields
  <2>2. Indexes(d) \subseteq Indexes(e)
    BY <1>1, <2>1 DEF Extends, Added
  <2> QED BY <1>1, <2>2 DEF Extends, Added, Frame
<1>3. WaitSatisfied(e, w) <=> WaitSatisfied(d, w)
  BY <1>2, ResultsRead DEF WaitSatisfied
<1>4. OwnerRoutes(d, w, "wait_satisfied") # {} => OwnerRoutes(e, w, "wait_satisfied") # {}
  BY <1>2 DEF OwnerRoutes
<1>5. CompletionReplies(d, w) # {} => CompletionReplies(e, w) # {}
  <2> DEFINE m == WaitManifest(d, d.wait[w])
             a == d.work[w].owner
  <2>1. WaitManifest(e, e.wait[w]) = m /\ PendingReplays(e, w) = PendingReplays(d, w) /\ e.work[w].owner = a
    BY <1>2, ResultsRead DEF PendingReplays
  <2> HIDE DEF m, a
  <2>2. ASSUME NEW i \in CurrentReplies(d, w, a) PROVE i \in CurrentReplies(e, w, a)
    <3>1. i \in Indexes(d)
      BY DEF CurrentReplies
    <3>2. /\ d.activations[i].work = w /\ d.activations[i].actor = a
          /\ d.activations[i].reason = "request_reply" /\ d.activations[i].status \in Active
          /\ d.activations[i].endpoint = d.generation[a]
      BY DEF CurrentReplies
    <3>3. PICK r \in Request : /\ d.request[r].reply = i /\ WorkOf[r] = w /\ ReturnActor[r] = a
                               /\ d.request[r].status \in {"reply_ready", "handled"}
      BY DEF CurrentReplies
    <3>4. i # 0
      BY <1>1, <3>1, LedgerFields
    <3>5. Held0(d, r)
      BY <3>2, <3>3, <3>4 DEF Held0, ActiveCurrent
    <3>6. e.request[r].reply = i
      BY <3>3, <3>5, HeldStays
    <3>7. e.request[r].status = d.request[r].status
      BY <1>1, <3>3 DEF Extends, RequestExtends
    <3> QED BY <1>2, <3>1, <3>2, <3>3, <3>6, <3>7 DEF CurrentReplies
  <2>3. /\ CompletionReplies(d, w) = IF m \cap PendingReplays(d, w) # {} THEN {}
                                     ELSE {i \in CurrentReplies(d, w, a) :
                                             m \subseteq d.activations[i].marks.outcomes}
        /\ CompletionReplies(e, w) = IF m \cap PendingReplays(d, w) # {} THEN {}
                                     ELSE {i \in CurrentReplies(e, w, a) :
                                             m \subseteq e.activations[i].marks.outcomes}
    BY <2>1 DEF CompletionReplies, m, a
  <2>4. \A i \in CurrentReplies(d, w, a) : e.activations[i] = d.activations[i]
    BY <1>2 DEF CurrentReplies
  <2> QED BY <2>2, <2>3, <2>4
<1> QED BY <1>3, <1>4, <1>5 DEF WaitRouted

LEMMA WaitNoticeStays ==
  ASSUME NEW d, NEW e, NEW P, GoodBut(d, P), Keeps(d, e, P), e.results = d.results,
         NEW o \in Obligation, WaitNoticed(d, o)
  PROVE  WaitNoticed(e, o)
<1>1. d \in Ledgers /\ e \in Ledgers /\ Extends(d, e)
  BY GoodParts DEF Keeps, GoodBut, Good
<1>2. /\ e.generation = d.generation /\ e.work = d.work /\ e.assignment = d.assignment
      /\ e.obligation = d.obligation
      /\ \A i \in Indexes(d) : i \in Indexes(e) /\ e.activations[i] = d.activations[i]
  <2>1. /\ Indexes(d) = 1..Len(d.activations) /\ Len(d.activations) \in Nat
        /\ Indexes(e) = 1..Len(e.activations) /\ Len(e.activations) \in Nat
    BY <1>1, LedgerFields
  <2>2. Indexes(d) \subseteq Indexes(e)
    BY <1>1, <2>1 DEF Extends, Added
  <2> QED BY <1>1, <2>2 DEF Extends, Added, Frame
<1>3. AssignmentSatisfied(e, o) <=> AssignmentSatisfied(d, o)
  BY <1>2, ResultsRead DEF AssignmentSatisfied, AssignmentWait
<1>4. ContinuationAllowed(e, o) <=> ContinuationAllowed(d, o)
  BY <1>2 DEF ContinuationAllowed
<1>5. ASSUME NEW reasons
      PROVE  ObligationRoutes(d, o, reasons) # {} => ObligationRoutes(e, o, reasons) # {}
  BY <1>2 DEF ObligationRoutes
<1> QED BY <1>2, <1>3, <1>4, <1>5 DEF WaitNoticed

LEMMA MessageStays ==
  ASSUME NEW d, NEW e, NEW P, GoodBut(d, P), Keeps(d, e, P), NEW r \in Request,
         e.request[r] = d.request[r], MessageRouted(d, r)
  PROVE  MessageRouted(e, r)
<1>1. Extends(d, e) /\ RequestKept(d, r)
  BY GoodParts DEF Keeps
<1>2. /\ e.generation = d.generation /\ e.assignment = d.assignment
      /\ ExplicitStop(e, WorkOf[r], Assignee[r]) <=> ExplicitStop(d, WorkOf[r], Assignee[r])
  BY <1>1 DEF Extends, Frame, ExplicitStop
<1> DEFINE m == d.request[r].message
<1>3. m = 0 \/ e.activations[m] = d.activations[m]
  BY <1>1 DEF Extends, Added, RequestKept
<1> HIDE DEF m
<1>4. ActiveCurrent(d, m, Assignee[r], "request_message")
        => ActiveCurrent(e, m, Assignee[r], "request_message")
  BY <1>2, <1>3 DEF ActiveCurrent
<1> QED BY <1>2, <1>4 DEF MessageRouted, m

\* The fields the invariant reads.
SameRead(d, e) ==
  /\ e.generation = d.generation /\ e.work = d.work /\ e.wait = d.wait /\ e.handled = d.handled
  /\ e.replays = d.replays /\ e.obligation = d.obligation /\ e.assignment = d.assignment
  /\ e.request = d.request /\ e.activations = d.activations /\ e.incidents = d.incidents
  /\ e.armed = d.armed

LEMMA SameReadParts ==
  ASSUME NEW d \in Ledgers, NEW e \in Ledgers, NEW P, SameRead(d, e), GoodBut(d, P),
         \A r \in Request : DebtOf[r] # None =>
            (<<DebtOf[r], "result">> \in Outcomes(e) <=> <<DebtOf[r], "result">> \in Outcomes(d))
  PROVE  GoodBut(e, P)
<1>1. /\ \A w \in Work : WorkKept(d, w)
      /\ \A o \in Obligation : DebtKept(d, o)
      /\ \A r \in Request : RequestKept(d, r)
      /\ \A i \in Indexes(d) : /\ Addressed(d, d.activations[i]) /\ NoticeKept(d, i)
                               /\ LiveKept(d, i) /\ NudgeKept(d, i)
      /\ \A n \in d.incidents : n.nudge \in Indexes(d)
      /\ \A o \in Obligation \ P : Settled(d, o)
  BY GoodParts
<1>2. Indexes(e) = Indexes(d)
  BY DEF SameRead, Indexes
<1>3. \A w \in Work : WorkKept(e, w)
  BY <1>1 DEF SameRead, WorkKept, PendingReplays
<1>4. \A o \in Obligation : DebtKept(e, o)
  BY <1>1, <1>2 DEF SameRead, DebtKept
<1>5. \A r \in Request : RequestKept(e, r)
  BY <1>1, <1>2 DEF SameRead, RequestKept
<1>6. \A i, o : Current(e, i, o) <=> Current(d, i, o)
  BY DEF SameRead, Current
<1>7. \A i, a, reason : ActiveCurrent(e, i, a, reason) <=> ActiveCurrent(d, i, a, reason)
  BY DEF SameRead, ActiveCurrent
<1>8. \A i, s : Queued(e, i, s) <=> Queued(d, i, s)
  BY DEF SameRead, Queued
<1>9. ASSUME NEW i \in Indexes(d)
      PROVE  Addressed(e, e.activations[i]) /\ NoticeKept(e, i) /\ LiveKept(e, i) /\ NudgeKept(e, i)
  <2>1. Addressed(d, d.activations[i]) /\ NoticeKept(d, i) /\ LiveKept(d, i) /\ NudgeKept(d, i)
    BY <1>1
  <2>2. Addressed(e, e.activations[i])
    BY <2>1 DEF SameRead, Addressed
  <2>3. NoticeKept(e, i)
    BY <2>1, <1>2, <1>6 DEF SameRead, NoticeKept
  <2>4. LiveKept(e, i)
    BY <2>1, <1>7 DEF SameRead, LiveKept
  <2>5. NudgeKept(e, i)
    BY <2>1, <1>2, <1>8 DEF SameRead, NudgeKept
  <2> QED BY <2>2, <2>3, <2>4, <2>5
<1>10. \A o \in Obligation \ P : Settled(e, o)
  BY <1>1, <1>2, <1>6 DEF SameRead, Settled
<1>11. \A n \in e.incidents : n.nudge \in Indexes(e)
  BY <1>1, <1>2 DEF SameRead
<1> QED BY <1>2, <1>3, <1>4, <1>5, <1>9, <1>10, <1>11 DEF GoodBut, Good

LEMMA SameReadGood ==
  ASSUME NEW d \in Ledgers, NEW e \in Ledgers, NEW P, SameRead(d, e), e.results = d.results,
         GoodBut(d, P)
  PROVE  GoodBut(e, P)
<1>1. Outcomes(e) = Outcomes(d)
  BY DEF Outcomes
<1> QED BY <1>1, SameReadParts

LEMMA SameReadKeeps ==
  ASSUME NEW d \in Ledgers, NEW e \in Ledgers, NEW P, SameRead(d, e), Frame(d, e), GoodBut(d, P),
         \A r \in Request : DebtOf[r] # None =>
            (<<DebtOf[r], "result">> \in Outcomes(e) <=> <<DebtOf[r], "result">> \in Outcomes(d)),
         Outcomes(d) \subseteq Outcomes(e),
         \A c \in Outcomes(e) \ Outcomes(d) : Source(c) \in External
  PROVE  Keeps(d, e, P)
<1>1. Len(d.activations) \in Nat
  BY LedgerFields
<1>2. Added(d, e)
  BY <1>1 DEF Added, SameRead, Indexes
<1>3. \A r \in Request : RequestExtends(d, e, r)
  BY DEF RequestExtends, SameRead
<1> QED BY <1>2, <1>3, SameReadParts DEF Keeps, Extends

LEMMA EvaluateWaitKeeps ==
  ASSUME NEW d, NEW P, GoodBut(d, P), NEW w \in Work
  PROVE  /\ Keeps(d, EvaluateWait(d, w), P) /\ WaitRouted(EvaluateWait(d, w), w)
         /\ EvaluateWait(d, w).results = d.results
<1> DEFINE e == EvaluateWait(d, w)
           a == d.work[w].owner
           R == CompletionReplies(d, w)
           c == WaitManifest(d, d.wait[w])
<1>1. d \in Ledgers /\ WorkKept(d, w)
  BY GoodParts
<1>2. CASE ~WaitSatisfied(d, w) \/ OwnerRoutes(d, w, "wait_satisfied") # {}
  <2>1. e = d
    BY <1>2 DEF EvaluateWait
  <2> QED BY <1>2, <2>1, KeepsReflexive DEF WaitRouted
<1>3. CASE ~(~WaitSatisfied(d, w) \/ OwnerRoutes(d, w, "wait_satisfied") # {})
  <2>1. d.work[w].mode = "waiting" /\ Unhandled(d, d.wait[w]) # {}
    BY <1>3 DEF WaitSatisfied, Satisfied
  <2>2. a \in Actor
    BY <1>1, <2>1 DEF WorkKept
  <2>3. CASE R # {}
    <3> DEFINE v == <<d.work[w].revision, d.generation[a], Min(R)>>
    <3>1. e = [d EXCEPT !.replyOwner[w] = v]
      BY <1>3, <2>3 DEF EvaluateWait
    <3>2. R \subseteq Indexes(d)
      BY DEF CompletionReplies, CurrentReplies
    <3>3. R \in SUBSET Nat
      BY <1>1, <3>2, LedgerFields
    <3>4. Min(R) \in Nat
      BY <2>3, <3>3, MinIn
    <3>5. v \in Nat \X Nat \X Nat
      BY <1>1, <2>2, <3>4, LedgerFields DEF WorkRow
    <3> HIDE DEF v, e, R
    <3>6. e \in Ledgers /\ SameRead(d, e) /\ Frame(d, e) /\ e.results = d.results
      BY <1>1, <3>1, <3>5 DEF Ledgers, SameRead, Frame
    <3>7. Outcomes(e) = Outcomes(d)
      BY <3>6 DEF Outcomes
    <3>8. Keeps(d, e, P)
      BY <1>1, <3>6, <3>7, SameReadKeeps
    <3>9. WaitRouted(d, w)
      BY <2>3 DEF WaitRouted, R
    <3> QED BY <3>6, <3>8, <3>9, WaitStays DEF e
  <2>4. CASE R = {}
    <3> DEFINE marks == [NoMarks EXCEPT !.outcomes = c]
               x == NewRow(d, w, a, "wait_satisfied", 0, marks)
    <3>1. e = Create(d, w, a, "wait_satisfied", 0, marks)
      BY <1>3, <2>4 DEF EvaluateWait
    <3>2. c \in SUBSET Outcome
      BY <1>1, <2>1, ManifestTyped, OutcomesTyped
    <3>3. marks \in Marks /\ marks.request = None /\ marks.obligation = None
      BY <3>2, MarksTyped DEF NoMarks
    <3>4. x.work = w /\ x.actor = a /\ x.reason = "wait_satisfied" /\ x.marks = marks
          /\ x.endpoint = d.generation[a]
      BY DEF NewRow
    <3>5. d.generation[a] \in Nat
      BY <1>1, <2>2, LedgerFields
    <3> HIDE DEF marks, a, c, x, e
    <3>6. Addressed(d, x)
      BY <2>1, <3>3, <3>4, <3>5 DEF Addressed, OwnerControl
    <3>7. Fits(d, x) /\ Allowed(d, x)
      BY <2>1, <3>3, <3>4 DEF Fits, Allowed, a
    <3>8. "wait_satisfied" \in Reasons \ (Recovery \cup {"request_reply"})
      BY DEF Reasons, Recovery, OwnerControl
    <3>9. Keeps(d, e, P)
      BY <2>2, <3>1, <3>3, <3>6, <3>7, <3>8, CreateGood DEF Keeps, x
    <3>10. e \in Ledgers /\ Appended(d, e, x)
      BY <1>1, <2>2, <3>1, <3>3, <3>8, CreateEffect DEF x
    <3>11. OwnerRoutes(e, w, "wait_satisfied") # {}
      <4>1. /\ e.work = d.work /\ e.generation = d.generation /\ x.status \in Active
            /\ x.revision = d.work[w].revision
        BY <3>10 DEF Appended, Frame, Active, Live, x, NewRow
      <4>2. \E n \in Indexes(e) : e.activations[n] = x
        <5>1. LET n == Len(d.activations) + 1 IN n \in Indexes(e) /\ e.activations[n] = x
          BY <1>1, <3>10, AppendedRows
        <5> QED BY <5>1
      <4> QED BY <3>4, <4>1, <4>2 DEF OwnerRoutes, a
    <3> QED BY <3>9, <3>10, <3>11 DEF WaitRouted, Appended, e
  <2> QED BY <2>3, <2>4
<1> QED BY <1>2, <1>3

\* The ledgers that are reached from d.
Kept(d, P) == {e \in Ledgers : Keeps(d, e, P)}

LEMMA KeptStep ==
  ASSUME NEW d, NEW P, GoodBut(d, P), NEW e \in Kept(d, P), NEW f, Keeps(e, f, P)
  PROVE  f \in Kept(d, P)
<1>1. Keeps(d, f, P)
  BY KeepsTransitive DEF Kept
<1>2. f \in Ledgers
  BY DEF Keeps, GoodBut, Good
<1> QED BY <1>1, <1>2 DEF Kept

LEMMA KeptSelf ==
  ASSUME NEW d, NEW P, GoodBut(d, P)
  PROVE  d \in Kept(d, P)
BY KeepsReflexive DEF Kept, GoodBut, Good

LEMMA KeptGood ==
  ASSUME NEW d, NEW P, NEW e \in Kept(d, P)
  PROVE  e \in Ledgers /\ GoodBut(e, P) /\ Keeps(d, e, P) /\ Extends(d, e) /\ Frame(d, e)
BY DEF Kept, Keeps, Extends

\* FoldWithin and FoldKeeps when every set of elements keeps the same.
StepsIn(S, L, F) == F \in [S \X L -> L]
FoldsIn(S, L, F, b) == \E g : (\A s \in SUBSET S : g[s] \in L) /\ FoldOf(g, S, F, b)

LEMMA FoldIn ==
  ASSUME NEW S, IsFiniteSet(S), NEW L, NEW b \in L, NEW F, StepsIn(S, L, F)
  PROVE  FoldsIn(S, L, F, b)
<1> DEFINE J == [s \in SUBSET S |-> L]
<1>1. J \in [SUBSET S -> SUBSET L] /\ b \in J[{}] /\ F \in [S \X L -> L]
  BY DEF StepsIn
<1>2. \A s \in SUBSET S : \A x \in s : \A e \in J[s \ {x}] : F[<<x, e>>] \in J[s]
  BY <1>1
<1>3. \A s \in SUBSET S : J[s] = L
  OBVIOUS
<1> HIDE DEF J
<1>4. \E g : (\A s \in SUBSET S : g[s] \in J[s]) /\ FoldOf(g, S, F, b)
  BY <1>1, <1>2, FoldWithin
<1> QED BY <1>3, <1>4 DEF FoldsIn

LEMMA FoldStays ==
  ASSUME NEW S, IsFiniteSet(S), NEW L, NEW g, g[{}] \in L,
         \A s \in SUBSET S : s # {} /\ g[s \ {Pick(s)}] \in L => g[s] \in L
  PROVE  g[S] \in L
<1> DEFINE J == [s \in SUBSET S |-> L]
<1>1. \A s \in SUBSET S : J[s] = L
  OBVIOUS
<1> HIDE DEF J
<1>2. \A s \in SUBSET S : s \ {Pick(s)} \in SUBSET S
  OBVIOUS
<1>3. g[{}] \in J[{}]
  BY <1>1
<1>4. \A s \in SUBSET S : s # {} /\ g[s \ {Pick(s)}] \in J[s \ {Pick(s)}] => g[s] \in J[s]
  BY <1>1, <1>2
<1>5. \A s \in SUBSET S : g[s] \in J[s]
  BY <1>3, <1>4, FoldKeeps
<1> QED BY <1>1, <1>5

\* When a step also brings about something for its own element, and every other step keeps it,
\* the fold brings it about for all of them.
LEMMA FoldReaches ==
  ASSUME NEW S, IsFiniteSet(S), NEW L, NEW Q, NEW g, g[{}] \in L,
         \A s \in SUBSET S : s # {} /\ g[s \ {Pick(s)}] \in L =>
            /\ g[s] \in L /\ g[s] \in Q[Pick(s)]
            /\ \A y \in S : g[s \ {Pick(s)}] \in Q[y] => g[s] \in Q[y]
  PROVE  g[S] \in L /\ \A y \in S : g[S] \in Q[y]
<1> DEFINE J == [s \in SUBSET S |-> {e \in L : \A y \in s : e \in Q[y]}]
<1>1. \A s \in SUBSET S : J[s] = {e \in L : \A y \in s : e \in Q[y]}
  OBVIOUS
<1> HIDE DEF J
<1>2. \A s \in SUBSET S : s \ {Pick(s)} \in SUBSET S /\ s \subseteq S
  OBVIOUS
<1>3. g[{}] \in J[{}]
  BY <1>1
<1>4. ASSUME NEW s \in SUBSET S, s # {}, g[s \ {Pick(s)}] \in J[s \ {Pick(s)}]
      PROVE  g[s] \in J[s]
  <2>1. g[s \ {Pick(s)}] \in L /\ \A y \in s \ {Pick(s)} : g[s \ {Pick(s)}] \in Q[y]
    <3> DEFINE t == s \ {Pick(s)}
    <3>1. t \in SUBSET S /\ g[t] \in J[t]
      BY <1>2, <1>4
    <3> HIDE DEF t
    <3>2. g[t] \in L /\ \A y \in t : g[t] \in Q[y]
      BY <1>1, <3>1
    <3> QED BY <3>2 DEF t
  <2>2. /\ g[s] \in L /\ g[s] \in Q[Pick(s)]
        /\ \A y \in S : g[s \ {Pick(s)}] \in Q[y] => g[s] \in Q[y]
    BY <1>4, <2>1
  <2>3. \A y \in s : g[s] \in Q[y]
    BY <1>2, <2>1, <2>2
  <2> QED BY <1>1, <2>2, <2>3
<1>5. \A s \in SUBSET S : g[s] \in J[s]
  BY <1>3, <1>4, FoldKeeps
<1>6. g[S] \in J[S]
  BY <1>5
<1> QED BY <1>1, <1>6

(***************************************************************************)
(* Results.                                                                *)
(***************************************************************************)
LEMMA RecordEffect ==
  ASSUME NEW d \in Ledgers, NEW c \in Outcome
  PROVE  LET e == RecordResult(d, c)
         IN /\ e \in Ledgers /\ SameRead(d, e) /\ Frame(d, e) /\ Outcomes(e) = Outcomes(d) \cup {c}
            /\ e.replyOwner = d.replyOwner
<1> DEFINE e == RecordResult(d, c)
<1>1. CASE c \in Outcomes(d)
  BY <1>1 DEF RecordResult, SameRead, Frame
<1>2. CASE c \notin Outcomes(d)
  <2>1. e = [d EXCEPT !.results = Append(d.results, c)]
    BY <1>2 DEF RecordResult
  <2>2. d.results \in Seq(Outcome)
    BY LedgerFields
  <2>3. Append(d.results, c) \in Seq(Outcome)
    BY <2>2
  <2>4. e \in Ledgers /\ SameRead(d, e) /\ Frame(d, e) /\ e.results = Append(d.results, c)
        /\ e.replyOwner = d.replyOwner
    BY <2>1, <2>3 DEF Ledgers, SameRead, Frame
  <2> HIDE DEF e
  <2>5. Outcomes(e) = Outcomes(d) \cup {c}
    <3>1. DOMAIN e.results = 1..(Len(d.results) + 1) /\ DOMAIN d.results = 1..Len(d.results)
          /\ Len(d.results) \in Nat
      BY <2>2, <2>3, <2>4
    <3>2. \A k \in DOMAIN d.results : e.results[k] = d.results[k]
      BY <2>2, <2>4
    <3>3. e.results[Len(d.results) + 1] = c
      BY <2>2, <2>4
    <3> DEFINE n == Len(d.results) + 1
    <3>4. DOMAIN e.results = DOMAIN d.results \cup {n} /\ e.results[n] = c
      BY <3>1, <3>3
    <3> HIDE DEF n
    <3> QED BY <3>2, <3>4 DEF Outcomes, Range
  <2> QED BY <2>4, <2>5 DEF e
<1> QED BY <1>1, <1>2

LEMMA RecordKeeps ==
  ASSUME NEW d, NEW P, GoodBut(d, P), NEW s \in External, NEW kind \in {"result", "event"}
  PROVE  Keeps(d, RecordResult(d, <<s, kind>>), P)
<1> DEFINE c == <<s, kind>>
           e == RecordResult(d, c)
<1>1. d \in Ledgers
  BY GoodParts
<1>2. c \in Outcome /\ Source(c) = s
  BY DEF Outcome, Sources, Source
<1>3. \A o \in Obligation : <<o, "result">> # c
  BY LedgerConstants
<1> HIDE DEF c
<1>4. /\ e \in Ledgers /\ SameRead(d, e) /\ Frame(d, e) /\ Outcomes(e) = Outcomes(d) \cup {c}
  BY <1>1, <1>2, RecordEffect
<1> HIDE DEF e
<1>5. \A r \in Request : DebtOf[r] # None => DebtOf[r] \in Obligation
  BY LedgerConstants
<1> QED BY <1>1, <1>2, <1>3, <1>4, <1>5, SameReadKeeps DEF c, e

LEMMA ReconcileSourcesKeeps ==
  ASSUME NEW d, NEW P, GoodBut(d, P), NEW sources
  PROVE  Keeps(d, ReconcileSources(d, sources), P)
<1> DEFINE H(e, s) == IF Terminal(e, s) THEN RecordResult(e, <<s, "result">>) ELSE e
           S == sources \cap External
           L == Kept(d, P)
           F == [p \in S \X L |-> H(p[2], p[1])]
           step(h) == [s \in SUBSET S |-> IF s = {} THEN d ELSE H(h[s \ {Pick(s)}], Pick(s))]
           iter == CHOOSE h : h = step(h)
<1>1. IsFiniteSet(S)
  BY LedgerConstants, FS_Subset
<1>2. d \in L
  BY KeptSelf
<1>3. ASSUME NEW s \in S, NEW e \in L PROVE H(e, s) \in L
  <2>1. Keeps(e, H(e, s), P)
    BY KeptGood, RecordKeeps, KeepsReflexive
  <2> HIDE DEF H
  <2> QED BY <2>1, KeptStep
<1>4. StepsIn(S, L, F)
  BY <1>3 DEF StepsIn
<1> HIDE DEF H, L, S
<1>5. PICK g : (\A s \in SUBSET S : g[s] \in L) /\ FoldOf(g, S, F, d)
  <2> HIDE DEF F
  <2> QED BY <1>1, <1>2, <1>4, FoldIn DEF FoldsIn
<1>6. g = step(g)
  BY <1>5, PickIn DEF FoldOf
<1>7. iter = step(iter)
  <2> HIDE DEF step
  <2> QED BY <1>6
<1> HIDE DEF iter
<1>8. iter[S] \in L
  <2>1. iter[{}] \in L /\ \A s \in SUBSET S : s # {} => iter[s] = H(iter[s \ {Pick(s)}], Pick(s))
    BY <1>2, <1>7
  <2> HIDE DEF step
  <2>2. \A s \in SUBSET S : s # {} /\ iter[s \ {Pick(s)}] \in L => iter[s] \in L
    BY <1>3, <2>1, PickIn
  <2> QED BY <1>1, <2>1, <2>2, FoldStays
<1>9. ReconcileSources(d, sources) = iter[S]
  BY DEF ReconcileSources, FoldSet, MapThenFoldSet, Pick, iter, S, H
<1> QED BY <1>8, <1>9, KeptGood DEF L

(***************************************************************************)
(* The waits of assignments.                                               *)
(***************************************************************************)
LEMMA RoutesComplete ==
  ASSUME NEW d, NEW P, GoodBut(d, P), NEW o \in Obligation \ P, NEW reason,
         d.obligation[o].status = "open", ObligationRoutes(d, o, {reason}) = {}
  PROVE  \A j \in Indexes(d) :
           ~ (/\ Current(d, j, o) /\ d.activations[j].status \in Active
              /\ d.activations[j].reason = reason)
<1> SUFFICES ASSUME NEW j \in Indexes(d), Current(d, j, o), d.activations[j].status \in Active,
                    d.activations[j].reason = reason
             PROVE  FALSE
  OBVIOUS
<1>1. Settled(d, o) /\ Addressed(d, d.activations[j]) /\ o # None
  BY GoodParts, LedgerConstants
<1>2. d.activations[j].marks.obligation = o
      /\ d.activations[j].generation = d.obligation[o].generation
  BY DEF Current
<1>3. d.activations[j].endpoint = d.generation[Assignee[o]]
  BY <1>1 DEF Settled
<1>4. d.activations[j].work = WorkOf[o] /\ d.activations[j].actor = Assignee[o]
  BY <1>1, <1>2 DEF Addressed
<1>5. j \in ObligationRoutes(d, o, {reason})
  BY <1>2, <1>3, <1>4 DEF ObligationRoutes
<1> QED BY <1>5

LEMMA EvaluateAssignmentWaitKeeps ==
  ASSUME NEW d, NEW P, GoodBut(d, P), NEW o \in Obligation \ P
  PROVE  /\ Keeps(d, EvaluateAssignmentWait(d, o), P)
         /\ WaitNoticed(EvaluateAssignmentWait(d, o), o)
         /\ EvaluateAssignmentWait(d, o).results = d.results
<1> DEFINE e == EvaluateAssignmentWait(d, o)
           w == WorkOf[o]
           a == Assignee[o]
           g == d.obligation[o].generation
           marks == [NoMarks EXCEPT !.obligation = o, !.outcomes = AssignmentManifest(d, o)]
           x == NewRow(d, w, a, "assignment_wait_satisfied", g, marks)
<1>1. /\ d \in Ledgers /\ DebtKept(d, o) /\ Settled(d, o)
      /\ \A i \in Indexes(d) : Addressed(d, d.activations[i])
  BY GoodParts
<1>2. CASE ~(/\ d.obligation[o].status = "open" /\ ContinuationAllowed(d, o)
             /\ AssignmentSatisfied(d, o)
             /\ ObligationRoutes(d, o, {"assignment_wait_satisfied"}) = {})
  <2>1. e = d
    BY <1>2 DEF EvaluateAssignmentWait
  <2> QED BY <1>2, <2>1, KeepsReflexive DEF WaitNoticed
<1>3. CASE /\ d.obligation[o].status = "open" /\ ContinuationAllowed(d, o)
           /\ AssignmentSatisfied(d, o)
           /\ ObligationRoutes(d, o, {"assignment_wait_satisfied"}) = {}
  <2>1. e = Create(d, w, a, "assignment_wait_satisfied", g, marks)
    BY <1>3 DEF EvaluateAssignmentWait
  <2>2. w \in Work /\ a \in Actor /\ o # None
    BY LedgerConstants
  <2>3. g \in Nat /\ d.generation[a] \in Nat /\ d.work[w].mode # "none" /\ d.assignment[o].mode = "waiting"
    BY <1>1, <1>3, <2>2, LedgerFields DEF DebtRow, DebtKept, AssignmentSatisfied, AssignmentWait
  <2>4. AssignmentManifest(d, o) \in SUBSET Outcome
    BY <1>1, <1>3, AssignmentManifestTyped, OutcomesTyped
  <2>5. marks \in Marks /\ marks.request = None /\ marks.obligation = o
    BY <2>4, MarksTyped DEF NoMarks
  <2>6. /\ x.work = w /\ x.actor = a /\ x.reason = "assignment_wait_satisfied" /\ x.marks = marks
        /\ x.generation = g /\ x.endpoint = d.generation[a]
    BY DEF NewRow
  <2> HIDE DEF marks, x, e
  <2>7. Addressed(d, x)
    BY <1>3, <2>2, <2>3, <2>5, <2>6 DEF Addressed, AssignmentReasons, OwnerControl, Recovery
  <2>8. \A j \in Indexes(d) :
          ~ (/\ Current(d, j, o) /\ d.activations[j].status \in Active
             /\ d.activations[j].reason = "assignment_wait_satisfied")
    BY <1>3, RoutesComplete
  <2>9. Fits(d, x)
    BY <2>3, <2>5, <2>6, <2>8 DEF Fits, Single
  <2>10. Allowed(d, x)
    BY <1>3, <2>2, <2>5, <2>6 DEF Allowed, ContinuationAllowed
  <2>11. "assignment_wait_satisfied" \in Reasons \ (Recovery \cup {"request_reply"})
    BY DEF Reasons, Recovery, AssignmentReasons
  <2>12. Keeps(d, e, P)
    BY <2>1, <2>2, <2>3, <2>5, <2>7, <2>9, <2>10, <2>11, CreateGood DEF Keeps, x
  <2>13. e \in Ledgers /\ Appended(d, e, x)
    BY <1>1, <2>1, <2>2, <2>3, <2>5, <2>11, CreateEffect DEF x
  <2>14. ObligationRoutes(e, o, {"assignment_wait_satisfied"}) # {}
    <3>1. e.obligation = d.obligation /\ e.generation = d.generation /\ x.status \in Active
      BY <2>13 DEF Appended, Frame, Active, Live
    <3>2. \E n \in Indexes(e) : e.activations[n] = x
      <4>1. LET n == Len(d.activations) + 1 IN n \in Indexes(e) /\ e.activations[n] = x
        BY <1>1, <2>13, AppendedRows
      <4> QED BY <4>1
    <3> QED BY <2>5, <2>6, <3>1, <3>2 DEF ObligationRoutes
  <2> QED BY <2>12, <2>13, <2>14 DEF WaitNoticed, Appended, e
<1> QED BY <1>2, <1>3

LEMMA WaitsKeep ==
  ASSUME NEW d, NEW P, GoodBut(d, P), NEW works \in SUBSET Work
  PROVE  LET f == FoldSet(LAMBDA w, e : EvaluateWait(e, w), d, works)
         IN /\ Keeps(d, f, P) /\ f.results = d.results
            /\ \A y \in works : WaitRouted(f, y)
<1> DEFINE H(e, w) == EvaluateWait(e, w)
           S == works
           L == {e \in Kept(d, P) : e.results = d.results}
           Q == [y \in S |-> {e \in L : WaitRouted(e, y)}]
           F == [p \in S \X L |-> H(p[2], p[1])]
           step(h) == [s \in SUBSET S |-> IF s = {} THEN d ELSE H(h[s \ {Pick(s)}], Pick(s))]
           iter == CHOOSE h : h = step(h)
<1>1. IsFiniteSet(S)
  BY LedgerConstants, FS_Subset
<1>2. d \in L
  BY KeptSelf
<1>3. ASSUME NEW w \in S, NEW e \in L
      PROVE  /\ H(e, w) \in L /\ WaitRouted(H(e, w), w)
             /\ \A y \in S : WaitRouted(e, y) => WaitRouted(H(e, w), y)
  <2>1. GoodBut(e, P) /\ e \in Kept(d, P)
    BY KeptGood
  <2>2. /\ Keeps(e, H(e, w), P) /\ WaitRouted(H(e, w), w)
        /\ H(e, w).results = e.results
    BY <2>1, EvaluateWaitKeeps
  <2> HIDE DEF H
  <2>3. \A y \in S : WaitRouted(e, y) => WaitRouted(H(e, w), y)
    BY <2>1, <2>2, WaitStays
  <2>4. H(e, w) \in Kept(d, P)
    BY <2>1, <2>2, KeptStep
  <2> QED BY <2>2, <2>3, <2>4
<1>4. StepsIn(S, L, F)
  BY <1>3 DEF StepsIn
<1> HIDE DEF H, L, S, Q
<1>5. PICK g : (\A s \in SUBSET S : g[s] \in L) /\ FoldOf(g, S, F, d)
  <2> HIDE DEF F
  <2> QED BY <1>1, <1>2, <1>4, FoldIn DEF FoldsIn
<1>6. g = step(g)
  BY <1>5, PickIn DEF FoldOf
<1>7. iter = step(iter)
  <2> HIDE DEF step
  <2> QED BY <1>6
<1> HIDE DEF iter
<1>8. iter[S] \in L /\ \A y \in S : WaitRouted(iter[S], y)
  <2>1. iter[{}] \in L /\ \A s \in SUBSET S : s # {} => iter[s] = H(iter[s \ {Pick(s)}], Pick(s))
    BY <1>2, <1>7
  <2> HIDE DEF step
  <2>2. \A y \in S : Q[y] = {e \in L : WaitRouted(e, y)}
    BY DEF Q
  <2>3. ASSUME NEW s \in SUBSET S, s # {}, iter[s \ {Pick(s)}] \in L
        PROVE  /\ iter[s] \in L /\ iter[s] \in Q[Pick(s)]
               /\ \A y \in S : iter[s \ {Pick(s)}] \in Q[y] => iter[s] \in Q[y]
    <3>1. Pick(s) \in S /\ iter[s] = H(iter[s \ {Pick(s)}], Pick(s))
      BY <2>1, <2>3, PickIn
    <3> QED BY <1>3, <2>2, <2>3, <3>1
  <2>4. iter[S] \in L /\ \A y \in S : iter[S] \in Q[y]
    BY <1>1, <2>1, <2>3, FoldReaches
  <2> QED BY <2>2, <2>4
<1>9. FoldSet(LAMBDA w, e : EvaluateWait(e, w), d, works) = iter[S]
  BY DEF FoldSet, MapThenFoldSet, Pick, iter, S, H
<1> QED BY <1>8, <1>9, KeptGood DEF L, S

LEMMA AssignmentWaitsKeep ==
  ASSUME NEW d, NEW P, GoodBut(d, P), NEW debts \in SUBSET (Obligation \ P)
  PROVE  LET f == FoldSet(LAMBDA o, e : EvaluateAssignmentWait(e, o), d, debts)
         IN /\ Keeps(d, f, P) /\ f.results = d.results
            /\ \A y \in debts : WaitNoticed(f, y)
<1> DEFINE H(e, o) == EvaluateAssignmentWait(e, o)
           S == debts
           L == {e \in Kept(d, P) : e.results = d.results}
           Q == [y \in S |-> {e \in L : WaitNoticed(e, y)}]
           F == [p \in S \X L |-> H(p[2], p[1])]
           step(h) == [s \in SUBSET S |-> IF s = {} THEN d ELSE H(h[s \ {Pick(s)}], Pick(s))]
           iter == CHOOSE h : h = step(h)
<1>1. IsFiniteSet(S)
  BY LedgerConstants, FS_Subset
<1>2. d \in L
  BY KeptSelf
<1>3. ASSUME NEW o \in S, NEW e \in L
      PROVE  /\ H(e, o) \in L /\ WaitNoticed(H(e, o), o)
             /\ \A y \in S : WaitNoticed(e, y) => WaitNoticed(H(e, o), y)
  <2>1. GoodBut(e, P) /\ e \in Kept(d, P)
    BY KeptGood
  <2>2. /\ Keeps(e, H(e, o), P) /\ WaitNoticed(H(e, o), o)
        /\ H(e, o).results = e.results
    BY <2>1, EvaluateAssignmentWaitKeeps
  <2> HIDE DEF H
  <2>3. \A y \in S : WaitNoticed(e, y) => WaitNoticed(H(e, o), y)
    BY <2>1, <2>2, WaitNoticeStays
  <2>4. H(e, o) \in Kept(d, P)
    BY <2>1, <2>2, KeptStep
  <2> QED BY <2>2, <2>3, <2>4
<1>4. StepsIn(S, L, F)
  BY <1>3 DEF StepsIn
<1> HIDE DEF H, L, S, Q
<1>5. PICK g : (\A s \in SUBSET S : g[s] \in L) /\ FoldOf(g, S, F, d)
  <2> HIDE DEF F
  <2> QED BY <1>1, <1>2, <1>4, FoldIn DEF FoldsIn
<1>6. g = step(g)
  BY <1>5, PickIn DEF FoldOf
<1>7. iter = step(iter)
  <2> HIDE DEF step
  <2> QED BY <1>6
<1> HIDE DEF iter
<1>8. iter[S] \in L /\ \A y \in S : WaitNoticed(iter[S], y)
  <2>1. iter[{}] \in L /\ \A s \in SUBSET S : s # {} => iter[s] = H(iter[s \ {Pick(s)}], Pick(s))
    BY <1>2, <1>7
  <2> HIDE DEF step
  <2>2. \A y \in S : Q[y] = {e \in L : WaitNoticed(e, y)}
    BY DEF Q
  <2>3. ASSUME NEW s \in SUBSET S, s # {}, iter[s \ {Pick(s)}] \in L
        PROVE  /\ iter[s] \in L /\ iter[s] \in Q[Pick(s)]
               /\ \A y \in S : iter[s \ {Pick(s)}] \in Q[y] => iter[s] \in Q[y]
    <3>1. Pick(s) \in S /\ iter[s] = H(iter[s \ {Pick(s)}], Pick(s))
      BY <2>1, <2>3, PickIn
    <3> QED BY <1>3, <2>2, <2>3, <3>1
  <2>4. iter[S] \in L /\ \A y \in S : iter[S] \in Q[y]
    BY <1>1, <2>1, <2>3, FoldReaches
  <2> QED BY <2>2, <2>4
<1>9. FoldSet(LAMBDA o, e : EvaluateAssignmentWait(e, o), d, debts) = iter[S]
  BY DEF FoldSet, MapThenFoldSet, Pick, iter, S, H
<1> QED BY <1>8, <1>9, KeptGood DEF L, S

LEMMA EvaluateWaitsKeep ==
  ASSUME NEW d, GoodBut(d, {})
  PROVE  LET e == EvaluateWaits(d)
         IN /\ Keeps(d, e, {}) /\ e.results = d.results
            /\ \A w \in Work : ~ExplicitStop(d, w, d.work[w].owner) => WaitRouted(e, w)
            /\ \A o \in Obligation : ~ExplicitStop(d, WorkOf[o], Assignee[o]) => WaitNoticed(e, o)
<1> DEFINE works == {w \in Work : d.work[w].mode = "waiting"
                                 /\ ~ExplicitStop(d, w, d.work[w].owner)}
           debts == {o \in Obligation : AssignmentWait(d, o)
                                     /\ ~ExplicitStop(d, WorkOf[o], Assignee[o])}
           f == FoldSet(LAMBDA w, e : EvaluateWait(e, w), d, works)
           h == FoldSet(LAMBDA o, e : EvaluateAssignmentWait(e, o), f, debts)
<1>1. works \in SUBSET Work /\ debts \in SUBSET (Obligation \ {})
  OBVIOUS
<1>2. h = EvaluateWaits(d)
  BY DEF EvaluateWaits
<1> HIDE DEF works, debts
<1>3. Keeps(d, f, {}) /\ f.results = d.results /\ \A y \in works : WaitRouted(f, y)
  BY <1>1, WaitsKeep
<1> HIDE DEF f
<1>4. GoodBut(f, {}) /\ f \in Ledgers
  BY <1>3 DEF Keeps, GoodBut, Good
<1>5. Keeps(f, h, {}) /\ h.results = f.results /\ \A y \in debts : WaitNoticed(h, y)
  BY <1>1, <1>4, AssignmentWaitsKeep
<1> HIDE DEF h
<1>6. Keeps(d, h, {})
  BY <1>3, <1>5, KeepsTransitive
<1>7. h.work = d.work /\ h.assignment = d.assignment
  BY <1>6 DEF Keeps, Extends, Frame
<1>8. ASSUME NEW w \in Work, ~ExplicitStop(d, w, d.work[w].owner) PROVE WaitRouted(h, w)
  <2>1. CASE d.work[w].mode = "waiting"
    <3>1. WaitRouted(f, w)
      BY <1>3, <1>8, <2>1 DEF works
    <3> QED BY <1>4, <1>5, <3>1, WaitStays
  <2>2. CASE d.work[w].mode # "waiting"
    BY <1>7, <2>2 DEF WaitRouted, WaitSatisfied
  <2> QED BY <2>1, <2>2
<1>9. ASSUME NEW o \in Obligation, ~ExplicitStop(d, WorkOf[o], Assignee[o]) PROVE WaitNoticed(h, o)
  <2>1. CASE AssignmentWait(d, o)
    BY <1>5, <1>9, <2>1 DEF debts
  <2>2. CASE ~AssignmentWait(d, o)
    BY <1>7, <2>2 DEF WaitNoticed, AssignmentSatisfied, AssignmentWait
  <2> QED BY <2>1, <2>2
<1> QED BY <1>2, <1>3, <1>5, <1>6, <1>8, <1>9

(***************************************************************************)
(* The routes of assignments.                                              *)
(***************************************************************************)
LEMMA NoticeKeeps ==
  ASSUME NEW d, NEW P, GoodBut(d, P), NEW o \in Obligation, d.obligation[o].status = "open",
         NEW reason \in AssignmentReasons \ {"request_message"}, NEW marks \in Marks,
         marks.obligation = o, marks.request \in {None, RequestOf(o)},
         RequestOf(o) # None /\ marks.request = None => reason \in Single,
         d.work[WorkOf[o]].mode = "complete" /\ RequestOf(o) = None => reason = "assignment_continue",
         d.assignment[o].mode = "continue" => reason = "assignment_continue",
         d.assignment[o].mode = "waiting" => reason = "assignment_wait_satisfied",
         d.assignment[o].mode = "none" => reason \in {"obligation_assigned", "obligation_reminder"},
         d.assignment[o].mode = "paused" => reason = "assignment_paused_control",
         reason \in Single =>
            \A j \in Indexes(d) :
              ~ (/\ Current(d, j, o) /\ d.activations[j].status \in Active
                 /\ d.activations[j].reason = reason)
  PROVE  Keeps(d, Create(d, WorkOf[o], Assignee[o], reason, d.obligation[o].generation, marks), P)
<1> DEFINE w == WorkOf[o]
           a == Assignee[o]
           g == d.obligation[o].generation
           x == NewRow(d, w, a, reason, g, marks)
           r == marks.request
<1>1. /\ d \in Ledgers /\ DebtKept(d, o) /\ \A q \in Request : RequestKept(d, q)
  BY GoodParts
<1>2. w \in Work /\ a \in Actor /\ o # None
  BY LedgerConstants
<1>3. g \in Nat /\ d.generation[a] \in Nat /\ d.work[w].mode # "none"
  BY <1>1, <1>2, LedgerFields DEF DebtRow, DebtKept
<1>4. /\ x.work = w /\ x.actor = a /\ x.reason = reason /\ x.marks = marks
      /\ x.generation = g /\ x.endpoint = d.generation[a]
  BY DEF NewRow
<1>5. RequestOf(o) # None => RequestOf(o) \in Request /\ DebtOf[RequestOf(o)] = o
  BY DEF RequestOf
<1>6. r # None => /\ r \in Request /\ WorkOf[r] = w /\ d.request[r].status # "none"
  <2> SUFFICES ASSUME r # None PROVE r \in Request /\ WorkOf[r] = w /\ d.request[r].status # "none"
    OBVIOUS
  <2>1. r \in Request /\ DebtOf[r] = o
    BY <1>5
  <2>2. RequestKept(d, r)
    BY <1>1, <2>1
  <2>3. WorkOf[o] = WorkOf[r]
    BY <1>2, <2>1, LedgerConstants
  <2> QED BY <1>2, <2>1, <2>2, <2>3 DEF RequestKept
<1> HIDE DEF x, g
<1>7. Addressed(d, x)
  BY <1>2, <1>3, <1>4, <1>6 DEF Addressed, AssignmentReasons, OwnerControl, Recovery, Single, g
<1>8. Fits(d, x)
  BY <1>4 DEF Fits, Single, g
<1>9. Allowed(d, x)
  BY <1>2, <1>4 DEF Allowed, g
<1>10. reason \in Reasons \ (Recovery \cup {"request_reply"})
  BY DEF Reasons, Recovery, AssignmentReasons
<1> QED BY <1>2, <1>3, <1>7, <1>8, <1>9, <1>10, CreateGood DEF Keeps, x, g

LEMMA NoticedStays ==
  ASSUME NEW d \in Ledgers, NEW e \in Ledgers, Added(d, e), NEW o, Noticed(d, o)
  PROVE  Noticed(e, o)
<1>1. /\ Indexes(d) = 1..Len(d.activations) /\ Len(d.activations) \in Nat
      /\ Indexes(e) = 1..Len(e.activations) /\ Len(e.activations) \in Nat
  BY LedgerFields
<1>2. Indexes(d) \subseteq Indexes(e) /\ \A i \in Indexes(d) : e.activations[i] = d.activations[i]
  BY <1>1 DEF Added
<1> QED BY <1>2 DEF Noticed

LEMMA NoticeCreated ==
  ASSUME NEW d \in Ledgers, NEW o \in Obligation, NEW reason \in AssignmentReasons, NEW g \in Nat,
         NEW marks \in Marks, marks.obligation = o
  PROVE  Noticed(Create(d, WorkOf[o], Assignee[o], reason, g, marks), o)
<1> DEFINE e == Create(d, WorkOf[o], Assignee[o], reason, g, marks)
           x == NewRow(d, WorkOf[o], Assignee[o], reason, g, marks)
<1>1. WorkOf[o] \in Work /\ Assignee[o] \in Actor /\ reason \in Reasons
  BY LedgerConstants DEF Reasons
<1>2. e \in Ledgers /\ Appended(d, e, x)
  BY <1>1, CreateEffect
<1>3. x.reason = reason /\ x.marks = marks /\ x.status = "pending"
  BY DEF NewRow
<1> HIDE DEF e, x
<1>4. \E n \in Indexes(e) : e.activations[n] = x
  <2>1. LET n == Len(d.activations) + 1 IN n \in Indexes(e) /\ e.activations[n] = x
    BY <1>2, AppendedRows
  <2> QED BY <2>1
<1>5. reason # "assignment_recovery"
  BY DEF AssignmentReasons
<1>6. Noticed(e, o)
  BY <1>3, <1>4, <1>5 DEF Noticed, Live
<1> QED BY <1>6 DEF e

\* A debt that nobody has a notice of yet, in a work that goes on.
Open(d, o) ==
  /\ d.obligation[o].status = "open" /\ d.assignment[o].mode = "none"
  /\ d.work[WorkOf[o]].mode = "complete" => RequestOf(o) # None

LEMMA ObligationMarks ==
  ASSUME NEW o \in Obligation, NEW r \in Request \cup {None}
  PROVE  /\ [NoMarks EXCEPT !.obligation = o] \in Marks
         /\ [NoMarks EXCEPT !.obligation = o].obligation = o
         /\ [NoMarks EXCEPT !.obligation = o].request = None
         /\ [NoMarks EXCEPT !.request = r, !.obligation = o] \in Marks
         /\ [NoMarks EXCEPT !.request = r, !.obligation = o].obligation = o
         /\ [NoMarks EXCEPT !.request = r, !.obligation = o].request = r
BY MarksTyped DEF NoMarks

LEMMA ScheduleRepeats ==
  ASSUME NEW d, NEW P, GoodBut(d, P), NEW o \in Obligation, NEW n \in Nat,
         Open(d, o), RequestOf(o) = None
  PROVE  Keeps(d, Repeat(n, d, LAMBDA e : Create(e, WorkOf[o], Assignee[o], "obligation_reminder",
                                           e.obligation[o].generation, [NoMarks EXCEPT !.obligation = o])), P)
<1> DEFINE H(e, k) == Create(e, WorkOf[o], Assignee[o], "obligation_reminder",
                             e.obligation[o].generation, [NoMarks EXCEPT !.obligation = o])
           S == 1..n
           L == Kept(d, P)
           F == [p \in S \X L |-> H(p[2], p[1])]
           step(h) == [s \in SUBSET S |-> IF s = {} THEN d ELSE H(h[s \ {Pick(s)}], Pick(s))]
           iter == CHOOSE h : h = step(h)
<1>1. IsFiniteSet(S)
  BY FS_Interval
<1>2. d \in L
  BY KeptSelf
<1>3. ASSUME NEW k \in S, NEW e \in L PROVE H(e, k) \in L
  <2>1. Keeps(e, H(e, k), P)
    <3>1. GoodBut(e, P) /\ Frame(d, e)
      BY KeptGood
    <3>2. /\ [NoMarks EXCEPT !.obligation = o] \in Marks
          /\ [NoMarks EXCEPT !.obligation = o].obligation = o
          /\ [NoMarks EXCEPT !.obligation = o].request = None
      BY ObligationMarks
    <3>3. "obligation_reminder" \in AssignmentReasons \ {"request_message"}
      BY DEF AssignmentReasons
    <3> QED BY <3>1, <3>2, <3>3, NoticeKeeps DEF Frame, Open, Single
  <2> HIDE DEF H
  <2> QED BY <2>1, KeptStep
<1>4. StepsIn(S, L, F)
  BY <1>3 DEF StepsIn
<1> HIDE DEF H, L, S
<1>5. PICK g : (\A s \in SUBSET S : g[s] \in L) /\ FoldOf(g, S, F, d)
  <2> HIDE DEF F
  <2> QED BY <1>1, <1>2, <1>4, FoldIn DEF FoldsIn
<1>6. g = step(g)
  BY <1>5, PickIn DEF FoldOf
<1>7. iter = step(iter)
  <2> HIDE DEF step
  <2> QED BY <1>6
<1> HIDE DEF iter
<1>8. iter[S] \in L
  <2>1. iter[{}] \in L /\ \A s \in SUBSET S : s # {} => iter[s] = H(iter[s \ {Pick(s)}], Pick(s))
    BY <1>2, <1>7
  <2> HIDE DEF step
  <2>2. \A s \in SUBSET S : s # {} /\ iter[s \ {Pick(s)}] \in L => iter[s] \in L
    BY <1>3, <2>1, PickIn
  <2> QED BY <1>1, <2>1, <2>2, FoldStays
<1>9. Repeat(n, d, LAMBDA e : Create(e, WorkOf[o], Assignee[o], "obligation_reminder",
                                           e.obligation[o].generation, [NoMarks EXCEPT !.obligation = o])) = iter[S]
  BY DEF Repeat, FoldSet, MapThenFoldSet, Pick, iter, S, H
<1> QED BY <1>8, <1>9, KeptGood DEF L

LEMMA ScheduleObligationKeeps ==
  ASSUME NEW d, NEW P, GoodBut(d, P), NEW o \in Obligation, Open(d, o), RequestOf(o) = None
  PROVE  /\ Keeps(d, ScheduleObligation(d, o), P)
         /\ ~ExplicitStop(d, WorkOf[o], Assignee[o]) => Noticed(ScheduleObligation(d, o), o)
<1> DEFINE f == Create(d, WorkOf[o], Assignee[o], "obligation_assigned", d.obligation[o].generation,
                       [NoMarks EXCEPT !.obligation = o])
           h == Repeat(Reminders[o], f,
                       LAMBDA e : Create(e, WorkOf[o], Assignee[o], "obligation_reminder",
                                         e.obligation[o].generation, [NoMarks EXCEPT !.obligation = o]))
<1>1. Keeps(d, f, P)
  <2>1. /\ [NoMarks EXCEPT !.obligation = o] \in Marks
        /\ [NoMarks EXCEPT !.obligation = o].obligation = o
        /\ [NoMarks EXCEPT !.obligation = o].request = None
    BY ObligationMarks
  <2>2. "obligation_assigned" \in AssignmentReasons \ {"request_message"}
    BY DEF AssignmentReasons
  <2> QED BY <2>1, <2>2, NoticeKeeps DEF Open, Single
<1>7. Noticed(f, o)
  <2>1. d \in Ledgers /\ d.obligation[o].generation \in Nat
    BY GoodParts, LedgerFields DEF DebtRow
  <2>2. [NoMarks EXCEPT !.obligation = o] \in Marks /\ [NoMarks EXCEPT !.obligation = o].obligation = o
    BY ObligationMarks
  <2>3. "obligation_assigned" \in AssignmentReasons
    BY DEF AssignmentReasons
  <2> QED BY <2>1, <2>2, <2>3, NoticeCreated
<1> HIDE DEF f
<1>2. GoodBut(f, P) /\ Frame(d, f) /\ Reminders[o] \in Nat
  BY <1>1, LedgerConstants DEF Keeps, Extends
<1>3. Open(f, o)
  BY <1>2 DEF Open, Frame
<1>4. Keeps(f, h, P)
  BY <1>2, <1>3, ScheduleRepeats
<1>5. ScheduleObligation(d, o) = IF ExplicitStop(d, WorkOf[o], Assignee[o]) THEN d ELSE h
  BY DEF ScheduleObligation, f, h
<1> HIDE DEF h
<1>6. Keeps(d, h, P)
  BY <1>1, <1>4, KeepsTransitive
<1>8. Noticed(h, o)
  <2>1. f \in Ledgers /\ h \in Ledgers /\ Added(f, h)
    BY <1>1, <1>4 DEF Keeps, GoodBut, Good, Extends
  <2> QED BY <1>7, <2>1, NoticedStays
<1> QED BY <1>5, <1>6, <1>8, KeepsReflexive

LEMMA RearmObligationKeeps ==
  ASSUME NEW d, NEW P, GoodBut(d, P), NEW o \in Obligation \ P, d.obligation[o].status = "open"
  PROVE  Keeps(d, RearmObligation(d, o), P)
<1> DEFINE w == WorkOf[o]
           r == RequestOf(o)
           mode == d.assignment[o].mode
           reason == IF mode = "continue" THEN "assignment_continue" ELSE "assignment_paused_control"
           marks == [NoMarks EXCEPT !.request = r, !.obligation = o]
           e == RearmObligation(d, o)
           f == Create(d, w, Assignee[o], reason, d.obligation[o].generation, marks)
<1>1. d \in Ledgers /\ \A q \in Request : RequestKept(d, q)
  BY GoodParts
<1>2. mode \in {"none", "paused", "continue", "waiting"} /\ o # None
  BY <1>1, LedgerFields, LedgerConstants DEF AssignmentRow
<1>3. r # None => r \in Request /\ DebtOf[r] = o
  BY DEF RequestOf
<1>4. e = IF ExplicitStop(d, w, Assignee[o]) \/ (d.work[w].mode = "complete" /\ r = None) THEN d
          ELSE IF mode = "waiting" THEN EvaluateAssignmentWait(d, o)
          ELSE IF mode # "none"
          THEN IF \/ mode = "paused" /\ CurrentClaim(d, o) # 0
                  \/ ObligationRoutes(d, o, {reason}) # {}
               THEN d ELSE f
          ELSE IF r # None
          THEN IF \/ d.request[r].answered
                  \/ /\ ActiveCurrent(d, d.request[r].message, Assignee[o], "request_message")
                     /\ d.activations[d.request[r].message].generation = d.obligation[o].generation
               THEN d ELSE SendMessage(d, r)
          ELSE IF d.obligation[o].claim # 0 THEN d ELSE ScheduleObligation(d, o)
  BY DEF RearmObligation
<1>5. marks \in Marks /\ marks.obligation = o /\ marks.request = r
  BY <1>3, ObligationMarks
<1> HIDE DEF e, marks, f
<1>6. CASE e = d
  BY <1>6, KeepsReflexive DEF e
<1>7. CASE e = EvaluateAssignmentWait(d, o)
  BY <1>7, EvaluateAssignmentWaitKeeps DEF e
<1>8. CASE e = f /\ mode \in {"continue", "paused"} /\ ObligationRoutes(d, o, {reason}) = {}
           /\ ~(d.work[w].mode = "complete" /\ r = None)
  <2>1. \A j \in Indexes(d) :
          ~ (/\ Current(d, j, o) /\ d.activations[j].status \in Active
             /\ d.activations[j].reason = reason)
    BY <1>8, RoutesComplete
  <2>2. reason \in AssignmentReasons \ {"request_message"}
    BY DEF AssignmentReasons
  <2>3. Keeps(d, f, P)
    BY <1>5, <1>8, <2>1, <2>2, NoticeKeeps DEF Single, f
  <2> QED BY <1>8, <2>3 DEF e
<1>9. CASE e = SendMessage(d, r) /\ r # None /\ mode = "none" /\ ~d.request[r].answered
  <2>1. RequestKept(d, r) /\ r \in Request /\ DebtOf[r] = o
    BY <1>1, <1>3, <1>9
  <2>2. d.request[r].status \in {"delivery_pending", "claimed"}
    <3>1. d.request[r] \in RequestRow
      BY <1>1, <2>1, LedgerFields
    <3> QED BY <1>2, <1>9, <2>1, <3>1 DEF RequestKept, RequestRow
  <2>3. GoodBut(SendMessage(d, r), P) /\ Extends(d, SendMessage(d, r))
    BY <1>2, <1>9, <2>1, <2>2, SendMessageGood
  <2> QED BY <1>9, <2>3 DEF Keeps, e
<1>10. CASE e = ScheduleObligation(d, o) /\ r = None /\ mode = "none"
            /\ ~(d.work[w].mode = "complete" /\ r = None)
  <2>1. Open(d, o)
    BY <1>10 DEF Open
  <2> QED BY <1>10, <2>1, ScheduleObligationKeeps DEF e
<1> HIDE DEF w, r, mode, reason
<1> QED BY <1>2, <1>4, <1>6, <1>7, <1>8, <1>9, <1>10

\* A rearmed assignment is routed.
LEMMA RearmRoutes ==
  ASSUME NEW d, NEW P, GoodBut(d, P), NEW o \in Obligation \ P, d.obligation[o].status = "open"
  PROVE  DebtRouted(RearmObligation(d, o), o)
<1> DEFINE w == WorkOf[o]
           r == RequestOf(o)
           mode == d.assignment[o].mode
           reason == IF mode = "continue" THEN "assignment_continue" ELSE "assignment_paused_control"
           marks == [NoMarks EXCEPT !.request = r, !.obligation = o]
           e == RearmObligation(d, o)
           f == Create(d, w, Assignee[o], reason, d.obligation[o].generation, marks)
<1>1. d \in Ledgers /\ \A i \in Indexes(d) : NoticeKept(d, i)
  BY GoodParts
<1>2. mode \in {"none", "paused", "continue", "waiting"} /\ o # None
  BY <1>1, LedgerFields, LedgerConstants DEF AssignmentRow
<1>3. r # None => r \in Request
  BY DEF RequestOf
<1>4. e \in Ledgers /\ Frame(d, e)
  BY RearmObligationKeeps DEF Keeps, GoodBut, Good, Extends
<1>5. Owed(e, o) <=> Owed(d, o)
  BY <1>4 DEF Frame, Owed, ExplicitStop, ContinuationAllowed
<1>6. e = IF ExplicitStop(d, w, Assignee[o]) \/ (d.work[w].mode = "complete" /\ r = None) THEN d
          ELSE IF mode = "waiting" THEN EvaluateAssignmentWait(d, o)
          ELSE IF mode # "none"
          THEN IF \/ mode = "paused" /\ CurrentClaim(d, o) # 0
                  \/ ObligationRoutes(d, o, {reason}) # {}
               THEN d ELSE f
          ELSE IF r # None
          THEN IF \/ d.request[r].answered
                  \/ /\ ActiveCurrent(d, d.request[r].message, Assignee[o], "request_message")
                     /\ d.activations[d.request[r].message].generation = d.obligation[o].generation
               THEN d ELSE SendMessage(d, r)
          ELSE IF d.obligation[o].claim # 0 THEN d ELSE ScheduleObligation(d, o)
  BY DEF RearmObligation
<1>7. reason \in AssignmentReasons
  BY DEF AssignmentReasons
<1> HIDE DEF e
<1> SUFFICES ASSUME Owed(d, o) PROVE e.obligation[o].claim # 0 \/ Noticed(e, o)
  BY <1>5 DEF DebtRouted, e
<1>8. /\ ~ExplicitStop(d, w, Assignee[o]) /\ mode # "waiting"
      /\ ~(d.work[w].mode = "complete" /\ r = None) /\ (mode = "none" => r = None)
  BY DEF Owed, ContinuationAllowed
<1>9. CASE mode = "none"
  <2>1. e = IF d.obligation[o].claim # 0 THEN d ELSE ScheduleObligation(d, o)
    BY <1>6, <1>8, <1>9
  <2>2. Open(d, o)
    BY <1>8, <1>9 DEF Open
  <2> QED BY <1>8, <1>9, <2>1, <2>2, ScheduleObligationKeeps
<1>10. CASE mode # "none"
  <2>1. e = IF \/ mode = "paused" /\ CurrentClaim(d, o) # 0
               \/ ObligationRoutes(d, o, {reason}) # {}
            THEN d ELSE f
    BY <1>6, <1>8, <1>10
  <2>2. CASE mode = "paused" /\ CurrentClaim(d, o) # 0
    BY <2>1, <2>2 DEF CurrentClaim
  <2>3. CASE ObligationRoutes(d, o, {reason}) # {}
    <3>1. PICK i \in Indexes(d) :
            /\ d.activations[i].status \in Active /\ d.activations[i].reason = reason
            /\ d.activations[i].generation = d.obligation[o].generation
            /\ d.activations[i].marks.obligation = o
      BY <2>3 DEF ObligationRoutes
    <3>2. reason # "assignment_recovery" /\ e = d
      BY <2>1, <2>3
    <3>3. CASE d.activations[i].status \in Live
      BY <3>1, <3>2, <3>3 DEF Noticed
    <3>4. CASE d.activations[i].status = "claimed"
      <4>1. Current(d, i, o) /\ NoticeKept(d, i)
        BY <1>1, <3>1, <3>2 DEF Current
      <4>2. i # 0
        BY <1>1, LedgerFields
      <4>3. d.obligation[o].claim = i
        BY <1>2, <3>1, <3>4, <4>1 DEF NoticeKept, Active
      <4> QED BY <3>2, <4>2, <4>3
    <3> QED BY <3>1, <3>3, <3>4 DEF Active
  <2>4. CASE e = f
    <3>1. r \in Request \cup {None} /\ d.obligation[o].generation \in Nat
      BY <1>1, <1>3, LedgerFields DEF DebtRow
    <3>2. marks \in Marks /\ marks.obligation = o
      BY <3>1, ObligationMarks
    <3> HIDE DEF marks, reason
    <3>3. Noticed(f, o)
      BY <1>1, <1>7, <3>1, <3>2, NoticeCreated
    <3> QED BY <2>4, <3>3
  <2> QED BY <2>1, <2>2, <2>3, <2>4
<1> QED BY <1>9, <1>10

\* FoldWithin with its premises and its conclusion as predicates.
StepsAlong(S, L, M, F) ==
  /\ M \in [SUBSET S -> SUBSET L] /\ F \in [S \X L -> L]
  /\ \A s \in SUBSET S : \A x \in s : \A e \in M[s \ {x}] : F[<<x, e>>] \in M[s]
FoldsAlong(S, M, F, b) == \E g : (\A s \in SUBSET S : g[s] \in M[s]) /\ FoldOf(g, S, F, b)

LEMMA FoldAlong ==
  ASSUME NEW S, IsFiniteSet(S), NEW L, NEW M, NEW F, StepsAlong(S, L, M, F), NEW b \in M[{}]
  PROVE  FoldsAlong(S, M, F, b)
<1>1. /\ M \in [SUBSET S -> SUBSET L] /\ F \in [S \X L -> L]
      /\ \A s \in SUBSET S : \A x \in s : \A e \in M[s \ {x}] : F[<<x, e>>] \in M[s]
  BY DEF StepsAlong
<1>2. \E g : (\A s \in SUBSET S : g[s] \in M[s]) /\ FoldOf(g, S, F, b)
  BY <1>1, FoldWithin
<1> QED BY <1>2 DEF FoldsAlong

(***************************************************************************)
(* Redelivery.                                                             *)
(***************************************************************************)
\* A reply that is due is with its return actor, unless that actor is stopped.
Delivered(d, r) ==
  d.request[r].status = "reply_ready" /\ ~ExplicitStop(d, WorkOf[r], ReturnActor[r]) => Held0(d, r)

LEMMA DeliveredStays ==
  ASSUME NEW d, NEW e, NEW P, GoodBut(d, P), Keeps(d, e, P), NEW r \in Request, Delivered(d, r)
  PROVE  Delivered(e, r)
<1>1. Extends(d, e)
  BY DEF Keeps
<1>2. e.request[r].status = "reply_ready" => d.request[r].status = "reply_ready"
  BY <1>1 DEF Extends, RequestExtends
<1>3. ExplicitStop(e, WorkOf[r], ReturnActor[r]) <=> ExplicitStop(d, WorkOf[r], ReturnActor[r])
  BY <1>1 DEF Extends, Frame, ExplicitStop
<1> QED BY <1>2, <1>3, HeldStays DEF Delivered

LEMMA ReplyMissing ==
  ASSUME NEW d, NEW P, GoodBut(d, P), NEW r \in Request, ~Held0(d, r)
  PROVE  NoLiveReply(d, r)
<1> SUFFICES ASSUME NEW i \in Indexes(d), d.activations[i].status \in Live,
                    d.activations[i].marks.request = r,
                    d.activations[i].reason \in {"request_reply", "work_recovery"}
             PROVE  FALSE
  BY DEF NoLiveReply
<1>1. d \in Ledgers /\ Addressed(d, d.activations[i]) /\ LiveKept(d, i) /\ r # None
  BY GoodParts, LedgerConstants
<1>2. CASE d.activations[i].reason = "work_recovery"
  BY <1>1, <1>2 DEF LiveKept, Held0
<1>3. CASE d.activations[i].reason = "request_reply"
  <2>1. d.request[r].reply = i /\ d.activations[i].endpoint = d.generation[d.activations[i].actor]
    BY <1>1, <1>3 DEF LiveKept
  <2>2. d.activations[i].actor = ReturnActor[r]
    BY <1>1, <1>3 DEF Addressed
  <2>3. i # 0
    BY <1>1, LedgerFields
  <2> QED BY <1>3, <2>1, <2>2, <2>3 DEF Held0, ActiveCurrent, Active
<1> QED BY <1>2, <1>3

LEMMA SendReplyKeeps ==
  ASSUME NEW d, NEW P, GoodBut(d, P), NEW r \in Request, NEW c \in SUBSET Outcome,
         d.request[r].status = "reply_ready", ~Held0(d, r)
  PROVE  /\ Keeps(d, SendReply(d, r, c), P) /\ Held0(SendReply(d, r, c), r)
         /\ \A p \in Request \ {r} : /\ SendReply(d, r, c).request[p] = d.request[p]
                                     /\ Held0(SendReply(d, r, c), p) <=> Held0(d, p)
<1> DEFINE e == SendReply(d, r, c)
<1>1. d \in Ledgers /\ \A p \in Request : RequestKept(d, p)
  BY GoodParts
<1>2. e \in Ledgers /\ \E x : ReplySent(d, e, r, x)
  BY <1>1, SendReplySent
<1> HIDE DEF e
<1>3. PICK x : ReplySent(d, e, r, x)
  BY <1>2
<1>4. GoodBut(e, P) /\ Extends(d, e)
  BY <1>2, <1>3, ReplyMissing, ReplyGood
<1>5. /\ Appended(d, e, x) /\ x.actor = ReturnActor[r] /\ x.reason = "request_reply"
      /\ x.endpoint = d.generation[ReturnActor[r]] /\ e.request[r].reply = Len(e.activations)
      /\ \A p \in Request \ {r} : e.request[p] = d.request[p]
  BY <1>3 DEF ReplySent
<1> DEFINE n == Len(e.activations)
<1>6. e.activations[n] = x /\ n # 0 /\ \A i \in Indexes(d) : e.activations[i] = d.activations[i]
  BY <1>1, <1>2, <1>5, AppendedRows
<1>7. x.status = "pending" /\ e.generation = d.generation
  BY <1>5 DEF Appended, Frame
<1> HIDE DEF n
<1>8. Held0(e, r)
  BY <1>5, <1>6, <1>7 DEF Held0, ActiveCurrent, Active, Live, n
<1>9. ASSUME NEW p \in Request \ {r} PROVE Held0(e, p) <=> Held0(d, p)
  <2> DEFINE q == d.request[p].reply
  <2>1. e.request[p].reply = q
    BY <1>5
  <2>2. q = 0 \/ e.activations[q] = d.activations[q]
    BY <1>1, <1>6 DEF RequestKept
  <2> HIDE DEF q
  <2>3. ActiveCurrent(e, q, ReturnActor[p], "request_reply") <=> ActiveCurrent(d, q, ReturnActor[p], "request_reply")
    BY <1>7, <2>2 DEF ActiveCurrent
  <2> QED BY <2>1, <2>3 DEF Held0, q
<1> QED BY <1>4, <1>5, <1>8, <1>9 DEF Keeps, e

LEMMA RedeliverRequestKeeps ==
  ASSUME NEW d, NEW P, GoodBut(d, P), NEW r \in Request
  PROVE  LET e == RedeliverRequest(d, r)
         IN /\ Keeps(d, e, P) /\ Delivered(e, r) /\ MessageRouted(e, r)
            /\ e.results = d.results /\ \A p \in Request \ {r} : e.request[p] = d.request[p]
<1> DEFINE o == DebtOf[r]
           q == d.request[r]
           e == RedeliverRequest(d, r)
           c == {k \in Outcomes(d) : Source(k) = o}
           first == /\ q.status \in {"delivery_pending", "claimed"}
                    /\ ~ExplicitStop(d, WorkOf[r], Assignee[r])
                    /\ ~ActiveCurrent(d, q.message, Assignee[r], "request_message")
                    /\ o # None => d.assignment[o].mode = "none"
           second == /\ q.status = "reply_ready" /\ q.answered
                     /\ ~ExplicitStop(d, WorkOf[r], ReturnActor[r])
                     /\ ~ActiveCurrent(d, q.reply, ReturnActor[r], "request_reply")
<1>1. d \in Ledgers /\ RequestKept(d, r)
  BY GoodParts
<1>2. CASE first
  <2>1. e = SendMessage(d, r)
    <3>1. ~second
      BY <1>2
    <3> QED BY <1>2, <3>1 DEF RedeliverRequest
  <2>2. GoodBut(SendMessage(d, r), P) /\ Extends(d, SendMessage(d, r))
    BY <1>2, SendMessageGood
  <2> DEFINE g == IF DebtOf[r] = None THEN 0 ELSE d.obligation[DebtOf[r]].generation
             x == NewRow(d, WorkOf[r], Assignee[r], "request_message", g, MessageMarks(r))
  <2> HIDE DEF e
  <2>3. /\ e \in Ledgers /\ Appended(d, e, x) /\ e.request[r].status = "delivery_pending"
        /\ e.request[r].message = Len(e.activations)
        /\ \A p \in Request \ {r} : e.request[p] = d.request[p]
    BY <1>1, <2>1, SendMessageEffect
  <2>4. /\ x.actor = Assignee[r] /\ x.reason = "request_message" /\ x.status = "pending"
        /\ x.endpoint = d.generation[Assignee[r]]
    BY DEF NewRow
  <2> HIDE DEF x
  <2>5. /\ Len(e.activations) # 0 /\ e.activations[Len(e.activations)] = x
        /\ e.generation = d.generation /\ e.results = d.results
    BY <1>1, <2>3, AppendedRows DEF Appended, Frame
  <2>6. MessageRouted(e, r)
    BY <2>3, <2>4, <2>5 DEF MessageRouted, ActiveCurrent, Active, Live
  <2> QED BY <2>1, <2>2, <2>3, <2>5, <2>6 DEF Keeps, Delivered, e
<1>3. CASE second
  <2>1. e = SendReply(d, r, c)
    <3>1. ~first
      BY <1>3
    <3> QED BY <1>3, <3>1 DEF RedeliverRequest
  <2>2. c \in SUBSET Outcome
    BY <1>1, OutcomesTyped
  <2> HIDE DEF c, e
  <2>3. Keeps(d, SendReply(d, r, c), P) /\ Held0(SendReply(d, r, c), r)
    BY <1>3, <2>2, SendReplyKeeps DEF Held0
  <2>4. SendReply(d, r, c) \in Ledgers /\ \E x : ReplySent(d, SendReply(d, r, c), r, x)
    BY <1>1, <2>2, SendReplySent
  <2>5. /\ e.results = d.results /\ e.request[r].status = "reply_ready"
        /\ \A p \in Request \ {r} : e.request[p] = d.request[p]
    BY <1>3, <2>1, <2>4 DEF ReplySent, Appended
  <2>6. MessageRouted(e, r)
    BY <2>5 DEF MessageRouted
  <2> QED BY <2>1, <2>3, <2>5, <2>6 DEF Delivered, e
<1>4. CASE ~first /\ ~second
  <2>1. e = d
    BY <1>4 DEF RedeliverRequest
  <2>2. Delivered(d, r)
    BY <1>1, <1>4 DEF Delivered, Held0, RequestKept
  <2>3. MessageRouted(d, r)
    BY <1>4 DEF MessageRouted
  <2> HIDE DEF e
  <2> QED BY <2>1, <2>2, <2>3, KeepsReflexive DEF e
<1> QED BY <1>2, <1>3, <1>4

LEMMA RedeliverRequestsKeep ==
  ASSUME NEW d, NEW P, GoodBut(d, P), NEW requests \in SUBSET Request
  PROVE  /\ Keeps(d, RedeliverRequests(d, requests), P)
         /\ RedeliverRequests(d, requests).results = d.results
         /\ \A r \in requests : /\ Delivered(RedeliverRequests(d, requests), r)
                                /\ MessageRouted(RedeliverRequests(d, requests), r)
<1> DEFINE H(e, r) == RedeliverRequest(e, r)
           S == requests
           L == Kept(d, P)
           J(s) == {e \in Kept(d, P) :
                     e.results = d.results /\ \A r \in s : Delivered(e, r) /\ MessageRouted(e, r)}
           M == [s \in SUBSET S |-> J(s)]
           F == [p \in S \X L |-> IF H(p[2], p[1]) \in L THEN H(p[2], p[1]) ELSE d]
           step(h) == [s \in SUBSET S |-> IF s = {} THEN d ELSE H(h[s \ {Pick(s)}], Pick(s))]
           iter == CHOOSE h : h = step(h)
<1>1. IsFiniteSet(S)
  BY LedgerConstants, FS_Subset
<1>2. d \in L /\ d \in J({}) /\ \A s \in SUBSET S : J(s) \subseteq L
  BY KeptSelf
<1>3. ASSUME NEW s \in SUBSET S, NEW r \in s, NEW e \in J(s \ {r})
      PROVE  H(e, r) \in J(s)
  <2>1. GoodBut(e, P) /\ \A p \in s \ {r} : Delivered(e, p) /\ MessageRouted(e, p)
    BY KeptGood
  <2>2. /\ Keeps(e, H(e, r), P) /\ Delivered(H(e, r), r) /\ MessageRouted(H(e, r), r)
        /\ H(e, r).results = e.results /\ \A p \in Request \ {r} : H(e, r).request[p] = e.request[p]
    BY <2>1, RedeliverRequestKeeps
  <2>3. e \in Kept(d, P)
    OBVIOUS
  <2> HIDE DEF H
  <2>4. \A p \in s \ {r} : Delivered(H(e, r), p) /\ MessageRouted(H(e, r), p)
    BY <2>1, <2>2, DeliveredStays, MessageStays
  <2>5. H(e, r) \in Kept(d, P)
    BY <2>2, <2>3, KeptStep
  <2> QED BY <2>2, <2>4, <2>5
<1> HIDE DEF H, L, S, J
<1>4. StepsAlong(S, L, M, F)
  <2>1. F \in [S \X L -> L]
    BY <1>2
  <2>2. M \in [SUBSET S -> SUBSET L]
    BY <1>2
  <2>3. ASSUME NEW s \in SUBSET S, NEW r \in s, NEW e \in M[s \ {r}] PROVE F[<<r, e>>] \in M[s]
    <3>1. e \in J(s \ {r}) /\ s \ {r} \in SUBSET S
      BY <2>3
    <3>2. H(e, r) \in J(s) /\ H(e, r) \in L /\ e \in L /\ r \in S
      BY <1>2, <1>3, <3>1
    <3>3. M[s] = J(s)
      OBVIOUS
    <3> HIDE DEF M
    <3> QED BY <3>2, <3>3
  <2> HIDE DEF F, M
  <2> QED BY <2>1, <2>2, <2>3 DEF StepsAlong
<1>5. PICK g : (\A s \in SUBSET S : g[s] \in M[s]) /\ FoldOf(g, S, F, d)
  <2>1. d \in M[{}]
    BY <1>2
  <2> HIDE DEF F, M
  <2> QED BY <1>1, <2>1, <1>4, FoldAlong DEF FoldsAlong
<1>6. g = step(g)
  <2>1. ASSUME NEW s \in SUBSET S, s # {}
        PROVE  F[<<Pick(s), g[s \ {Pick(s)}]>>] = H(g[s \ {Pick(s)}], Pick(s))
    <3>1. Pick(s) \in s /\ s \ {Pick(s)} \in SUBSET S
      BY <2>1, PickIn
    <3>2. g[s \ {Pick(s)}] \in J(s \ {Pick(s)})
      BY <1>5, <3>1
    <3>3. H(g[s \ {Pick(s)}], Pick(s)) \in L /\ g[s \ {Pick(s)}] \in L
      BY <1>2, <1>3, <3>1, <3>2
    <3> QED BY <3>1, <3>3
  <2> HIDE DEF F
  <2> QED BY <1>5, <2>1 DEF FoldOf
<1>7. iter = step(iter)
  <2> HIDE DEF step
  <2> QED BY <1>6
<1> HIDE DEF iter
<1>8. iter[S] \in J(S)
  <2>1. iter[{}] = d /\ \A s \in SUBSET S : s # {} => iter[s] = H(iter[s \ {Pick(s)}], Pick(s))
    BY <1>7
  <2>2. \A s \in SUBSET S : M[s] = J(s)
    OBVIOUS
  <2> HIDE DEF step, M
  <2>3. ASSUME NEW s \in SUBSET S, s # {}, iter[s \ {Pick(s)}] \in M[s \ {Pick(s)}]
        PROVE  iter[s] \in M[s]
    <3>1. Pick(s) \in s /\ s \ {Pick(s)} \in SUBSET S
      BY <2>3, PickIn
    <3>2. iter[s \ {Pick(s)}] \in J(s \ {Pick(s)})
      BY <2>2, <2>3, <3>1
    <3>3. H(iter[s \ {Pick(s)}], Pick(s)) \in J(s)
      BY <1>3, <3>1, <3>2
    <3> QED BY <2>1, <2>2, <2>3, <3>3
  <2>4. iter[{}] \in M[{}]
    BY <1>2, <2>1, <2>2
  <2>5. \A s \in SUBSET S : iter[s] \in M[s]
    BY <1>1, <2>3, <2>4, FoldKeeps
  <2> QED BY <2>2, <2>5
<1>9. RedeliverRequests(d, requests) = iter[S]
  BY DEF RedeliverRequests, FoldSet, MapThenFoldSet, Pick, iter, S, H
<1> QED BY <1>8, <1>9, KeptGood DEF J, S


(***************************************************************************)
(* Rearming: a continuation, and the routes that a stop had revoked.       *)
(***************************************************************************)
LEMMA ContinuationKeeps ==
  ASSUME NEW d, NEW P, GoodBut(d, P), NEW w \in Work, d.work[w].mode = "continue"
  PROVE  Keeps(d, Create(d, w, d.work[w].owner, "continue_checkpoint", 0, NoMarks), P)
<1> DEFINE a == d.work[w].owner
           x == NewRow(d, w, a, "continue_checkpoint", 0, NoMarks)
<1>1. d \in Ledgers /\ WorkKept(d, w)
  BY GoodParts
<1>2. a \in Actor
  BY <1>1 DEF WorkKept
<1>3. d.generation[a] \in Nat
  BY <1>1, <1>2, LedgerFields
<1>4. NoMarks \in Marks /\ NoMarks.request = None /\ NoMarks.obligation = None
  BY MarksTyped DEF NoMarks
<1>5. /\ x.work = w /\ x.actor = a /\ x.reason = "continue_checkpoint" /\ x.marks = NoMarks
      /\ x.endpoint = d.generation[a]
  BY DEF NewRow
<1> HIDE DEF x
<1>6. Addressed(d, x)
  BY <1>3, <1>4, <1>5 DEF Addressed, OwnerControl
<1>7. Fits(d, x) /\ Allowed(d, x)
  BY <1>4, <1>5 DEF Fits, Allowed
<1>8. "continue_checkpoint" \in Reasons \ (Recovery \cup {"request_reply"})
  BY DEF Reasons, Recovery, OwnerControl
<1> HIDE DEF a
<1> QED BY <1>2, <1>4, <1>6, <1>7, <1>8, CreateGood DEF Keeps, x, a

\* A row for the owner under its present authority.
LEMMA OwnerCreated ==
  ASSUME NEW d \in Ledgers, NEW w \in Work, d.work[w].owner \in Actor, NEW reason \in OwnerControl,
         NEW marks \in Marks
  PROVE  OwnerRouted(Create(d, w, d.work[w].owner, reason, 0, marks), w)
<1> DEFINE a == d.work[w].owner
           e == Create(d, w, a, reason, 0, marks)
           x == NewRow(d, w, a, reason, 0, marks)
<1>1. reason \in Reasons
  BY DEF Reasons
<1>2. e \in Ledgers /\ Appended(d, e, x)
  BY <1>1, CreateEffect
<1>3. /\ x.work = w /\ x.actor = a /\ x.reason = reason /\ x.status = "pending"
      /\ x.revision = d.work[w].revision /\ x.endpoint = d.generation[a]
  BY DEF NewRow
<1>4. e.work = d.work /\ e.generation = d.generation
  BY <1>2 DEF Appended, Frame
<1> HIDE DEF e, x
<1>5. \E n \in Indexes(e) : e.activations[n] = x
  <2>1. LET n == Len(d.activations) + 1 IN n \in Indexes(e) /\ e.activations[n] = x
    BY <1>2, AppendedRows
  <2> QED BY <2>1
<1>6. OwnerRoute(e, w, x)
  BY <1>3, <1>4 DEF OwnerRoute, Active, Live
<1> QED BY <1>5, <1>6 DEF OwnerRouted, e

LEMMA RoutesOfOwner ==
  ASSUME NEW d, NEW w, NEW reason \in OwnerControl, OwnerRoutes(d, w, reason) # {}
  PROVE  OwnerRouted(d, w)
BY DEF OwnerRoutes, OwnerRoute, OwnerRouted

LEMMA RearmsKeep ==
  ASSUME NEW d, NEW P, GoodBut(d, P),
         NEW debts \in SUBSET {o \in Obligation \ P : d.obligation[o].status = "open"}
  PROVE  /\ Keeps(d, FoldSet(LAMBDA o, e : RearmObligation(e, o), d, debts), P)
         /\ \A y \in debts :
              DebtRouted(FoldSet(LAMBDA o, e : RearmObligation(e, o), d, debts), y)
<1> DEFINE H(e, o) == RearmObligation(e, o)
           S == debts
           L == Kept(d, P)
           Q == [o \in S |-> {e \in L : DebtRouted(e, o)}]
           F == [p \in S \X L |-> H(p[2], p[1])]
           step(h) == [s \in SUBSET S |-> IF s = {} THEN d ELSE H(h[s \ {Pick(s)}], Pick(s))]
           iter == CHOOSE h : h = step(h)
<1>1. IsFiniteSet(S)
  BY LedgerConstants, FS_Subset
<1>2. d \in L
  BY KeptSelf
<1>3. ASSUME NEW o \in S, NEW e \in L 
      PROVE  /\ H(e, o) \in L /\ DebtRouted(H(e, o), o)
             /\ \A y \in S : DebtRouted(e, y) => DebtRouted(H(e, o), y)
  <2>1. Keeps(e, H(e, o), P) /\ DebtRouted(H(e, o), o)
    <3>1. GoodBut(e, P) /\ Frame(d, e)
      BY KeptGood
    <3>2. e.obligation[o].status = "open" /\ o \in Obligation \ P
      BY <3>1 DEF Frame
    <3> QED BY <3>1, <3>2, RearmObligationKeeps, RearmRoutes
  <2>2. e \in Ledgers
    BY KeptGood
  <2> HIDE DEF H
  <2>3. \A y \in S : DebtRouted(e, y) => DebtRouted(H(e, o), y)
    <3>1. Routes(e, H(e, o), {}, {})
      BY <2>1, <2>2, KeepsRoutes
    <3> QED BY <3>1 DEF Routes
  <2> QED BY <2>1, <2>3, KeptStep
<1>4. StepsIn(S, L, F)
  BY <1>3 DEF StepsIn
<1> HIDE DEF H, L, S, Q
<1>5. PICK g : (\A s \in SUBSET S : g[s] \in L) /\ FoldOf(g, S, F, d)
  <2> HIDE DEF F
  <2> QED BY <1>1, <1>2, <1>4, FoldIn DEF FoldsIn
<1>6. g = step(g)
  BY <1>5, PickIn DEF FoldOf
<1>7. iter = step(iter)
  <2> HIDE DEF step
  <2> QED BY <1>6
<1> HIDE DEF iter
<1>8. iter[S] \in L /\ \A y \in S : DebtRouted(iter[S], y)
  <2>1. iter[{}] \in L /\ \A s \in SUBSET S : s # {} => iter[s] = H(iter[s \ {Pick(s)}], Pick(s))
    BY <1>2, <1>7
  <2> HIDE DEF step
  <2>2. \A y \in S : Q[y] = {e \in L : DebtRouted(e, y)}
    BY DEF Q
  <2>3. ASSUME NEW s \in SUBSET S, s # {}, iter[s \ {Pick(s)}] \in L
        PROVE  /\ iter[s] \in L /\ iter[s] \in Q[Pick(s)]
               /\ \A y \in S : iter[s \ {Pick(s)}] \in Q[y] => iter[s] \in Q[y]
    <3>1. Pick(s) \in S /\ iter[s] = H(iter[s \ {Pick(s)}], Pick(s))
      BY <2>1, <2>3, PickIn
    <3> QED BY <1>3, <2>2, <2>3, <3>1
  <2>4. iter[S] \in L /\ \A y \in S : iter[S] \in Q[y]
    BY <1>1, <2>1, <2>3, FoldReaches
  <2> QED BY <2>2, <2>4
<1>9. FoldSet(LAMBDA o, e : RearmObligation(e, o), d, debts) = iter[S]
  BY DEF FoldSet, MapThenFoldSet, Pick, iter, S, H
<1> QED BY <1>8, <1>9, KeptGood DEF L, S

LEMMA RearmWorkKeeps ==
  ASSUME NEW d, GoodBut(d, {}), NEW w \in Work
  PROVE  /\ Keeps(d, RearmWork(d, w), {}) /\ OwnerRouted(RearmWork(d, w), w)
         /\ \A o \in Obligation : WorkOf[o] = w => DebtRouted(RearmWork(d, w), o)
<1> DEFINE e == RedeliverRequests(d, RequestsOf(w))
           owner == e.work[w].owner
           f == IF ExplicitStop(e, w, owner) THEN e
                ELSE IF e.work[w].mode = "continue" THEN ContinueWork(e, w)
                ELSE EvaluateWait(e, w)
           debts == {o \in Obligation : WorkOf[o] = w /\ d.obligation[o].status = "open"}
           h == FoldSet(LAMBDA o, g : RearmObligation(g, o), f, debts)
<1>1. Keeps(d, e, {})
  BY RedeliverRequestsKeep DEF RequestsOf
<1>2. h = RearmWork(d, w)
  BY DEF RearmWork
<1> HIDE DEF e
<1>3. GoodBut(e, {})
  BY <1>1 DEF Keeps
<1>4. Keeps(e, f, {})
  <2>1. Keeps(e, e, {}) /\ Keeps(e, EvaluateWait(e, w), {})
    BY <1>3, KeepsReflexive, EvaluateWaitKeeps
  <2>2. e.work[w].mode = "continue" => Keeps(e, ContinueWork(e, w), {})
    BY <1>3, <2>1, ContinuationKeeps DEF ContinueWork
  <2> QED BY <2>1, <2>2
<1>9. OwnerRouted(f, w)
  <2>1. e \in Ledgers /\ WorkKept(e, w) /\ Frame(e, f)
    BY <1>3, <1>4, GoodParts DEF Keeps, Extends
  <2>2. CASE ExplicitStop(e, w, owner) \/ e.work[w].mode # "continue"
    BY <2>1, <2>2 DEF OwnerRouted, Continues, ExplicitStop, Frame
  <2>3. CASE ~ExplicitStop(e, w, owner) /\ e.work[w].mode = "continue"
    <3>1. f = ContinueWork(e, w)
      BY <2>3
    <3>2. "continue_checkpoint" \in OwnerControl /\ owner \in Actor /\ NoMarks \in Marks
      BY <2>1, <2>3, MarksTyped DEF OwnerControl, WorkKept
    <3> HIDE DEF f, owner
    <3>3. CASE OwnerRoutes(e, w, "continue_checkpoint") # {}
      BY <3>1, <3>2, <3>3, RoutesOfOwner DEF ContinueWork
    <3>4. CASE OwnerRoutes(e, w, "continue_checkpoint") = {}
      <4>1. f = Create(e, w, owner, "continue_checkpoint", 0, NoMarks)
        BY <3>1, <3>4 DEF ContinueWork, owner
      <4> QED BY <2>1, <3>2, <4>1, OwnerCreated DEF owner
    <3> QED BY <3>3, <3>4
  <2> QED BY <2>2, <2>3
<1> HIDE DEF f
<1>5. Keeps(d, f, {})
  BY <1>1, <1>4, KeepsTransitive
<1>6. f.obligation = d.obligation /\ GoodBut(f, {})
  BY <1>5 DEF Keeps, Extends, Frame
<1>7. debts \in SUBSET {o \in Obligation \ {} : f.obligation[o].status = "open"}
  BY <1>6
<1> HIDE DEF debts
<1>8. Keeps(f, h, {}) /\ \A o \in debts : DebtRouted(h, o)
  BY <1>6, <1>7, RearmsKeep
<1> HIDE DEF h
<1>10. OwnerRouted(h, w)
  <2>1. Routes(f, h, {}, {})
    BY <1>6, <1>8, KeepsRoutes DEF GoodBut, Good
  <2> QED BY <1>9, <2>1 DEF Routes
<1>11. ASSUME NEW o \in Obligation, WorkOf[o] = w PROVE DebtRouted(h, o)
  <2>1. h.obligation = d.obligation
    BY <1>6, <1>8 DEF Keeps, Extends, Frame
  <2>2. CASE d.obligation[o].status = "open"
    BY <1>8, <1>11, <2>2 DEF debts
  <2>3. CASE d.obligation[o].status # "open"
    BY <2>1, <2>3 DEF DebtRouted, Owed
  <2> QED BY <2>2, <2>3
<1> QED BY <1>2, <1>5, <1>8, <1>10, <1>11, KeepsTransitive

\* The owner and the assignees of a work.
WorkRouted(d, w) ==
  OwnerRouted(d, w) /\ \A o \in Obligation : WorkOf[o] = w => DebtRouted(d, o)

LEMMA RearmScopeKeeps ==
  ASSUME NEW d, NEW P, P = {}, GoodBut(d, P), NEW scope
  PROVE  /\ Keeps(d, RearmScope(d, scope), P)
         /\ \A w \in WorksOfScope(d, scope) : WorkRouted(RearmScope(d, scope), w)
<1> DEFINE H(e, w) == RearmWork(e, w)
           S == WorksOfScope(d, scope)
           L == Kept(d, P)
           Q == [w \in S |-> {e \in L : WorkRouted(e, w)}]
           F == [p \in S \X L |-> H(p[2], p[1])]
           step(h) == [s \in SUBSET S |-> IF s = {} THEN d ELSE H(h[s \ {Pick(s)}], Pick(s))]
           iter == CHOOSE h : h = step(h)
<1>1. IsFiniteSet(S)
  BY LedgerConstants, FS_Subset DEF WorksOfScope
<1>2. d \in L
  BY KeptSelf
<1>3. ASSUME NEW w \in S, NEW e \in L 
      PROVE  /\ H(e, w) \in L /\ WorkRouted(H(e, w), w)
             /\ \A y \in S : WorkRouted(e, y) => WorkRouted(H(e, w), y)
  <2>1. Keeps(e, H(e, w), P) /\ WorkRouted(H(e, w), w)
    BY KeptGood, RearmWorkKeeps DEF WorksOfScope, WorkRouted
  <2>2. e \in Ledgers /\ S \subseteq Work
    BY KeptGood DEF WorksOfScope
  <2> HIDE DEF H, S
  <2>3. \A y \in S : WorkRouted(e, y) => WorkRouted(H(e, w), y)
    <3>1. Routes(e, H(e, w), {}, {})
      BY <2>1, <2>2, KeepsRoutes
    <3> QED BY <2>2, <3>1 DEF Routes, WorkRouted
  <2> QED BY <2>1, <2>3, KeptStep
<1>4. StepsIn(S, L, F)
  BY <1>3 DEF StepsIn
<1> HIDE DEF H, L, S, Q
<1>5. PICK g : (\A s \in SUBSET S : g[s] \in L) /\ FoldOf(g, S, F, d)
  <2> HIDE DEF F
  <2> QED BY <1>1, <1>2, <1>4, FoldIn DEF FoldsIn
<1>6. g = step(g)
  BY <1>5, PickIn DEF FoldOf
<1>7. iter = step(iter)
  <2> HIDE DEF step
  <2> QED BY <1>6
<1> HIDE DEF iter
<1>8. iter[S] \in L /\ \A y \in S : WorkRouted(iter[S], y)
  <2>1. iter[{}] \in L /\ \A s \in SUBSET S : s # {} => iter[s] = H(iter[s \ {Pick(s)}], Pick(s))
    BY <1>2, <1>7
  <2> HIDE DEF step
  <2>2. \A y \in S : Q[y] = {e \in L : WorkRouted(e, y)}
    BY DEF Q
  <2>3. ASSUME NEW s \in SUBSET S, s # {}, iter[s \ {Pick(s)}] \in L
        PROVE  /\ iter[s] \in L /\ iter[s] \in Q[Pick(s)]
               /\ \A y \in S : iter[s \ {Pick(s)}] \in Q[y] => iter[s] \in Q[y]
    <3>1. Pick(s) \in S /\ iter[s] = H(iter[s \ {Pick(s)}], Pick(s))
      BY <2>1, <2>3, PickIn
    <3> QED BY <1>3, <2>2, <2>3, <3>1
  <2>4. iter[S] \in L /\ \A y \in S : iter[S] \in Q[y]
    BY <1>1, <2>1, <2>3, FoldReaches
  <2> QED BY <2>2, <2>4
<1>9. RearmScope(d, scope) = iter[S]
  BY DEF RearmScope, FoldSet, MapThenFoldSet, Pick, iter, S, H
<1> QED BY <1>8, <1>9, KeptGood DEF L, S

(***************************************************************************)
(* Recovery.                                                               *)
(***************************************************************************)
LEMMA NudgeAssignmentKeeps ==
  ASSUME NEW d, NEW P, GoodBut(d, P), NEW o \in Obligation \ P, NEW due,
         d.obligation[o].status = "open", d.obligation[o].claim # 0, WorkOf[o] \in d.armed
  PROVE  Keeps(d, NudgeAssignment(d, o, due), P)
<1> DEFINE w == WorkOf[o]
           a == Assignee[o]
           r == RequestOf(o)
           mode == d.assignment[o].mode
           e == IF mode = "waiting" THEN EvaluateAssignmentWait(d, o) ELSE d
           source == d.obligation[o].claim
           stopped == IF r # None THEN ExplicitStop(d, w, a) ELSE RecoveryStop(d, w, a)
           g == e.obligation[o].generation
           marks == [NoMarks EXCEPT !.request = r, !.obligation = o]
           f == Nudge(e, source, due, "assignment_recovery", w, a, g, marks)
           x == NewRow(e, w, a, "assignment_recovery", g, marks)
<1>1. Keeps(d, e, P)
  BY KeepsReflexive, EvaluateAssignmentWaitKeeps
<1>2. NudgeAssignment(d, o, due) = d \/ NudgeAssignment(d, o, due) = e
      \/ (NudgeAssignment(d, o, due) = f /\ ~stopped)
  <2>1. NudgeAssignment(d, o, due) =
          IF stopped \/ mode = "paused" THEN d
          ELSE IF mode = "waiting" /\ ~(/\ AssignmentSatisfied(e, o)
                                        /\ e.activations[source].status = "claimed"
                                        /\ e.activations[source].reason = "assignment_wait_satisfied")
               THEN e ELSE f
    BY DEF NudgeAssignment
  <2> HIDE DEF e, f, mode, source
  <2> QED BY <2>1
<1> HIDE DEF e
<1>3. GoodBut(e, P) /\ e.obligation = d.obligation /\ e.work = d.work /\ e.armed = d.armed
  BY <1>1 DEF Keeps, Extends, Frame
<1>4. /\ e \in Ledgers /\ DebtKept(e, o) /\ \A q \in Request : RequestKept(e, q)
  BY <1>3, GoodParts
<1>5. w \in Work /\ a \in Actor /\ o # None
  BY LedgerConstants
<1>6. e.obligation[o] \in DebtRow /\ e.generation[a] \in Nat
  BY <1>4, <1>5, LedgerFields
<1>7. source \in Nat /\ source \in Indexes(e) /\ g \in Nat /\ e.work[w].mode # "none"
      /\ e.obligation[o].claim = source
  BY <1>3, <1>4, <1>6 DEF DebtRow, DebtKept
<1>8. r \in Request \cup {None} /\ (r # None => DebtOf[r] = o)
  BY DEF RequestOf
<1>9. marks \in Marks /\ marks.obligation = o /\ marks.request = r
  BY <1>8, ObligationMarks
<1>10. marks.outcomes = {} /\ marks.after = 0
  BY DEF NoMarks
<1>11. /\ x.work = w /\ x.actor = a /\ x.reason = "assignment_recovery" /\ x.marks = marks
       /\ x.generation = g /\ x.endpoint = e.generation[a]
  BY DEF NewRow
<1>12. r # None => WorkOf[r] = w /\ e.request[r].status # "none"
  <2> SUFFICES ASSUME r # None PROVE WorkOf[r] = w /\ e.request[r].status # "none"
    OBVIOUS
  <2>1. r \in Request /\ DebtOf[r] = o /\ WorkOf[o] = WorkOf[r]
    BY <1>5, <1>8, LedgerConstants
  <2>2. RequestKept(e, r)
    BY <1>4, <2>1
  <2> QED BY <1>3, <1>5, <2>1, <2>2 DEF RequestKept
<1> HIDE DEF x, g, marks
<1>13. Addressed(e, x)
  BY <1>3, <1>5, <1>6, <1>7, <1>9, <1>11, <1>12 DEF Addressed, AssignmentReasons, OwnerControl, Recovery, g
<1>14. ~stopped => Allowed(e, x)
  BY <1>3, <1>5, <1>9, <1>11 DEF Allowed, RecoveryStop, g
<1>15. NudgeAbout(e, source, x)
  BY <1>3, <1>5, <1>7, <1>9, <1>10, <1>11 DEF NudgeAbout
<1>16. "assignment_recovery" \in Recovery
  BY DEF Recovery
<1> HIDE DEF f, w, a, r, source, stopped
<1>17. ~stopped => Keeps(e, f, P)
  BY <1>3, <1>5, <1>7, <1>9, <1>13, <1>14, <1>15, <1>16, NudgeGood DEF Keeps, f, x
<1>18. ~stopped => Keeps(d, f, P)
  BY <1>1, <1>17, KeepsTransitive
<1> QED BY <1>1, <1>2, <1>18, KeepsReflexive

LEMMA NudgeReplyKeeps ==
  ASSUME NEW d, NEW P, GoodBut(d, P), NEW r \in Request, NEW due,
         ~ExplicitStop(d, WorkOf[r], ReturnActor[r]) =>
            /\ d.request[r].status = "reply_ready" /\ Held0(d, r)
            /\ d.activations[d.request[r].reply].status = "claimed",
         WorkOf[r] \in d.armed
  PROVE  Keeps(d, NudgeReply(d, r, due), P)
<1> DEFINE w == WorkOf[r]
           a == ReturnActor[r]
           source == d.request[r].reply
           marks == [NoMarks EXCEPT !.request = r, !.after = source]
           f == Nudge(d, source, due, "work_recovery", w, a, 0, marks)
           x == NewRow(d, w, a, "work_recovery", 0, marks)
<1>1. CASE ExplicitStop(d, w, a)
  BY <1>1, KeepsReflexive DEF NudgeReply
<1>2. CASE ~ExplicitStop(d, w, a)
  <2>1. /\ d \in Ledgers /\ RequestKept(d, r)
        /\ \A i \in Indexes(d) : Addressed(d, d.activations[i])
    BY GoodParts
  <2>2. /\ d.request[r].status = "reply_ready" /\ Held0(d, r)
        /\ d.activations[source].status = "claimed"
    BY <1>2
  <2>3. w \in Work /\ a \in Actor /\ r # None /\ source \in Nat
    BY <2>1, LedgerFields, LedgerConstants DEF RequestRow
  <2>4. source \in Indexes(d) /\ d.activations[source].marks.request = r /\ d.request[r].answered
        /\ d.work[w].mode # "none"
    BY <2>1, <2>2 DEF RequestKept, Held0, ActiveCurrent
  <2>5. d.activations[source].work = w
    BY <2>1, <2>3, <2>4 DEF Addressed
  <2>6. marks \in Marks
    BY <2>3, MarksTyped
  <2>7. marks.request = r /\ marks.obligation = None /\ marks.after = source /\ marks.outcomes = {}
    BY DEF NoMarks
  <2>8. /\ x.work = w /\ x.actor = a /\ x.reason = "work_recovery" /\ x.marks = marks
        /\ x.endpoint = d.generation[a]
    BY DEF NewRow
  <2>9. d.generation[a] \in Nat
    BY <2>1, <2>3, LedgerFields
  <2> HIDE DEF x, marks
  <2>10. Addressed(d, x)
    BY <2>2, <2>3, <2>4, <2>7, <2>8, <2>9 DEF Addressed, OwnerControl
  <2>11. Allowed(d, x) /\ NudgeAbout(d, source, x)
    BY <2>2, <2>3, <2>4, <2>5, <2>7, <2>8 DEF Allowed, NudgeAbout
  <2>12. "work_recovery" \in Recovery /\ 0 \in Nat
    BY DEF Recovery
  <2>13. NudgeReply(d, r, due) = f
    BY <1>2 DEF NudgeReply, marks
  <2> HIDE DEF f, w, a, source
  <2>14. Keeps(d, f, P)
    BY <2>3, <2>6, <2>10, <2>11, <2>12, NudgeGood DEF Keeps, f, x
  <2> QED BY <2>13, <2>14
<1> QED BY <1>1, <1>2

\* Of finitely many claims one is the latest.
LEMMA LatestClaim ==
  ASSUME NEW I, IsFiniteSet(I), I # {}, NEW turn \in [I -> Nat]
  PROVE  \E i \in I : \A j \in I : turn[j] <= turn[i]
<1> DEFINE Top(t) == \E i \in t : \A j \in t : turn[j] <= turn[i]
           Wrong == {t \in SUBSET I : t # {} /\ ~Top(t)}
<1> SUFFICES ASSUME ~Top(I) PROVE FALSE
  OBVIOUS
<1>1. Wrong \subseteq SUBSET I /\ I \in Wrong
  OBVIOUS
<1>2. PICK t \in Wrong : \A x \in t : t \ {x} \notin Wrong
  <2> HIDE DEF Wrong
  <2> QED BY <1>1, SmallestSet
<1>3. PICK x \in t : TRUE
  OBVIOUS
<1>4. t \ {x} = {} \/ Top(t \ {x})
  BY <1>2
<1>5. CASE t \ {x} = {}
  <2>1. t = {x}
    BY <1>5
  <2> QED BY <1>2, <2>1
<1>6. CASE Top(t \ {x})
  <2>1. PICK m \in t \ {x} : \A j \in t \ {x} : turn[j] <= turn[m]
    BY <1>6
  <2>2. turn[m] \in Nat /\ turn[x] \in Nat /\ \A j \in t : turn[j] \in Nat
    BY <1>2, <1>3, <2>1
  <2>3. CASE turn[x] <= turn[m]
    BY <1>2, <2>1, <2>3
  <2>4. CASE turn[m] <= turn[x]
    <3>1. \A j \in t : turn[j] <= turn[x]
      BY <2>1, <2>2, <2>4
    <3> QED BY <1>2, <1>3, <3>1
  <2> QED BY <2>2, <2>3, <2>4
<1> QED BY <1>4, <1>5, <1>6

LEMMA NudgeNote ==
  ASSUME NEW d \in Ledgers, NEW source \in Nat, NEW due, NEW reason \in Recovery,
         NEW w \in Work, NEW a \in Actor, NEW g \in Nat, NEW marks \in Marks
  PROVE  Nudge(d, source, due, reason, w, a, g, marks).replyOwner = d.replyOwner
<1>1. reason \in Reasons
  BY DEF Reasons
<1>2. Create(d, w, a, reason, g, marks).replyOwner = d.replyOwner
  BY <1>1, CreateEffect
<1> QED BY <1>2 DEF Nudge

LEMMA NudgeOwnerKeeps ==
  ASSUME NEW d, NEW P, GoodBut(d, P), NEW w \in Work, NEW due, w \in d.armed,
         d.work[w].mode \in {"continue", "waiting"}, OwnerSources(d, w) # {}
  PROVE  Keeps(d, NudgeOwner(d, w, due), P) /\ NudgeOwner(d, w, due).replyOwner = d.replyOwner
<1> DEFINE I == OwnerSources(d, w)
           a == d.work[w].owner
           source == CHOOSE i \in I : \A j \in I : d.activations[j].turn <= d.activations[i].turn
           marks == [NoMarks EXCEPT !.after = source]
           f == Nudge(d, source, due, "work_recovery", w, a, 0, marks)
           x == NewRow(d, w, a, "work_recovery", 0, marks)
<1>1. d \in Ledgers /\ WorkKept(d, w)
  BY GoodParts
<1>2. a \in Actor
  BY <1>1 DEF WorkKept
<1>3. I \subseteq Indexes(d) /\ \A i \in I : d.activations[i].work = w
  BY DEF OwnerSources
<1>4. source \in I
  <2> DEFINE turn == [i \in I |-> d.activations[i].turn]
  <2>1. IsFiniteSet(I)
    <3>1. Indexes(d) = 1..Len(d.activations) /\ Len(d.activations) \in Nat
      BY <1>1, LedgerFields
    <3>2. IsFiniteSet(Indexes(d))
      BY <3>1, FS_Interval
    <3> QED BY <1>3, <3>2, FS_Subset
  <2>2. turn \in [I -> Nat]
    BY <1>1, <1>3, LedgerFields DEF Row
  <2> HIDE DEF I
  <2>3. \A i \in I : turn[i] = d.activations[i].turn
    OBVIOUS
  <2> HIDE DEF turn
  <2>4. \E i \in I : \A j \in I : turn[j] <= turn[i]
    BY <2>1, <2>2, LatestClaim DEF I
  <2>5. \E i \in I : \A j \in I : d.activations[j].turn <= d.activations[i].turn
    BY <2>3, <2>4
  <2> QED BY <2>5
<1>6. NudgeOwner(d, w, due) = d \/ NudgeOwner(d, w, due) = f
  BY DEF NudgeOwner
<1> HIDE DEF I, source
<1>5. source \in Indexes(d) /\ d.activations[source].work = w /\ source \in Nat
  <2>1. Indexes(d) = 1..Len(d.activations) /\ Len(d.activations) \in Nat
    BY <1>1, LedgerFields
  <2> QED BY <1>3, <1>4, <2>1
<1>7. marks \in Marks
  BY <1>5, MarksTyped
<1>8. marks.request = None /\ marks.obligation = None /\ marks.after = source /\ marks.outcomes = {}
  BY DEF NoMarks
<1>9. /\ x.work = w /\ x.actor = a /\ x.reason = "work_recovery" /\ x.marks = marks
      /\ x.endpoint = d.generation[a]
  BY DEF NewRow
<1>10. d.generation[a] \in Nat
  BY <1>1, <1>2, LedgerFields
<1> HIDE DEF x, marks
<1>11. Addressed(d, x)
  BY <1>8, <1>9, <1>10 DEF Addressed, OwnerControl
<1>12. Allowed(d, x) /\ NudgeAbout(d, source, x)
  BY <1>5, <1>8, <1>9 DEF Allowed, NudgeAbout
<1>13. "work_recovery" \in Recovery /\ 0 \in Nat
  BY DEF Recovery
<1> HIDE DEF f, a
<1>14. Keeps(d, f, P)
  BY <1>2, <1>5, <1>7, <1>11, <1>12, <1>13, NudgeGood DEF Keeps, f, x
<1>15. f.replyOwner = d.replyOwner
  <2>1. "work_recovery" \in Recovery /\ 0 \in Nat /\ d \in Ledgers /\ w \in Work
    BY <1>1, <1>13
  <2> DEFINE k == Nudge(d, source, due, "work_recovery", w, d.work[w].owner, 0, marks)
  <2>2. d.work[w].owner \in Actor
    BY <1>2 DEF a
  <2>3. k.replyOwner = d.replyOwner
    BY <1>5, <1>7, <2>1, <2>2, NudgeNote
  <2>4. f = k
    BY DEF f, a
  <2> HIDE DEF k
  <2> QED BY <2>3, <2>4
<1> QED BY <1>6, <1>14, <1>15, KeepsReflexive

\* The three loops of an inspection.
NudgeAssignments(d, due) ==
  FoldSet(LAMBDA o, x : NudgeAssignment(x, o, due), d, ClaimedAssignments(d))
NudgeReplies(d, due) == FoldSet(LAMBDA r, x : NudgeReply(x, r, due), d, ClaimedReplies(d))
NudgeOwners(d, due) == FoldSet(LAMBDA w, x : NudgeOwner(x, w, due), d, ClaimedWorks(d))

LEMMA AssignmentNudgesKeep ==
  ASSUME NEW d, NEW P, P = {}, GoodBut(d, P), NEW due
  PROVE  Keeps(d, NudgeAssignments(d, due), P)
<1> DEFINE H(e, o) == NudgeAssignment(e, o, due)
           S == ClaimedAssignments(d)
           L == Kept(d, P)
           F == [p \in S \X L |-> H(p[2], p[1])]
           step(h) == [s \in SUBSET S |-> IF s = {} THEN d ELSE H(h[s \ {Pick(s)}], Pick(s))]
           iter == CHOOSE h : h = step(h)
<1>1. IsFiniteSet(S)
  BY LedgerConstants, FS_Subset DEF ClaimedAssignments
<1>2. d \in L
  BY KeptSelf
<1>3. ASSUME NEW o \in S, NEW e \in L PROVE H(e, o) \in L
  <2>1. Keeps(e, H(e, o), P)
    <3>1. GoodBut(e, P) /\ Frame(d, e)
      BY KeptGood
    <3>2. /\ o \in Obligation \ P /\ e.obligation[o].status = "open" /\ e.obligation[o].claim # 0
          /\ WorkOf[o] \in e.armed
      BY <3>1 DEF Frame, ClaimedAssignments
    <3> QED BY <3>1, <3>2, NudgeAssignmentKeeps
  <2> HIDE DEF H
  <2> QED BY <2>1, KeptStep
<1>4. StepsIn(S, L, F)
  BY <1>3 DEF StepsIn
<1> HIDE DEF H, L, S
<1>5. PICK g : (\A s \in SUBSET S : g[s] \in L) /\ FoldOf(g, S, F, d)
  <2> HIDE DEF F
  <2> QED BY <1>1, <1>2, <1>4, FoldIn DEF FoldsIn
<1>6. g = step(g)
  BY <1>5, PickIn DEF FoldOf
<1>7. iter = step(iter)
  <2> HIDE DEF step
  <2> QED BY <1>6
<1> HIDE DEF iter
<1>8. iter[S] \in L
  <2>1. iter[{}] \in L /\ \A s \in SUBSET S : s # {} => iter[s] = H(iter[s \ {Pick(s)}], Pick(s))
    BY <1>2, <1>7
  <2> HIDE DEF step
  <2>2. \A s \in SUBSET S : s # {} /\ iter[s \ {Pick(s)}] \in L => iter[s] \in L
    BY <1>3, <2>1, PickIn
  <2> QED BY <1>1, <2>1, <2>2, FoldStays
<1>9. NudgeAssignments(d, due) = iter[S]
  BY DEF NudgeAssignments, FoldSet, MapThenFoldSet, Pick, iter, S, H
<1> QED BY <1>8, <1>9, KeptGood DEF L

LEMMA ReplyNudgesKeep ==
  ASSUME NEW d, NEW P, GoodBut(d, P), NEW due, \A r \in Request : Delivered(d, r)
  PROVE  Keeps(d, NudgeReplies(d, due), P)
<1> DEFINE H(e, r) == NudgeReply(e, r, due)
           S == ClaimedReplies(d)
           L == Kept(d, P)
           F == [p \in S \X L |-> H(p[2], p[1])]
           step(h) == [s \in SUBSET S |-> IF s = {} THEN d ELSE H(h[s \ {Pick(s)}], Pick(s))]
           iter == CHOOSE h : h = step(h)
<1>1. IsFiniteSet(S)
  BY LedgerConstants, FS_Subset DEF ClaimedReplies
<1>2. d \in L
  BY KeptSelf
<1>3. ASSUME NEW r \in S, NEW e \in L PROVE H(e, r) \in L
  <2>1. Keeps(e, H(e, r), P)
    <3>1. GoodBut(e, P) /\ Keeps(d, e, P) /\ Extends(d, e) /\ Frame(d, e)
      BY KeptGood
    <3>2. /\ r \in Request /\ d.request[r].status = "reply_ready" /\ d.request[r].reply # 0
          /\ d.activations[d.request[r].reply].status = "claimed" /\ WorkOf[r] \in e.armed
      BY <3>1 DEF Frame, ClaimedReplies
    <3>3. ASSUME ~ExplicitStop(e, WorkOf[r], ReturnActor[r])
          PROVE  /\ e.request[r].status = "reply_ready" /\ Held0(e, r)
                 /\ e.activations[e.request[r].reply].status = "claimed"
      <4>1. Held0(d, r)
        BY <3>1, <3>2, <3>3 DEF Delivered, ExplicitStop, Frame
      <4>2. Held0(e, r) /\ e.request[r].reply = d.request[r].reply
        BY <3>1, <3>2, <4>1, HeldStays
      <4>3. d.request[r].reply \in Indexes(d)
        BY <3>2, GoodParts DEF RequestKept
      <4>4. e.activations[d.request[r].reply] = d.activations[d.request[r].reply]
        BY <3>1, <4>3 DEF Extends, Added
      <4>5. e.request[r].status = "reply_ready"
        BY <3>1, <3>2 DEF Extends, RequestExtends
      <4> QED BY <3>2, <4>2, <4>4, <4>5
    <3> QED BY <3>1, <3>2, <3>3, NudgeReplyKeeps
  <2> HIDE DEF H
  <2> QED BY <2>1, KeptStep
<1>4. StepsIn(S, L, F)
  BY <1>3 DEF StepsIn
<1> HIDE DEF H, L, S
<1>5. PICK g : (\A s \in SUBSET S : g[s] \in L) /\ FoldOf(g, S, F, d)
  <2> HIDE DEF F
  <2> QED BY <1>1, <1>2, <1>4, FoldIn DEF FoldsIn
<1>6. g = step(g)
  BY <1>5, PickIn DEF FoldOf
<1>7. iter = step(iter)
  <2> HIDE DEF step
  <2> QED BY <1>6
<1> HIDE DEF iter
<1>8. iter[S] \in L
  <2>1. iter[{}] \in L /\ \A s \in SUBSET S : s # {} => iter[s] = H(iter[s \ {Pick(s)}], Pick(s))
    BY <1>2, <1>7
  <2> HIDE DEF step
  <2>2. \A s \in SUBSET S : s # {} /\ iter[s \ {Pick(s)}] \in L => iter[s] \in L
    BY <1>3, <2>1, PickIn
  <2> QED BY <1>1, <2>1, <2>2, FoldStays
<1>9. NudgeReplies(d, due) = iter[S]
  BY DEF NudgeReplies, FoldSet, MapThenFoldSet, Pick, iter, S, H
<1> QED BY <1>8, <1>9, KeptGood DEF L


LEMMA OwnerSourcesStay ==
  ASSUME NEW d, NEW e, NEW P, GoodBut(d, P), Keeps(d, e, P), e.replyOwner = d.replyOwner,
         NEW w \in Work, OwnerSources(d, w) # {}
  PROVE  OwnerSources(e, w) # {}
<1>1. PICK i \in OwnerSources(d, w) : TRUE
  OBVIOUS
<1>2. d \in Ledgers /\ e \in Ledgers /\ Extends(d, e)
  BY GoodParts DEF Keeps, GoodBut, Good
<1> DEFINE x == d.activations[i]
<1>3. /\ i \in Indexes(d) /\ x.work = w /\ x.actor = d.work[w].owner /\ x.status = "claimed"
      /\ x.endpoint = d.generation[x.actor]
      /\ \/ x.revision = d.work[w].revision /\ x.reason \in OwnerControl
         \/ /\ x.reason = "request_reply"
            /\ d.replyOwner[w] = <<d.work[w].revision, x.endpoint, i>>
            /\ \E r \in RequestsOf(w) : /\ d.request[r].reply = i
                                        /\ ReturnActor[r] = x.actor
                                        /\ d.request[r].status = "handled"
  BY <1>1 DEF OwnerSources
<1>4. i \in Indexes(e) /\ e.activations[i] = x /\ e.work = d.work /\ e.generation = d.generation
  <2>1. Frame(d, e) /\ Added(d, e)
    BY <1>2 DEF Extends
  <2>2. Indexes(d) \subseteq Indexes(e)
    BY <1>2, <2>1, LedgerFields DEF Added
  <2> QED BY <1>3, <2>1, <2>2 DEF Added, Frame
<1>5. ASSUME NEW r \in RequestsOf(w), d.request[r].reply = i, ReturnActor[r] = x.actor,
             d.request[r].status = "handled", x.reason = "request_reply"
      PROVE  e.request[r].reply = i /\ e.request[r].status = "handled"
  <2>1. r \in Request
    BY DEF RequestsOf
  <2>2. i # 0
    BY <1>2, <1>3, LedgerFields
  <2>3. Held0(d, r)
    BY <1>3, <1>5, <2>2 DEF Held0, ActiveCurrent, Active
  <2>4. e.request[r].reply = i
    BY <1>5, <2>1, <2>3, HeldStays
  <2>5. RequestExtends(d, e, r)
    BY <1>2, <2>1 DEF Extends
  <2> QED BY <1>5, <2>4, <2>5 DEF RequestExtends
<1> HIDE DEF x
<1>6. i \in OwnerSources(e, w)
  <2>1. \/ x.revision = e.work[w].revision /\ x.reason \in OwnerControl
        \/ /\ x.reason = "request_reply"
           /\ e.replyOwner[w] = <<e.work[w].revision, x.endpoint, i>>
           /\ \E r \in RequestsOf(w) : /\ e.request[r].reply = i
                                       /\ ReturnActor[r] = x.actor
                                       /\ e.request[r].status = "handled"
    <3>1. CASE x.revision = d.work[w].revision /\ x.reason \in OwnerControl
      BY <1>4, <3>1
    <3>2. CASE /\ x.reason = "request_reply"
               /\ d.replyOwner[w] = <<d.work[w].revision, x.endpoint, i>>
               /\ \E r \in RequestsOf(w) : /\ d.request[r].reply = i
                                           /\ ReturnActor[r] = x.actor
                                           /\ d.request[r].status = "handled"
      <4>1. PICK r \in RequestsOf(w) : /\ d.request[r].reply = i /\ ReturnActor[r] = x.actor
                                       /\ d.request[r].status = "handled"
        BY <3>2
      <4>2. e.request[r].reply = i /\ e.request[r].status = "handled"
        BY <1>5, <3>2, <4>1
      <4> QED BY <1>4, <3>2, <4>1, <4>2
    <3> QED BY <1>3, <3>1, <3>2
  <2> QED BY <1>3, <1>4, <2>1 DEF OwnerSources
<1> QED BY <1>6

LEMMA OwnerNudgesKeep ==
  ASSUME NEW d, NEW P, GoodBut(d, P), NEW due
  PROVE  Keeps(d, NudgeOwners(d, due), P)
<1> DEFINE H(e, w) == NudgeOwner(e, w, due)
           S == ClaimedWorks(d)
           L == Kept(d, P)
           J(s) == {e \in Kept(d, P) : e.replyOwner = d.replyOwner}
           M == [s \in SUBSET S |-> J(s)]
           F == [p \in S \X L |-> IF H(p[2], p[1]) \in L THEN H(p[2], p[1]) ELSE d]
           step(h) == [s \in SUBSET S |-> IF s = {} THEN d ELSE H(h[s \ {Pick(s)}], Pick(s))]
           iter == CHOOSE h : h = step(h)
<1>1. IsFiniteSet(S)
  <2>1. d \in Ledgers
    BY GoodParts
  <2>2. d.armed \in SUBSET Work
    BY <2>1 DEF Ledgers
  <2> QED BY <2>2, LedgerConstants, FS_Subset DEF ClaimedWorks
<1>2. d \in L /\ d \in J({}) /\ \A s \in SUBSET S : J(s) \subseteq L
  BY KeptSelf
<1>3. ASSUME NEW s \in SUBSET S, NEW w \in s, NEW e \in J(s \ {w})
      PROVE  H(e, w) \in J(s)
  <2>1. GoodBut(e, P) /\ Keeps(d, e, P) /\ Frame(d, e) /\ e \in Kept(d, P)
        /\ e.replyOwner = d.replyOwner
    BY KeptGood
  <2>2. d \in Ledgers
    BY GoodParts
  <2>3. d.armed \in SUBSET Work
    BY <2>2 DEF Ledgers
  <2>4. w \in Work /\ w \in e.armed /\ e.work[w].mode \in {"continue", "waiting"}
        /\ OwnerSources(d, w) # {}
    BY <2>1, <2>3 DEF Frame, ClaimedWorks
  <2>5. OwnerSources(e, w) # {}
    BY <2>1, <2>4, OwnerSourcesStay
  <2>6. Keeps(e, H(e, w), P) /\ H(e, w).replyOwner = e.replyOwner
    BY <2>1, <2>4, <2>5, NudgeOwnerKeeps
  <2> HIDE DEF H
  <2>7. H(e, w) \in Kept(d, P)
    BY <2>1, <2>6, KeptStep
  <2> QED BY <2>1, <2>6, <2>7
<1> HIDE DEF H, L, S, J
<1>4. StepsAlong(S, L, M, F)
  <2>1. F \in [S \X L -> L]
    BY <1>2
  <2>2. M \in [SUBSET S -> SUBSET L]
    BY <1>2
  <2>3. ASSUME NEW s \in SUBSET S, NEW w \in s, NEW e \in M[s \ {w}] PROVE F[<<w, e>>] \in M[s]
    <3>1. e \in J(s \ {w}) /\ s \ {w} \in SUBSET S
      BY <2>3
    <3>2. H(e, w) \in J(s) /\ H(e, w) \in L /\ e \in L /\ w \in S
      BY <1>2, <1>3, <3>1
    <3>3. M[s] = J(s)
      OBVIOUS
    <3> HIDE DEF M
    <3> QED BY <3>2, <3>3
  <2> HIDE DEF F, M
  <2> QED BY <2>1, <2>2, <2>3 DEF StepsAlong
<1>5. PICK g : (\A s \in SUBSET S : g[s] \in M[s]) /\ FoldOf(g, S, F, d)
  <2>1. d \in M[{}]
    BY <1>2
  <2> HIDE DEF F, M
  <2> QED BY <1>1, <2>1, <1>4, FoldAlong DEF FoldsAlong
<1>6. g = step(g)
  <2>1. ASSUME NEW s \in SUBSET S, s # {}
        PROVE  F[<<Pick(s), g[s \ {Pick(s)}]>>] = H(g[s \ {Pick(s)}], Pick(s))
    <3>1. Pick(s) \in s /\ s \ {Pick(s)} \in SUBSET S
      BY <2>1, PickIn
    <3>2. g[s \ {Pick(s)}] \in J(s \ {Pick(s)})
      BY <1>5, <3>1
    <3>3. H(g[s \ {Pick(s)}], Pick(s)) \in L /\ g[s \ {Pick(s)}] \in L
      BY <1>2, <1>3, <3>1, <3>2
    <3> QED BY <3>1, <3>3
  <2> HIDE DEF F
  <2> QED BY <1>5, <2>1 DEF FoldOf
<1>7. iter = step(iter)
  <2> HIDE DEF step
  <2> QED BY <1>6
<1> HIDE DEF iter
<1>8. iter[S] \in J(S)
  <2>1. iter[{}] = d /\ \A s \in SUBSET S : s # {} => iter[s] = H(iter[s \ {Pick(s)}], Pick(s))
    BY <1>7
  <2>2. \A s \in SUBSET S : M[s] = J(s)
    OBVIOUS
  <2> HIDE DEF step, M
  <2>3. ASSUME NEW s \in SUBSET S, s # {}, iter[s \ {Pick(s)}] \in M[s \ {Pick(s)}]
        PROVE  iter[s] \in M[s]
    <3>1. Pick(s) \in s /\ s \ {Pick(s)} \in SUBSET S
      BY <2>3, PickIn
    <3>2. iter[s \ {Pick(s)}] \in J(s \ {Pick(s)})
      BY <2>2, <2>3, <3>1
    <3>3. H(iter[s \ {Pick(s)}], Pick(s)) \in J(s)
      BY <1>3, <3>1, <3>2
    <3> QED BY <2>1, <2>2, <2>3, <3>3
  <2>4. iter[{}] \in M[{}]
    BY <1>2, <2>1, <2>2
  <2>5. \A s \in SUBSET S : iter[s] \in M[s]
    BY <1>1, <2>3, <2>4, FoldKeeps
  <2> QED BY <2>2, <2>5
<1>9. NudgeOwners(d, due) = iter[S]
  BY DEF NudgeOwners, FoldSet, MapThenFoldSet, Pick, iter, S, H
<1> QED BY <1>8, <1>9, KeptGood DEF J, S

LEMMA ReconcileRecoveryKeeps ==
  ASSUME NEW d, GoodBut(d, {}), NEW due, \A r \in Request : Delivered(d, r)
  PROVE  Keeps(d, ReconcileRecovery(d, due), {})
<1> DEFINE e == NudgeAssignments(d, due)
           f == NudgeReplies(e, due)
           h == NudgeOwners(f, due)
<1>1. ReconcileRecovery(d, due) = h
  BY DEF ReconcileRecovery, NudgeAssignments, NudgeReplies, NudgeOwners
<1>2. Keeps(d, e, {})
  BY AssignmentNudgesKeep
<1> HIDE DEF e
<1>3. GoodBut(e, {}) /\ \A r \in Request : Delivered(e, r)
  BY <1>2, DeliveredStays DEF Keeps
<1>4. Keeps(e, f, {})
  BY <1>3, ReplyNudgesKeep
<1> HIDE DEF f
<1>5. Keeps(f, h, {})
  BY <1>4, OwnerNudgesKeep DEF Keeps
<1> HIDE DEF h
<1>6. Keeps(d, f, {})
  BY <1>2, <1>4, KeepsTransitive
<1> QED BY <1>1, <1>5, <1>6, KeepsTransitive

(***************************************************************************)
(* The self check.                                                         *)
(***************************************************************************)
LEMMA RepairedWaitKeeps ==
  ASSUME NEW d, NEW P, GoodBut(d, P), NEW w \in Work
  PROVE  Keeps(d, RepairedWait(d, w), P)
<1> DEFINE read == ReconcileSources(d, d.wait[w].sources)
<1>1. Keeps(d, read, P)
  BY ReconcileSourcesKeeps
<1>2. RepairedWait(d, w) = IF UnroutedWait(read, w) THEN EvaluateWait(read, w) ELSE read
  BY DEF RepairedWait
<1> HIDE DEF read
<1>3. Keeps(read, EvaluateWait(read, w), P)
  BY <1>1, EvaluateWaitKeeps DEF Keeps
<1>4. Keeps(d, EvaluateWait(read, w), P)
  BY <1>1, <1>3, KeepsTransitive
<1> QED BY <1>1, <1>2, <1>4

LEMMA RepairedDeliveries ==
  ASSUME NEW d, NEW P, GoodBut(d, P)
  PROVE  Keeps(d, FoldSet(LAMBDA r, e : IF UndeliveredRequest(e, r)
                                          THEN RedeliverRequests(e, RequestsOf(WorkOf[r])) ELSE e,
                         d, Request), P)
<1> DEFINE H(e, r) == IF UndeliveredRequest(e, r) THEN RedeliverRequests(e, RequestsOf(WorkOf[r])) ELSE e
           S == Request
           L == Kept(d, P)
           F == [p \in S \X L |-> H(p[2], p[1])]
           step(h) == [s \in SUBSET S |-> IF s = {} THEN d ELSE H(h[s \ {Pick(s)}], Pick(s))]
           iter == CHOOSE h : h = step(h)
<1>1. IsFiniteSet(S)
  BY LedgerConstants
<1>2. d \in L
  BY KeptSelf
<1>3. ASSUME NEW r \in S, NEW e \in L PROVE H(e, r) \in L
  <2>1. Keeps(e, H(e, r), P)
    <3>1. GoodBut(e, P) /\ RequestsOf(WorkOf[r]) \in SUBSET Request
      BY KeptGood DEF RequestsOf
    <3>2. Keeps(e, RedeliverRequests(e, RequestsOf(WorkOf[r])), P)
      BY <3>1, RedeliverRequestsKeep
    <3> QED BY <3>1, <3>2, KeepsReflexive
  <2> HIDE DEF H
  <2> QED BY <2>1, KeptStep
<1>4. StepsIn(S, L, F)
  BY <1>3 DEF StepsIn
<1> HIDE DEF H, L, S
<1>5. PICK g : (\A s \in SUBSET S : g[s] \in L) /\ FoldOf(g, S, F, d)
  <2> HIDE DEF F
  <2> QED BY <1>1, <1>2, <1>4, FoldIn DEF FoldsIn
<1>6. g = step(g)
  BY <1>5, PickIn DEF FoldOf
<1>7. iter = step(iter)
  <2> HIDE DEF step
  <2> QED BY <1>6
<1> HIDE DEF iter
<1>8. iter[S] \in L
  <2>1. iter[{}] \in L /\ \A s \in SUBSET S : s # {} => iter[s] = H(iter[s \ {Pick(s)}], Pick(s))
    BY <1>2, <1>7
  <2> HIDE DEF step
  <2>2. \A s \in SUBSET S : s # {} /\ iter[s \ {Pick(s)}] \in L => iter[s] \in L
    BY <1>3, <2>1, PickIn
  <2> QED BY <1>1, <2>1, <2>2, FoldStays
<1>9. FoldSet(LAMBDA r, e : IF UndeliveredRequest(e, r)
                                          THEN RedeliverRequests(e, RequestsOf(WorkOf[r])) ELSE e,
                         d, Request) = iter[S]
  BY DEF FoldSet, MapThenFoldSet, Pick, iter, S, H
<1> QED BY <1>8, <1>9, KeptGood DEF L

LEMMA RepairedWaits ==
  ASSUME NEW d, NEW P, GoodBut(d, P)
  PROVE  Keeps(d, FoldSet(LAMBDA w, e : RepairedWait(e, w), d, Work), P)
<1> DEFINE H(e, w) == RepairedWait(e, w)
           S == Work
           L == Kept(d, P)
           F == [p \in S \X L |-> H(p[2], p[1])]
           step(h) == [s \in SUBSET S |-> IF s = {} THEN d ELSE H(h[s \ {Pick(s)}], Pick(s))]
           iter == CHOOSE h : h = step(h)
<1>1. IsFiniteSet(S)
  BY LedgerConstants
<1>2. d \in L
  BY KeptSelf
<1>3. ASSUME NEW w \in S, NEW e \in L PROVE H(e, w) \in L
  <2>1. Keeps(e, H(e, w), P)
    BY KeptGood, RepairedWaitKeeps
  <2> HIDE DEF H
  <2> QED BY <2>1, KeptStep
<1>4. StepsIn(S, L, F)
  BY <1>3 DEF StepsIn
<1> HIDE DEF H, L, S
<1>5. PICK g : (\A s \in SUBSET S : g[s] \in L) /\ FoldOf(g, S, F, d)
  <2> HIDE DEF F
  <2> QED BY <1>1, <1>2, <1>4, FoldIn DEF FoldsIn
<1>6. g = step(g)
  BY <1>5, PickIn DEF FoldOf
<1>7. iter = step(iter)
  <2> HIDE DEF step
  <2> QED BY <1>6
<1> HIDE DEF iter
<1>8. iter[S] \in L
  <2>1. iter[{}] \in L /\ \A s \in SUBSET S : s # {} => iter[s] = H(iter[s \ {Pick(s)}], Pick(s))
    BY <1>2, <1>7
  <2> HIDE DEF step
  <2>2. \A s \in SUBSET S : s # {} /\ iter[s \ {Pick(s)}] \in L => iter[s] \in L
    BY <1>3, <2>1, PickIn
  <2> QED BY <1>1, <2>1, <2>2, FoldStays
<1>9. FoldSet(LAMBDA w, e : RepairedWait(e, w), d, Work) = iter[S]
  BY DEF FoldSet, MapThenFoldSet, Pick, iter, S, H
<1> QED BY <1>8, <1>9, KeptGood DEF L

LEMMA RepairedContinuations ==
  ASSUME NEW d, NEW P, GoodBut(d, P),
         NEW works \in SUBSET {w \in Work : d.work[w].mode = "continue"}
  PROVE  Keeps(d, FoldSet(LAMBDA w, e : Create(e, w, e.work[w].owner, "continue_checkpoint", 0, NoMarks), d, works), P)
<1> DEFINE H(e, w) == Create(e, w, e.work[w].owner, "continue_checkpoint", 0, NoMarks)
           S == works
           L == Kept(d, P)
           F == [p \in S \X L |-> H(p[2], p[1])]
           step(h) == [s \in SUBSET S |-> IF s = {} THEN d ELSE H(h[s \ {Pick(s)}], Pick(s))]
           iter == CHOOSE h : h = step(h)
<1>1. IsFiniteSet(S)
  BY LedgerConstants, FS_Subset
<1>2. d \in L
  BY KeptSelf
<1>3. ASSUME NEW w \in S, NEW e \in L PROVE H(e, w) \in L
  <2>1. Keeps(e, H(e, w), P)
    <3>1. GoodBut(e, P) /\ Frame(d, e)
      BY KeptGood
    <3>2. e.work[w].mode = "continue" /\ w \in Work
      BY <3>1 DEF Frame
    <3> QED BY <3>1, <3>2, ContinuationKeeps
  <2> HIDE DEF H
  <2> QED BY <2>1, KeptStep
<1>4. StepsIn(S, L, F)
  BY <1>3 DEF StepsIn
<1> HIDE DEF H, L, S
<1>5. PICK g : (\A s \in SUBSET S : g[s] \in L) /\ FoldOf(g, S, F, d)
  <2> HIDE DEF F
  <2> QED BY <1>1, <1>2, <1>4, FoldIn DEF FoldsIn
<1>6. g = step(g)
  BY <1>5, PickIn DEF FoldOf
<1>7. iter = step(iter)
  <2> HIDE DEF step
  <2> QED BY <1>6
<1> HIDE DEF iter
<1>8. iter[S] \in L
  <2>1. iter[{}] \in L /\ \A s \in SUBSET S : s # {} => iter[s] = H(iter[s \ {Pick(s)}], Pick(s))
    BY <1>2, <1>7
  <2> HIDE DEF step
  <2>2. \A s \in SUBSET S : s # {} /\ iter[s \ {Pick(s)}] \in L => iter[s] \in L
    BY <1>3, <2>1, PickIn
  <2> QED BY <1>1, <2>1, <2>2, FoldStays
<1>9. FoldSet(LAMBDA w, e : Create(e, w, e.work[w].owner, "continue_checkpoint", 0, NoMarks), d, works) = iter[S]
  BY DEF FoldSet, MapThenFoldSet, Pick, iter, S, H
<1> QED BY <1>8, <1>9, KeptGood DEF L

LEMMA RepairedKeeps ==
  ASSUME NEW d, GoodBut(d, {})
  PROVE  Keeps(d, Repaired(d), {})
<1> DEFINE redelivered == FoldSet(LAMBDA r, e : IF UndeliveredRequest(e, r)
                                               THEN RedeliverRequests(e, RequestsOf(WorkOf[r])) ELSE e,
                                  d, Request)
           debts == {o \in Obligation : UnassignedDebt(redelivered, o)}
           rearmed == FoldSet(LAMBDA o, e : RearmObligation(e, o), redelivered, debts)
           woken == FoldSet(LAMBDA w, e : RepairedWait(e, w), rearmed, Work)
           waiting == {o \in Obligation : UnroutedAssignment(woken, o)}
           notified == FoldSet(LAMBDA o, e : EvaluateAssignmentWait(e, o), woken, waiting)
           works == {w \in Work : MissingContinuation(notified, w)}
           continued == FoldSet(LAMBDA w, e : Create(e, w, e.work[w].owner, "continue_checkpoint", 0, NoMarks),
                                notified, works)
<1>1. Repaired(d) = continued
  BY DEF Repaired
<1>2. Keeps(d, redelivered, {})
  BY RepairedDeliveries
<1> HIDE DEF redelivered
<1>3. GoodBut(redelivered, {})
  BY <1>2 DEF Keeps
<1>4. debts \in SUBSET {o \in Obligation \ {} : redelivered.obligation[o].status = "open"}
  BY DEF UnassignedDebt
<1> HIDE DEF debts
<1>5. Keeps(redelivered, rearmed, {})
  BY <1>3, <1>4, RearmsKeep
<1> HIDE DEF rearmed
<1>6. Keeps(rearmed, woken, {})
  BY <1>5, RepairedWaits DEF Keeps
<1> HIDE DEF woken
<1>7. waiting \in SUBSET (Obligation \ {})
  OBVIOUS
<1> HIDE DEF waiting
<1>8. Keeps(woken, notified, {})
  BY <1>6, <1>7, AssignmentWaitsKeep DEF Keeps
<1> HIDE DEF notified
<1>9. works \in SUBSET {w \in Work : notified.work[w].mode = "continue"}
  BY DEF MissingContinuation
<1> HIDE DEF works
<1>10. Keeps(notified, continued, {})
  BY <1>8, <1>9, RepairedContinuations DEF Keeps
<1> HIDE DEF continued
<1>11. Keeps(d, rearmed, {})
  BY <1>2, <1>5, KeepsTransitive
<1>12. Keeps(d, woken, {})
  BY <1>6, <1>11, KeepsTransitive
<1>13. Keeps(d, notified, {})
  BY <1>8, <1>12, KeepsTransitive
<1> QED BY <1>1, <1>10, <1>13, KeepsTransitive

-----------------------------------------------------------------------------
(***************************************************************************)
(* The primary writes of a transaction.  They add no row; the status of    *)
(* some rows changes, but no row becomes live or claimed.                  *)
(***************************************************************************)
Thinned(d, e) ==
  /\ Indexes(e) = Indexes(d)
  /\ \A i \in Indexes(d) :
       LET x == d.activations[i]
           y == e.activations[i]
       IN /\ y.work = x.work /\ y.actor = x.actor /\ y.revision = x.revision
          /\ y.endpoint = x.endpoint /\ y.generation = x.generation /\ y.reason = x.reason
          /\ y.marks = x.marks
          /\ y.status = "claimed" <=> x.status = "claimed"
          /\ y.status \in Live => x.status \in Live

\* What exists stays, and its generations only grow.
Grown(d, e) ==
  /\ \A w \in Work : d.work[w].mode # "none" => e.work[w].mode # "none"
  /\ \A a \in Actor : d.generation[a] <= e.generation[a]
  /\ \A o \in Obligation :
       d.obligation[o].status # "none" =>
         e.obligation[o].status # "none" /\ d.obligation[o].generation <= e.obligation[o].generation
  /\ \A r \in Request : /\ d.request[r].status # "none" => e.request[r].status # "none"
                        /\ d.request[r].answered => e.request[r].answered

SameNotices(d, e, o) ==
  e.obligation[o] = d.obligation[o] /\ e.assignment[o].mode = d.assignment[o].mode

\* What a row that stays live is about is as it was.
Stays(d, e, i) ==
  LET x == d.activations[i]
      r == x.marks.request
      o == x.marks.obligation
  IN /\ e.generation[x.actor] = d.generation[x.actor] /\ d.armed \subseteq e.armed
     /\ o # None => /\ e.obligation[o] = d.obligation[o]
                    /\ e.work[x.work].mode = "complete" /\ RequestOf(o) = None
                         => d.work[x.work].mode = "complete"
     /\ o = None /\ r = None => e.work[x.work] = d.work[x.work]
     /\ o = None /\ r # None => e.request[r] = d.request[r]
     /\ \A n \in d.incidents : n.nudge = i => n \in e.incidents

LEMMA DebtThinned ==
  ASSUME NEW d \in Ledgers, NEW e \in Ledgers, Thinned(d, e), Grown(d, e), NEW o \in Obligation,
         SameNotices(d, e, o), DebtKept(d, o)
  PROVE  DebtKept(e, o)
<1>1. WorkOf[o] \in Work
  BY LedgerConstants
<1> QED BY <1>1 DEF Thinned, Grown, SameNotices, DebtKept

LEMMA RequestThinned ==
  ASSUME NEW d \in Ledgers, NEW e \in Ledgers, Thinned(d, e), Grown(d, e), NEW r \in Request,
         e.request[r] = d.request[r],
         DebtOf[r] # None => /\ e.obligation[DebtOf[r]].status = d.obligation[DebtOf[r]].status
                             /\ <<DebtOf[r], "result">> \in Outcomes(e)
                                  <=> <<DebtOf[r], "result">> \in Outcomes(d),
         RequestKept(d, r)
  PROVE  RequestKept(e, r)
<1>1. WorkOf[r] \in Work
  BY LedgerConstants
<1> QED BY <1>1 DEF Thinned, Grown, RequestKept

LEMMA MessageThinned ==
  ASSUME NEW d \in Ledgers, NEW e \in Ledgers, Thinned(d, e), NEW r \in Request, RequestKept(d, r),
         e.request[r].message = d.request[r].message
  PROVE  e.request[r].message # 0 =>
           /\ e.request[r].message \in Indexes(e)
           /\ e.activations[e.request[r].message].marks.request = r
<1>1. d.request[r].message # 0 =>
        d.request[r].message \in Indexes(d) /\ d.activations[d.request[r].message].marks.request = r
  BY DEF RequestKept
<1> QED BY <1>1 DEF Thinned

LEMMA AddressedThinned ==
  ASSUME NEW d \in Ledgers, NEW e \in Ledgers, Thinned(d, e), Grown(d, e), NEW i \in Indexes(d),
         Addressed(d, d.activations[i])
  PROVE  Addressed(e, e.activations[i])
<1> DEFINE x == d.activations[i]
           y == e.activations[i]
           r == x.marks.request
           o == x.marks.obligation
<1>1. /\ y.work = x.work /\ y.actor = x.actor /\ y.endpoint = x.endpoint
      /\ y.generation = x.generation /\ y.reason = x.reason /\ y.marks = x.marks
  BY DEF Thinned
<1>2. x \in Row /\ x.work \in Work /\ x.actor \in Actor /\ x.endpoint \in Nat /\ x.generation \in Nat
      /\ r \in Request \cup {None} /\ o \in Obligation \cup {None}
  BY LedgerFields DEF Row, Marks
<1>3. /\ d.generation[x.actor] \in Nat /\ e.generation[x.actor] \in Nat
      /\ d.generation[x.actor] <= e.generation[x.actor]
  BY <1>2, LedgerFields DEF Grown
<1>4. o # None => /\ d.obligation[o].generation \in Nat /\ e.obligation[o].generation \in Nat
                  /\ d.obligation[o].status # "none" =>
                       /\ d.obligation[o].generation <= e.obligation[o].generation
                       /\ e.obligation[o].status # "none"
  BY <1>2, LedgerFields DEF Grown, DebtRow
<1>5. r # None => /\ d.request[r].status # "none" => e.request[r].status # "none"
                  /\ d.request[r].answered => e.request[r].answered
  BY <1>2 DEF Grown
<1>6. x.endpoint <= e.generation[x.actor] /\ e.work[x.work].mode # "none"
  BY <1>2, <1>3 DEF Addressed, Grown
<1>7. o # None => e.obligation[o].status # "none" /\ x.generation <= e.obligation[o].generation
  BY <1>2, <1>4 DEF Addressed
<1>8. r # None => e.request[r].status # "none"
                  /\ (x.reason \in {"request_reply", "work_recovery"} => e.request[r].answered)
  BY <1>5 DEF Addressed
<1>9. /\ o = None => x.reason \in OwnerControl \cup {"work_recovery", "request_message", "request_reply"}
      /\ o # None =>
           /\ x.work = WorkOf[o] /\ x.actor = Assignee[o]
           /\ x.reason \in AssignmentReasons \cup {"assignment_recovery"}
           /\ r \in {None, RequestOf(o)}
           /\ RequestOf(o) # None /\ r = None
                => x.reason \in {"assignment_continue", "assignment_wait_satisfied"}
      /\ r # None => x.work = WorkOf[r]
      /\ x.reason \in OwnerControl => r = None
      /\ x.reason = "request_message" => r # None /\ o = DebtOf[r] /\ x.actor = Assignee[r]
      /\ x.reason = "request_reply" => r # None
      /\ r # None /\ x.reason \in {"request_reply", "work_recovery"} => x.actor = ReturnActor[r]
  BY DEF Addressed
<1> HIDE DEF x, y, r, o
<1>10. y.marks.request = r /\ y.marks.obligation = o
  BY <1>1 DEF r, o
<1> QED BY <1>1, <1>6, <1>7, <1>8, <1>9, <1>10 DEF Addressed, y

LEMMA NoticeThinned ==
  ASSUME NEW d \in Ledgers, NEW e \in Ledgers, Thinned(d, e), NEW i \in Indexes(d),
         SameNotices(d, e, d.activations[i].marks.obligation), NoticeKept(d, i)
  PROVE  NoticeKept(e, i)
<1> DEFINE x == d.activations[i]
           y == e.activations[i]
           o == x.marks.obligation
<1>1. /\ y.reason = x.reason /\ y.marks = x.marks
      /\ y.status = "claimed" <=> x.status = "claimed"
      /\ y.status \in Live => x.status \in Live
      /\ Indexes(e) = Indexes(d)
  BY DEF Thinned
<1>2. \A j \in Indexes(d) : /\ Current(e, j, o) <=> Current(d, j, o)
                            /\ e.activations[j].status \in Active => d.activations[j].status \in Active
                            /\ e.activations[j].reason = d.activations[j].reason
  BY DEF Current, Thinned, SameNotices, Active
<1>3. e.assignment[o].mode = d.assignment[o].mode /\ e.obligation[o] = d.obligation[o]
  BY DEF SameNotices
<1> HIDE DEF o
<1> SUFFICES ASSUME o # None, Current(e, i, o), e.obligation[o].status = "open", y.status \in Active
             PROVE  /\ y.status = "claimed" => e.obligation[o].claim = i
                    /\ CASE e.assignment[o].mode = "continue" -> y.reason = "assignment_continue"
                         [] e.assignment[o].mode = "waiting" -> y.reason = "assignment_wait_satisfied"
                         [] e.assignment[o].mode = "none" ->
                              y.reason \in {"obligation_assigned", "obligation_reminder", "request_message"}
                         [] e.assignment[o].mode = "paused" ->
                              y.status \in Live => y.reason = "assignment_paused_control"
                    /\ y.reason \in {"assignment_continue", "assignment_wait_satisfied"} =>
                         \A j \in Indexes(e) :
                           Current(e, j, o) /\ e.activations[j].status \in Active
                             /\ e.activations[j].reason = y.reason => j = i
  BY <1>1 DEF NoticeKept, o
<1>4. /\ x.status = "claimed" => d.obligation[o].claim = i
      /\ CASE d.assignment[o].mode = "continue" -> x.reason = "assignment_continue"
           [] d.assignment[o].mode = "waiting" -> x.reason = "assignment_wait_satisfied"
           [] d.assignment[o].mode = "none" ->
                x.reason \in {"obligation_assigned", "obligation_reminder", "request_message"}
           [] d.assignment[o].mode = "paused" ->
                x.status \in Live => x.reason = "assignment_paused_control"
      /\ x.reason \in {"assignment_continue", "assignment_wait_satisfied"} =>
           \A j \in Indexes(d) :
             Current(d, j, o) /\ d.activations[j].status \in Active
               /\ d.activations[j].reason = x.reason => j = i
  BY <1>2, <1>3 DEF NoticeKept, o
<1>5. d.assignment[o].mode \in {"none", "paused", "continue", "waiting"}
  <2>1. d.activations[i] \in Row
    BY LedgerFields
  <2>2. o \in Obligation
    BY <2>1 DEF Row, Marks, o
  <2>3. d.assignment[o] \in AssignmentRow
    BY <2>2, LedgerFields
  <2> QED BY <2>3 DEF AssignmentRow
<1> HIDE DEF x, y
<1> QED BY <1>1, <1>2, <1>3, <1>4, <1>5

LEMMA SettledThinned ==
  ASSUME NEW d \in Ledgers, NEW e \in Ledgers, Thinned(d, e), NEW o \in Obligation,
         e.obligation[o] = d.obligation[o], e.generation[Assignee[o]] = d.generation[Assignee[o]],
         Settled(d, o)
  PROVE  Settled(e, o)
<1>1. \A j \in Indexes(d) : /\ Current(e, j, o) <=> Current(d, j, o)
                            /\ e.activations[j].status \in Active => d.activations[j].status \in Active
                            /\ e.activations[j].endpoint = d.activations[j].endpoint
  BY DEF Current, Thinned, Active
<1> QED BY <1>1 DEF Settled, Thinned

LEMMA LiveThinned ==
  ASSUME NEW d \in Ledgers, NEW e \in Ledgers, Thinned(d, e), NEW i \in Indexes(d),
         e.activations[i].status \in Live => Stays(d, e, i),
         Addressed(d, d.activations[i]), LiveKept(d, i), NudgeKept(d, i)
  PROVE  LiveKept(e, i) /\ NudgeKept(e, i)
<1> DEFINE x == d.activations[i]
           y == e.activations[i]
           r == x.marks.request
           o == x.marks.obligation
<1> SUFFICES ASSUME y.status \in Live PROVE LiveKept(e, i) /\ NudgeKept(e, i)
  BY DEF LiveKept, NudgeKept
<1>1. /\ y.work = x.work /\ y.actor = x.actor /\ y.revision = x.revision
      /\ y.endpoint = x.endpoint /\ y.generation = x.generation /\ y.reason = x.reason
      /\ y.marks = x.marks /\ x.status \in Live /\ Indexes(e) = Indexes(d)
  BY DEF Thinned
<1>2. /\ e.generation[x.actor] = d.generation[x.actor] /\ d.armed \subseteq e.armed
      /\ o # None => /\ e.obligation[o] = d.obligation[o]
                     /\ e.work[x.work].mode = "complete" /\ RequestOf(o) = None
                          => d.work[x.work].mode = "complete"
      /\ o = None /\ r = None => e.work[x.work] = d.work[x.work]
      /\ o = None /\ r # None => e.request[r] = d.request[r]
      /\ \A n \in d.incidents : n.nudge = i => n \in e.incidents
  BY DEF Stays
<1>3. x.reason = "work_recovery" \/ x.reason = "request_reply" => o = None
  BY DEF Addressed, AssignmentReasons
<1>4. x.reason = "request_message" \/ x.reason = "request_reply" => r # None
  BY DEF Addressed
<1>5. x.reason = "work_recovery" /\ r # None => x.actor = ReturnActor[r]
  BY DEF Addressed
<1>6. LiveKept(e, i)
  <2>1. y.endpoint = e.generation[y.actor]
    BY <1>1, <1>2 DEF LiveKept
  <2>2. o # None => /\ e.obligation[o].status = "open" /\ y.generation = e.obligation[o].generation
                    /\ e.work[y.work].mode = "complete" /\ RequestOf(o) = None
                         => y.reason = "assignment_continue"
    BY <1>1, <1>2 DEF LiveKept
  <2>3. o = None /\ r = None =>
            /\ y.revision = e.work[y.work].revision /\ y.actor = e.work[y.work].owner
            /\ e.work[y.work].mode # "complete"
            /\ y.reason = "continue_checkpoint" => e.work[y.work].mode = "continue"
            /\ y.reason = "wait_satisfied" => e.work[y.work].mode = "waiting"
    BY <1>1, <1>2 DEF LiveKept
  <2>4. y.reason = "request_reply" => e.request[r].reply = i /\ e.request[r].status = "reply_ready"
    BY <1>1, <1>2, <1>3, <1>4 DEF LiveKept
  <2>5. y.reason = "request_message" /\ o = None =>
            e.request[r].message = i /\ e.request[r].status = "delivery_pending"
    BY <1>1, <1>2, <1>4 DEF LiveKept
  <2>6. y.reason = "work_recovery" /\ r # None =>
            /\ e.request[r].reply = x.marks.after /\ e.request[r].status = "reply_ready"
            /\ x.marks.after # 0
            /\ ActiveCurrent(e, x.marks.after, ReturnActor[r], "request_reply")
            /\ e.activations[x.marks.after].status = "claimed"
    <3> SUFFICES ASSUME y.reason = "work_recovery", r # None
                 PROVE  /\ e.request[r].reply = x.marks.after /\ e.request[r].status = "reply_ready"
                        /\ x.marks.after # 0
                        /\ ActiveCurrent(e, x.marks.after, ReturnActor[r], "request_reply")
                        /\ e.activations[x.marks.after].status = "claimed"
      OBVIOUS
    <3> DEFINE k == x.marks.after
    <3>1. /\ d.request[r].reply = k /\ d.request[r].status = "reply_ready" /\ k # 0
          /\ ActiveCurrent(d, k, ReturnActor[r], "request_reply") /\ d.activations[k].status = "claimed"
      BY <1>1 DEF LiveKept
    <3>2. k \in Indexes(d)
      BY <1>1 DEF NudgeKept, Recovery
    <3>3. /\ e.activations[k].actor = d.activations[k].actor
          /\ e.activations[k].reason = d.activations[k].reason
          /\ e.activations[k].endpoint = d.activations[k].endpoint
          /\ e.activations[k].status = "claimed"
      BY <3>1, <3>2 DEF Thinned
    <3>4. e.request[r] = d.request[r] /\ e.generation[ReturnActor[r]] = d.generation[ReturnActor[r]]
      BY <1>1, <1>2, <1>3, <1>5
    <3> HIDE DEF k
    <3>5. ActiveCurrent(e, k, ReturnActor[r], "request_reply")
      BY <3>1, <3>3, <3>4 DEF ActiveCurrent, Active
    <3> QED BY <3>1, <3>3, <3>4, <3>5 DEF k
  <2> HIDE DEF x, y
  <2>7. y.marks.request = r /\ y.marks.obligation = o /\ y.marks.after = x.marks.after
    BY <1>1
  <2> HIDE DEF r, o
  <2> QED BY <2>1, <2>2, <2>3, <2>4, <2>5, <2>6, <2>7 DEF LiveKept, y
<1>7. NudgeKept(e, i)
  <2> SUFFICES ASSUME y.reason \in Recovery PROVE NudgeKept(e, i)
    BY DEF NudgeKept
  <2>1. \A source : Queued(d, i, source) => Queued(e, i, source)
    BY <1>2 DEF Queued
  <2>2. /\ x.work \in d.armed /\ x.marks.outcomes = {}
        /\ x.reason = "assignment_recovery" =>
             /\ d.obligation[o].claim # 0 /\ Queued(d, i, d.obligation[o].claim)
             /\ o # None /\ x.marks.request = RequestOf(o) /\ x.marks.after = 0
        /\ x.reason = "work_recovery" =>
             /\ Queued(d, i, x.marks.after)
             /\ x.marks.after \in Indexes(d) /\ d.activations[x.marks.after].work = x.work
        /\ \A j \in Indexes(d) :
             LET z == d.activations[j]
             IN z.status \in Live /\ z.reason = x.reason /\ z.actor = x.actor /\ z.marks = x.marks
                  => j = i
    BY <1>1 DEF NudgeKept
  <2>3. \A j \in Indexes(e) :
             LET z == e.activations[j]
             IN z.status \in Live /\ z.reason = y.reason /\ z.actor = y.actor /\ z.marks = y.marks
                  => j = i
    BY <1>1, <2>2 DEF Thinned
  <2>4. x.reason = "work_recovery" =>
           x.marks.after \in Indexes(e) /\ e.activations[x.marks.after].work = x.work
    BY <1>1, <2>2 DEF Thinned
  <2>5. x.reason = "assignment_recovery" => e.obligation[o] = d.obligation[o]
    BY <1>2, <2>2
  <2> HIDE DEF x, y, o
  <2>6. y.marks.obligation = o
    BY <1>1 DEF o
  <2> QED BY <1>1, <1>2, <2>1, <2>2, <2>3, <2>4, <2>5, <2>6 DEF NudgeKept, y
<1> QED BY <1>6, <1>7

LEMMA ThinnedGood ==
  ASSUME NEW d, NEW P, GoodBut(d, P), NEW e \in Ledgers, NEW Q, Thinned(d, e), Grown(d, e),
         \A w \in Work : WorkKept(e, w),
         \A o \in Obligation : DebtKept(e, o),
         \A r \in Request : RequestKept(e, r),
         \A o \in Obligation :
            \/ SameNotices(d, e, o)
            \/ \A i \in Indexes(d) : d.activations[i].marks.obligation = o => NoticeKept(e, i),
         \A i \in Indexes(d) : e.activations[i].status \in Live => Stays(d, e, i),
         \A n \in e.incidents : n.nudge \in Indexes(d),
         \A o \in Obligation \ Q : Settled(e, o)
  PROVE  GoodBut(e, Q)
<1>1. /\ d \in Ledgers
      /\ \A i \in Indexes(d) : /\ Addressed(d, d.activations[i]) /\ NoticeKept(d, i)
                               /\ LiveKept(d, i) /\ NudgeKept(d, i)
  BY GoodParts
<1>2. Indexes(e) = Indexes(d)
  BY DEF Thinned
<1>3. ASSUME NEW i \in Indexes(d)
      PROVE  Addressed(e, e.activations[i]) /\ NoticeKept(e, i) /\ LiveKept(e, i) /\ NudgeKept(e, i)
  <2>1. Addressed(e, e.activations[i])
    BY <1>1, AddressedThinned
  <2>2. LiveKept(e, i) /\ NudgeKept(e, i)
    BY <1>1, LiveThinned
  <2>3. NoticeKept(e, i)
    <3> DEFINE o == d.activations[i].marks.obligation
    <3>1. CASE o = None
      <4>1. e.activations[i].marks = d.activations[i].marks
        BY DEF Thinned
      <4> QED BY <3>1, <4>1 DEF NoticeKept
    <3>2. CASE o # None
      <4>1. o \in Obligation
        BY <1>1, <3>2, LedgerFields DEF Row, Marks
      <4>2. CASE SameNotices(d, e, o)
        BY <1>1, <4>2, NoticeThinned
      <4>3. CASE ~SameNotices(d, e, o)
        BY <4>1, <4>3
      <4> QED BY <4>2, <4>3
    <3> QED BY <3>1, <3>2
  <2> QED BY <2>1, <2>2, <2>3
<1>4. Good(e)
  BY <1>2, <1>3 DEF Good
<1> QED BY <1>4 DEF GoodBut

-----------------------------------------------------------------------------
(***************************************************************************)
(* What a step does to the rows and to the requests.                       *)
(***************************************************************************)
\* Rows are added, revoked and claimed; what is claimed or revoked stays so.
Onward(d, e) ==
  /\ Indexes(d) \subseteq Indexes(e)
  /\ \A i \in Indexes(d) :
       \/ e.activations[i].status = d.activations[i].status
       \/ d.activations[i].status \in Live /\ e.activations[i].status \in {"claimed", "revoked"}
  /\ \A i \in Indexes(e) \ Indexes(d) : e.activations[i].status # "published"

\* The phase and the hold of a request, as the refinement mapping reads them.
PhaseOf(d, r) ==
  LET status == d.request[r].status
  IN CASE status = "none" -> "unsent"
       [] status \in {"delivery_pending", "claimed"} -> "owed"
       [] status = "reply_ready" -> "answered"
       [] status = "handled" -> "handled"
       [] status = "closed_no_reply" -> "read"

HeldOf(d, r) ==
  \/ /\ DebtOf[r] # None /\ d.obligation[DebtOf[r]].status = "open"
     /\ CurrentClaim(d, DebtOf[r]) # 0
  \/ /\ d.request[r].status = "reply_ready" /\ Held0(d, r)
     /\ d.activations[d.request[r].reply].status = "claimed"

Alike(d, e, r) == PhaseOf(e, r) = PhaseOf(d, r) /\ (HeldOf(e, r) <=> HeldOf(d, r))
Quiet(d, e) == \A r \in Request : Alike(d, e, r)

LEMMA OnwardSelf == \A d, e : e.activations = d.activations => Onward(d, e)
BY DEF Onward, Indexes

LEMMA OnwardTransitive ==
  ASSUME NEW d, NEW e, NEW f, Onward(d, e), Onward(e, f)
  PROVE  Onward(d, f)
BY DEF Onward, Live

LEMMA OnwardAdded ==
  ASSUME NEW d \in Ledgers, NEW e \in Ledgers, Added(d, e)
  PROVE  Onward(d, e)
<1>1. Indexes(d) \subseteq Indexes(e)
  BY LedgerFields DEF Added
<1> QED BY <1>1 DEF Added, Onward

\* The claim of an assignment is current in both ledgers or in neither.
LEMMA ClaimAlike ==
  ASSUME NEW d \in Ledgers, NEW e \in Ledgers, NEW o \in Obligation,
         e.obligation[o] = d.obligation[o], e.generation = d.generation, DebtKept(d, o),
         \A i \in Indexes(d) :
            LET x == d.activations[i]
                y == e.activations[i]
            IN /\ y.actor = x.actor /\ y.endpoint = x.endpoint /\ y.generation = x.generation
               /\ y.status = "claimed" <=> x.status = "claimed"
  PROVE  CurrentClaim(e, o) = CurrentClaim(d, o)
<1> DEFINE i == d.obligation[o].claim
<1>1. i # 0 => i \in Indexes(d)
  BY DEF DebtKept
<1> HIDE DEF i
<1>2. CurrentClaim(d, o) =
        IF i # 0 /\ d.activations[i].status = "claimed" /\ d.activations[i].actor = Assignee[o]
           /\ d.activations[i].generation = d.obligation[o].generation
           /\ d.activations[i].endpoint = d.generation[Assignee[o]] THEN i ELSE 0
  BY DEF CurrentClaim, i
<1>3. CurrentClaim(e, o) =
        IF i # 0 /\ e.activations[i].status = "claimed" /\ e.activations[i].actor = Assignee[o]
           /\ e.activations[i].generation = d.obligation[o].generation
           /\ e.activations[i].endpoint = d.generation[Assignee[o]] THEN i ELSE 0
  BY DEF CurrentClaim, i
<1> QED BY <1>1, <1>2, <1>3

LEMMA AlikeThinned ==
  ASSUME NEW d \in Ledgers, NEW e \in Ledgers, NEW r \in Request, Thinned(d, e),
         e.generation = d.generation, RequestKept(d, r), e.request[r].reply = d.request[r].reply,
         PhaseOf(e, r) = PhaseOf(d, r),
         e.request[r].status = "reply_ready" <=> d.request[r].status = "reply_ready",
         DebtOf[r] # None => e.obligation[DebtOf[r]] = d.obligation[DebtOf[r]] /\ DebtKept(d, DebtOf[r])
  PROVE  Alike(d, e, r)
<1> DEFINE o == DebtOf[r]
           k == d.request[r].reply
<1>1. o # None => CurrentClaim(e, o) = CurrentClaim(d, o)
  <2> SUFFICES ASSUME o # None PROVE CurrentClaim(e, o) = CurrentClaim(d, o)
    OBVIOUS
  <2>1. o \in Obligation
    BY LedgerConstants
  <2>2. e.obligation[o] = d.obligation[o] /\ DebtKept(d, o)
    OBVIOUS
  <2>3. \A i \in Indexes(d) :
            LET x == d.activations[i]
                y == e.activations[i]
            IN /\ y.actor = x.actor /\ y.endpoint = x.endpoint /\ y.generation = x.generation
               /\ y.status = "claimed" <=> x.status = "claimed"
    BY DEF Thinned
  <2> HIDE DEF o
  <2> QED BY <2>1, <2>2, <2>3, ClaimAlike
<1>2. k # 0 => k \in Indexes(d)
  BY DEF RequestKept
<1> HIDE DEF k
<1>3. k # 0 => /\ e.activations[k].actor = d.activations[k].actor
               /\ e.activations[k].reason = d.activations[k].reason
               /\ e.activations[k].endpoint = d.activations[k].endpoint
               /\ e.activations[k].status = "claimed" <=> d.activations[k].status = "claimed"
  BY <1>2 DEF Thinned
<1>4. (ActiveCurrent(e, k, ReturnActor[r], "request_reply") /\ e.activations[k].status = "claimed")
       <=> (ActiveCurrent(d, k, ReturnActor[r], "request_reply") /\ d.activations[k].status = "claimed")
  BY <1>3 DEF ActiveCurrent, Active
<1> QED BY <1>1, <1>4 DEF Alike, HeldOf, Held0, k

LEMMA QuietKeeps ==
  ASSUME NEW d, NEW P, GoodBut(d, P), NEW e, Keeps(d, e, P)
  PROVE  Quiet(d, e) /\ Onward(d, e)
<1>1. d \in Ledgers /\ \A r \in Request : RequestKept(d, r)
  BY GoodParts
<1>5. e \in Ledgers /\ (\A r \in Request : RequestKept(e, r)) /\ Extends(d, e)
  BY GoodParts DEF Keeps
<1>2. \A o \in Obligation : DebtKept(d, o)
  BY GoodParts
<1>3. Frame(d, e) /\ Added(d, e) /\ \A r \in Request : RequestExtends(d, e, r)
  BY <1>5 DEF Extends
<1>4. ASSUME NEW r \in Request PROVE Alike(d, e, r)
  <2> DEFINE o == DebtOf[r]
             k == d.request[r].reply
             m == e.request[r].reply
  <2>1. o # None => CurrentClaim(e, o) = CurrentClaim(d, o)
    <3> SUFFICES ASSUME o # None PROVE CurrentClaim(e, o) = CurrentClaim(d, o)
      OBVIOUS
    <3>1. o \in Obligation
      BY LedgerConstants
    <3> HIDE DEF o
    <3>2. e.obligation[o] = d.obligation[o] /\ DebtKept(d, o) /\ e.generation = d.generation
      BY <1>2, <1>3, <3>1 DEF Frame
    <3>3. \A i \in Indexes(d) : e.activations[i] = d.activations[i]
      BY <1>3 DEF Added
    <3> QED BY <1>1, <1>5, <3>1, <3>2, <3>3, ClaimAlike
  <2>2. k # 0 => k \in Indexes(d)
    BY <1>1 DEF RequestKept
  <2>3. m \in Nat /\ k \in Nat /\ Len(d.activations) \in Nat /\ Len(e.activations) \in Nat
        /\ Indexes(d) = 1..Len(d.activations) /\ Indexes(e) = 1..Len(e.activations)
    BY <1>1, <1>5, LedgerFields DEF RequestRow
  <2>5. RequestExtends(d, e, r)
    BY <1>3
  <2>6. PhaseOf(e, r) = PhaseOf(d, r)
        /\ (e.request[r].status = "reply_ready" <=> d.request[r].status = "reply_ready")
    BY <2>5 DEF RequestExtends, PhaseOf
  <2>7. CASE m = k
    <3>1. k # 0 => e.activations[k] = d.activations[k]
      BY <1>3, <2>2 DEF Added
    <3>2. e.generation = d.generation /\ e.obligation = d.obligation
      BY <1>3 DEF Frame
    <3> HIDE DEF k, m
    <3>3. ActiveCurrent(e, k, ReturnActor[r], "request_reply")
            <=> ActiveCurrent(d, k, ReturnActor[r], "request_reply")
      BY <3>1, <3>2 DEF ActiveCurrent
    <3>4. ActiveCurrent(d, k, ReturnActor[r], "request_reply") => e.activations[k] = d.activations[k]
      BY <3>1 DEF ActiveCurrent
    <3> QED BY <2>1, <2>6, <2>7, <3>2, <3>3, <3>4 DEF Alike, HeldOf, Held0, k, m
  <2>8. CASE m # k
    <3>1. m > Len(d.activations) /\ ~Held0(d, r)
      BY <2>5, <2>8 DEF RequestExtends
    <3>2. m \in Indexes(e)
      <4>1. RequestKept(e, r) /\ m # 0
        BY <1>5, <2>3, <3>1
      <4> QED BY <4>1 DEF RequestKept
    <3>3. e.activations[m].status = "pending"
      BY <1>3, <2>3, <3>1, <3>2 DEF Added
    <3>4. e.generation = d.generation /\ e.obligation = d.obligation
      BY <1>3 DEF Frame
    <3> HIDE DEF m, k
    <3> QED BY <2>1, <2>6, <3>1, <3>3, <3>4 DEF Alike, HeldOf, m
  <2> QED BY <2>7, <2>8
<1> QED BY <1>1, <1>3, <1>4, <1>5, OnwardAdded DEF Quiet

(***************************************************************************)
(* Whom a primary write forgets.                                           *)
(***************************************************************************)
\* A notice that is revoked was owed to nobody outside O and W.
Spared(d, e, i, O, W) ==
  LET x == d.activations[i]
  IN /\ x.marks.obligation \in Obligation \ O /\ x.reason # "assignment_recovery"
          => ~Owed(e, x.marks.obligation)
     /\ x.reason \in OwnerControl /\ x.work \in Work \ W /\ x.actor = e.work[x.work].owner
          => ~Continues(e, x.work)

LEMMA ThinnedRoutes ==
  ASSUME NEW d \in Ledgers, NEW e \in Ledgers, Thinned(d, e), NEW O, NEW W,
         d.stopped \subseteq e.stopped,
         \A o \in Obligation \ O : /\ SameNotices(d, e, o)
                                   /\ e.generation[Assignee[o]] = d.generation[Assignee[o]]
                                   /\ ContinuationAllowed(e, o) => ContinuationAllowed(d, o),
         \A w \in Work \ W : /\ e.work[w] = d.work[w]
                             /\ e.generation[e.work[w].owner] = d.generation[d.work[w].owner],
         \A i \in Indexes(d) : /\ d.activations[i].status \in Live
                               /\ e.activations[i].status \notin Live
                               => Spared(d, e, i, O, W)
  PROVE  Routes(d, e, O, W)
<1>1. /\ Indexes(e) = Indexes(d)
      /\ \A i \in Indexes(d) :
           /\ e.activations[i].work = d.activations[i].work
           /\ e.activations[i].actor = d.activations[i].actor
           /\ e.activations[i].revision = d.activations[i].revision
           /\ e.activations[i].endpoint = d.activations[i].endpoint
           /\ e.activations[i].generation = d.activations[i].generation
           /\ e.activations[i].reason = d.activations[i].reason
           /\ e.activations[i].marks = d.activations[i].marks
           /\ e.activations[i].status = "claimed" <=> d.activations[i].status = "claimed"
  BY DEF Thinned
<1>2. ASSUME NEW o \in Obligation \ O
      PROVE  /\ e.obligation[o] = d.obligation[o]
             /\ e.assignment[o].mode = d.assignment[o].mode
             /\ e.generation[Assignee[o]] = d.generation[Assignee[o]]
             /\ Owed(e, o) => Owed(d, o)
  <2>1. /\ e.obligation[o] = d.obligation[o] /\ e.assignment[o].mode = d.assignment[o].mode
        /\ e.generation[Assignee[o]] = d.generation[Assignee[o]]
        /\ ContinuationAllowed(e, o) => ContinuationAllowed(d, o)
    BY DEF SameNotices
  <2>2. ExplicitStop(d, WorkOf[o], Assignee[o]) => ExplicitStop(e, WorkOf[o], Assignee[o])
    BY DEF ExplicitStop
  <2> QED BY <2>1, <2>2 DEF Owed
<1>3. ASSUME NEW o \in Obligation \ O, DebtRouted(d, o), Owed(e, o)
      PROVE  e.obligation[o].claim # 0 \/ Noticed(e, o)
  <2>1. d.obligation[o].claim # 0 \/ Noticed(d, o)
    BY <1>2, <1>3 DEF DebtRouted
  <2>2. CASE Noticed(d, o)
    <3>1. PICK i \in Indexes(d) : /\ d.activations[i].status \in Live
                                  /\ d.activations[i].marks.obligation = o
                                  /\ d.activations[i].reason # "assignment_recovery"
      BY <2>2 DEF Noticed
    <3>2. e.activations[i].status \in Live
      BY <1>3, <3>1 DEF Spared
    <3> QED BY <1>1, <3>1, <3>2 DEF Noticed
  <2> QED BY <1>2, <2>1, <2>2
<1>4. ASSUME NEW o \in Obligation \ O, InStep(d, o) PROVE InStep(e, o)
  BY <1>1, <1>2, <1>4 DEF InStep
<1>5. ASSUME NEW w \in Work \ W, OwnerRouted(d, w), Continues(e, w)
      PROVE  \E i \in Indexes(e) : OwnerRoute(e, w, e.activations[i])
  <2>1. e.work[w] = d.work[w] /\ e.generation[e.work[w].owner] = d.generation[d.work[w].owner]
    OBVIOUS
  <2>2. Continues(d, w)
    BY <1>5, <2>1 DEF Continues, ExplicitStop
  <2>3. PICK i \in Indexes(d) : OwnerRoute(d, w, d.activations[i])
    BY <1>5, <2>2 DEF OwnerRouted
  <2>4. e.activations[i].status \in Active
    <3>1. CASE d.activations[i].status = "claimed"
      BY <1>1, <3>1 DEF Active
    <3>2. CASE d.activations[i].status \in Live
      BY <1>5, <2>1, <2>3, <3>2 DEF Spared, OwnerRoute, Active
    <3> QED BY <2>3, <3>1, <3>2 DEF OwnerRoute, Active
  <2>5. OwnerRoute(e, w, e.activations[i])
    BY <1>1, <2>1, <2>3, <2>4 DEF OwnerRoute
  <2> QED BY <1>1, <2>5
<1> QED BY <1>3, <1>4, <1>5 DEF Routes, DebtRouted, OwnerRouted

(***************************************************************************)
(* Revocations, and writes that touch no debt.                             *)
(***************************************************************************)
\* What a revocation leaves alone.
Rest(d, e) ==
  /\ Frame(d, e) /\ e.results = d.results /\ e.request = d.request /\ e.replyOwner = d.replyOwner

RevokedRows(d, e, rows) ==
  \A i \in Indexes(d) :
    e.activations[i].status =
      IF i \in rows /\ d.activations[i].status \in Live THEN "revoked" ELSE d.activations[i].status

LEMMA RevokeEffect ==
  ASSUME NEW d \in Ledgers, NEW rows
  PROVE  LET e == Revoke(d, rows)
         IN /\ e \in Ledgers /\ Rest(d, e) /\ e.incidents = d.incidents
            /\ Thinned(d, e) /\ Onward(d, e) /\ RevokedRows(d, e, rows)
<1> DEFINE s == d.activations
           t == [i \in DOMAIN s |-> IF i \in rows /\ s[i].status \in Live
                                    THEN [s[i] EXCEPT !.status = "revoked"] ELSE s[i]]
           e == Revoke(d, rows)
<1>1. s \in Seq(Row) /\ Len(s) \in Nat /\ DOMAIN s = 1..Len(s) /\ Indexes(d) = DOMAIN s
  BY LedgerFields DEF Indexes
<1>2. \A i \in DOMAIN s : s[i] \in Row
  BY <1>1
<1> HIDE DEF s
<1>3. ASSUME NEW x \in Row PROVE [x EXCEPT !.status = "revoked"] \in Row
  BY DEF Row
<1>4. t \in [1..Len(s) -> Row]
  BY <1>1, <1>2, <1>3
<1>5. t \in Seq(Row)
  BY <1>1, <1>4, SeqDef
<1>6. DOMAIN t = DOMAIN s
  OBVIOUS
<1>7. \A i \in DOMAIN s :
        t[i] = IF i \in rows /\ s[i].status \in Live
               THEN [s[i] EXCEPT !.status = "revoked"] ELSE s[i]
  OBVIOUS
<1>8. e = [d EXCEPT !.activations = t]
  BY DEF Revoke, s
<1> HIDE DEF t, e
<1>9. /\ e \in Ledgers /\ e.activations = t /\ Rest(d, e) /\ e.incidents = d.incidents
  BY <1>5, <1>8 DEF Ledgers, Rest, Frame
<1>10. Indexes(e) = Indexes(d)
  BY <1>1, <1>6, <1>9 DEF Indexes
<1>11. \A i \in Indexes(d) :
        LET x == d.activations[i]
            y == e.activations[i]
        IN /\ y.work = x.work /\ y.actor = x.actor /\ y.revision = x.revision
           /\ y.endpoint = x.endpoint /\ y.generation = x.generation /\ y.reason = x.reason
           /\ y.marks = x.marks
           /\ y.status = IF i \in rows /\ x.status \in Live THEN "revoked" ELSE x.status
  <2> SUFFICES ASSUME NEW i \in Indexes(d)
               PROVE  LET x == s[i]
                          y == t[i]
                      IN /\ y.work = x.work /\ y.actor = x.actor /\ y.revision = x.revision
                         /\ y.endpoint = x.endpoint /\ y.generation = x.generation /\ y.reason = x.reason
                         /\ y.marks = x.marks
                         /\ y.status = IF i \in rows /\ x.status \in Live THEN "revoked" ELSE x.status
    BY <1>9 DEF s
  <2> QED BY <1>1, <1>2, <1>7 DEF Row
<1>12. Thinned(d, e)
  BY <1>10, <1>11 DEF Thinned, Live
<1>13. RevokedRows(d, e, rows) /\ Onward(d, e)
  BY <1>10, <1>11 DEF RevokedRows, Onward
<1> QED BY <1>9, <1>12, <1>13 DEF e

LEMMA CloseEffect ==
  ASSUME NEW d \in Ledgers, NEW rows
  PROVE  LET e == CloseIncidents(d, rows)
         IN /\ e \in Ledgers /\ Rest(d, e) /\ e.activations = d.activations
            /\ e.incidents = {n \in d.incidents : n.nudge \notin rows}
<1> DEFINE s == {n \in d.incidents : n.nudge \notin rows}
           e == CloseIncidents(d, rows)
<1>1. s \in SUBSET IncidentRow
  BY LedgerFields
<1>2. e = [d EXCEPT !.incidents = s]
  BY DEF CloseIncidents
<1> HIDE DEF s, e
<1>3. e \in Ledgers /\ Rest(d, e) /\ e.activations = d.activations /\ e.incidents = s
  BY <1>1, <1>2 DEF Ledgers, Rest, Frame
<1> QED BY <1>3 DEF s, e

LEMMA ThinnedSame ==
  ASSUME NEW d, NEW e, NEW f, e.activations = d.activations
  PROVE  /\ Thinned(d, e) /\ Onward(d, e)
         /\ Thinned(e, f) <=> Thinned(d, f)
         /\ Onward(e, f) <=> Onward(d, f)
         /\ Thinned(f, e) <=> Thinned(f, d)
         /\ Onward(f, e) <=> Onward(f, d)
BY DEF Thinned, Onward, Indexes

LEMMA GrownSame ==
  ASSUME NEW d \in Ledgers, NEW e \in Ledgers, e.generation = d.generation,
         e.obligation = d.obligation, e.request = d.request,
         \A w \in Work : d.work[w].mode # "none" => e.work[w].mode # "none"
  PROVE  Grown(d, e)
<1>1. \A a \in Actor : d.generation[a] \in Nat
  BY LedgerFields
<1>2. \A o \in Obligation : d.obligation[o].generation \in Nat
  BY LedgerFields DEF DebtRow
<1> QED BY <1>1, <1>2 DEF Grown

\* What a row of a work that stays live is about is as it was.
OwnerStays(d, e, i) ==
  LET x == d.activations[i]
      o == x.marks.obligation
  IN /\ o # None /\ RequestOf(o) = None /\ e.work[x.work].mode = "complete"
          => d.work[x.work].mode = "complete"
     /\ o = None /\ x.marks.request = None => e.work[x.work] = d.work[x.work]
     /\ \A n \in d.incidents : n.nudge = i => n \in e.incidents

\* What the assignments and the requests are read from.
SameDebts(d, e) ==
  /\ e.generation = d.generation /\ e.obligation = d.obligation /\ e.request = d.request
  /\ \A o \in Obligation : e.assignment[o].mode = d.assignment[o].mode
  /\ Outcomes(e) = Outcomes(d) /\ d.armed \subseteq e.armed

LEMMA WorkWriteGood ==
  ASSUME NEW d, NEW P, GoodBut(d, P), NEW e \in Ledgers, Thinned(d, e), SameDebts(d, e),
         \A w \in Work : /\ WorkKept(e, w)
                         /\ d.work[w].mode # "none" => e.work[w].mode # "none",
         \A i \in Indexes(d) : e.activations[i].status \in Live => OwnerStays(d, e, i),
         \A n \in e.incidents : n.nudge \in Indexes(d)
  PROVE  GoodBut(e, P) /\ Quiet(d, e)
<1>1. /\ d \in Ledgers
      /\ \A o \in Obligation : DebtKept(d, o)
      /\ \A r \in Request : RequestKept(d, r)
      /\ \A o \in Obligation \ P : Settled(d, o)
  BY GoodParts
<1>2. /\ e.generation = d.generation /\ e.obligation = d.obligation /\ e.request = d.request
      /\ \A o \in Obligation : e.assignment[o].mode = d.assignment[o].mode
      /\ Outcomes(e) = Outcomes(d) /\ d.armed \subseteq e.armed
  BY DEF SameDebts
<1>3. Grown(d, e)
  BY <1>1, <1>2, GrownSame
<1>4. \A o \in Obligation : SameNotices(d, e, o)
  BY <1>2 DEF SameNotices
<1>5. \A o \in Obligation : DebtKept(e, o)
  BY <1>1, <1>3, <1>4, DebtThinned
<1>6. \A r \in Request : RequestKept(e, r)
  BY <1>1, <1>2, <1>3, RequestThinned
<1>7. ASSUME NEW i \in Indexes(d), e.activations[i].status \in Live PROVE Stays(d, e, i)
  BY <1>2, <1>7 DEF OwnerStays, Stays
<1>8. ASSUME NEW o \in Obligation \ P PROVE Settled(e, o)
  <2>1. Assignee[o] \in Actor
    BY LedgerConstants
  <2> QED BY <1>1, <1>2, <2>1, SettledThinned
<1>9. GoodBut(e, P)
  BY <1>1, <1>3, <1>4, <1>5, <1>6, <1>7, <1>8, ThinnedGood
<1>10. ASSUME NEW r \in Request PROVE Alike(d, e, r)
  <2>1. PhaseOf(e, r) = PhaseOf(d, r)
    BY <1>2 DEF PhaseOf
  <2>2. DebtOf[r] # None => DebtKept(d, DebtOf[r])
    BY <1>1, LedgerConstants
  <2> QED BY <1>1, <1>2, <2>1, <2>2, AlikeThinned
<1> QED BY <1>9, <1>10 DEF Quiet

(***************************************************************************)
(* Nobody is forgotten: what is owed has a claim or a live notice of the   *)
(* present generation at the present endpoint.                             *)
(***************************************************************************)
Reached(d, o) ==
  \/ CurrentClaim(d, o) # 0
  \/ \E i \in Indexes(d) : LET x == d.activations[i]
                           IN x.status \in Live /\ x.marks.obligation = o /\ x.actor = Assignee[o]
                                /\ x.endpoint = d.generation[x.actor]
                                /\ x.generation = d.obligation[o].generation

LEMMA ClaimReaches ==
  ASSUME NEW d, GoodBut(d, {}), NEW o \in Obligation, d.obligation[o].status = "open",
         d.obligation[o].claim # 0
  PROVE  Reached(d, o)
<1> DEFINE i == d.obligation[o].claim
           x == d.activations[i]
<1>1. DebtKept(d, o) /\ Settled(d, o) /\ o # None
  BY GoodParts, LedgerConstants
<1>2. /\ i \in Indexes(d) /\ x.status = "claimed" /\ x.marks.obligation = o
      /\ x.reason \in AssignmentReasons /\ x.generation = d.obligation[o].generation
  BY <1>1 DEF DebtKept
<1>3. Addressed(d, x)
  BY <1>2, GoodParts
<1> HIDE DEF i
<1>4. x.actor = Assignee[o]
  BY <1>1, <1>2, <1>3 DEF Addressed
<1>5. Current(d, i, o)
  BY <1>2 DEF Current, AssignmentReasons
<1>6. x.endpoint = d.generation[Assignee[o]]
  BY <1>1, <1>2, <1>5 DEF Settled, Active
<1> QED BY <1>2, <1>4, <1>6 DEF Reached, CurrentClaim, i

LEMMA NoticeReaches ==
  ASSUME NEW d, GoodBut(d, {}), NEW o \in Obligation, d.obligation[o].status = "open",
         NEW i \in Indexes(d), d.activations[i].marks.obligation = o,
         \/ d.activations[i].status \in Live
         \/ d.activations[i].status = "claimed" /\ Current(d, i, o)
  PROVE  Reached(d, o)
<1>1. /\ d \in Ledgers /\ Addressed(d, d.activations[i]) /\ LiveKept(d, i) /\ NoticeKept(d, i)
      /\ o # None
  BY GoodParts, LedgerConstants
<1>2. d.activations[i].actor = Assignee[o]
  BY <1>1 DEF Addressed
<1>3. CASE d.activations[i].status \in Live
  BY <1>1, <1>2, <1>3 DEF LiveKept, Reached
<1>4. CASE d.activations[i].status = "claimed" /\ Current(d, i, o)
  <2>1. d.obligation[o].claim = i
    BY <1>1, <1>4 DEF NoticeKept, Active
  <2>2. i # 0
    BY <1>1, LedgerFields
  <2> QED BY <2>1, <2>2, ClaimReaches
<1> QED BY <1>3, <1>4

LEMMA DebtReached ==
  ASSUME NEW d, GoodBut(d, {}), Routed(d), \A r \in Request : MessageRouted(d, r),
         NEW o \in Obligation, d.obligation[o].status = "open", WaitNoticed(d, o),
         ~ExplicitStop(d, WorkOf[o], Assignee[o]), ContinuationAllowed(d, o)
  PROVE  \/ Reached(d, o)
         \/ AssignmentWait(d, o) /\ ~AssignmentSatisfied(d, o)
<1> DEFINE mode == d.assignment[o].mode
<1>1. d \in Ledgers /\ o # None /\ DebtRouted(d, o) /\ InStep(d, o)
  BY GoodParts, LedgerConstants DEF Routed
<1>2. CASE mode = "waiting" /\ AssignmentSatisfied(d, o)
  <2>1. PICK i \in Indexes(d) : /\ d.activations[i].status \in Active
                                /\ d.activations[i].reason = "assignment_wait_satisfied"
                                /\ d.activations[i].generation = d.obligation[o].generation
                                /\ d.activations[i].marks.obligation = o
    BY <1>2 DEF WaitNoticed, ObligationRoutes
  <2>2. Current(d, i, o)
    BY <2>1 DEF Current
  <2> QED BY <2>1, <2>2, NoticeReaches DEF Active
<1>3. CASE Owed(d, o)
  <2>1. CASE d.obligation[o].claim # 0
    BY <2>1, ClaimReaches
  <2>2. CASE Noticed(d, o)
    BY <2>2, NoticeReaches DEF Noticed
  <2> QED BY <1>1, <1>3, <2>1, <2>2 DEF DebtRouted
<1>4. CASE mode = "none" /\ RequestOf(o) # None
  <2>1. PICK r \in Request : DebtOf[r] = o
    BY <1>4 DEF RequestOf
  <2>2. WorkOf[o] = WorkOf[r] /\ Assignee[o] = Assignee[r]
    BY <1>1, <2>1, LedgerConstants
  <2>3. RequestKept(d, r) /\ d.request[r] \in RequestRow
    BY <1>1, GoodParts, LedgerFields
  <2>4. d.request[r].status \in {"delivery_pending", "claimed"}
    BY <1>1, <2>1, <2>3 DEF RequestKept, RequestRow
  <2> DEFINE i == d.request[r].message
             x == d.activations[i]
  <2>5. ActiveCurrent(d, i, Assignee[r], "request_message")
    BY <1>4, <2>1, <2>2, <2>4 DEF MessageRouted
  <2>6. i \in Indexes(d) /\ x.marks.request = r
    BY <2>3, <2>5 DEF ActiveCurrent, RequestKept
  <2> HIDE DEF i
  <2>7. /\ x.actor = Assignee[o] /\ x.reason = "request_message" /\ x.status \in Active
        /\ x.endpoint = d.generation[Assignee[o]]
    BY <2>2, <2>5 DEF ActiveCurrent
  <2>8. Addressed(d, x) /\ r # None
    BY <2>6, GoodParts, LedgerConstants
  <2>9. x.marks.obligation = o
    BY <2>1, <2>6, <2>7, <2>8 DEF Addressed
  <2>10. x.status = "claimed" => Current(d, i, o)
    BY <1>1, <1>4, <2>6, <2>7, <2>9 DEF InStep, Current
  <2> QED BY <2>6, <2>7, <2>9, <2>10, NoticeReaches DEF Active
<1> QED BY <1>2, <1>3, <1>4 DEF Owed, AssignmentWait

LEMMA OwnerReached ==
  ASSUME NEW d, Routed(d), NEW w \in Work, WaitRouted(d, w),
         d.work[w].mode \in {"continue", "waiting"}, ~ExplicitStop(d, w, d.work[w].owner)
  PROVE  \/ d.work[w].mode = "waiting" /\ ~WaitSatisfied(d, w)
         \/ \E reason \in OwnerControl : OwnerRoutes(d, w, reason) # {}
         \/ CompletionReplies(d, w) # {}
<1>1. CASE d.work[w].mode = "continue"
  <2>1. PICK i \in Indexes(d) : OwnerRoute(d, w, d.activations[i])
    BY <1>1 DEF Routed, OwnerRouted, Continues
  <2>2. i \in OwnerRoutes(d, w, d.activations[i].reason) /\ d.activations[i].reason \in OwnerControl
    BY <2>1 DEF OwnerRoutes, OwnerRoute
  <2> QED BY <2>2
<1>2. CASE d.work[w].mode = "waiting" /\ WaitSatisfied(d, w)
  <2>1. "wait_satisfied" \in OwnerControl
    BY DEF OwnerControl
  <2> QED BY <1>2, <2>1 DEF WaitRouted
<1> QED BY <1>1, <1>2
====
