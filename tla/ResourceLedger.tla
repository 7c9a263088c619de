---------------------------- MODULE ResourceLedger ----------------------------
(***************************************************************************)
(* The resource ledger of src/orchestrator_engine/resource_queue.py: one   *)
(* SQLite authority whose BEGIN IMMEDIATE transactions submit requests,    *)
(* grant each stage a complete set of physical leaves, and take the leaves *)
(* back only with evidence.                                                *)
(*                                                                         *)
(* Every transaction is one action, except the scheduling pass, whose loop *)
(* over the ready stages is one action per stage: while `pass` is open the *)
(* write lock of BEGIN IMMEDIATE keeps every other transaction out.        *)
(*                                                                         *)
(* Callers are arbitrary here: any legal call, in any order, with any      *)
(* epoch and release set.  ResourceAuthority composes this module with the *)
(* service and the runners that really make the calls.                     *)
(*                                                                         *)
(* Abstracted: the selector search (`assignments`) is the set Options[s]   *)
(* of complete scopes of a stage, of which a grant takes any feasible one  *)
(* (the code's scarcity order picks one of them); reasons, timestamps,     *)
(* blockers and bypass counts are reporting data and are left out.         *)
(***************************************************************************)
EXTENDS Naturals, FiniteSets, Functions

CONSTANTS
  Stage,        \* the stages of every plan
  Request,      \* the requests
  Leaf,         \* the physical leaves of the registry
  Subscriber,   \* subscriber identities
  Class,        \* compatibility classes of shared claims
  Project,      \* the registered projects
  RequestOf,    \* [Stage -> Request]
  ProjectOf,    \* [Request -> Project]
  After,        \* [Stage -> SUBSET Stage]: the `after` of a stage
  PlanBefore,   \* order of the definitions of one plan
  Options,      \* [Stage -> set of scopes]: assignments(registry, needs)
  Capacity,     \* [Leaf -> 1..MaxUnits]
  Coupled,      \* [Leaf -> SUBSET Leaf]: leaves of the same recovery_group
  RunnerOutcome, \* the outcomes callers report to finish
  MaxUnits,     \* the largest capacity of a leaf
  MaxGeneration \* [Request -> Nat]: bound on its subscription generations

VARIABLES
  state,           \* [Stage -> state], "absent" before submission
  epoch,           \* [Stage -> Nat]
  allocation,      \* [Stage -> scope]
  protection,      \* [Stage -> scope], EmptyScope when not protected
  launchToken,     \* stages whose launch token is still stored
  cancelRequested, \* stages with cancel_requested
  outcome,         \* [Stage -> recorded outcome or "none"]
  released,        \* leaves released since the last pass
  submittedBefore, \* order of `seq`
  readyBefore,     \* order of `ready_seq`, on the stages in `readied`
  readied,         \* waiting stages that have a ready_seq
  subscribed,      \* [Request -> SUBSET Subscriber]
  generation,      \* [Request -> [Subscriber -> Nat]]
  outbox,          \* the rows ever inserted
  pass             \* the open scheduling pass, or NoPass

order == <<submittedBefore, readyBefore, readied>>
subscriptions == <<subscribed, generation>>
owned == <<epoch, allocation, launchToken, outcome>>
vars == <<state, owned, protection, cancelRequested, released, order,
          subscriptions, outbox, pass>>

Terminal == {"passed", "failed", "cancelled", "invalidated", "skipped"}
Owning == {"granted", "launching", "running", "recovery_required"}
States == {"absent", "waiting"} \cup Owning \cup Terminal

\* No two stages come before each other, nor a stage before itself.
IsAsymmetric(before) ==
  \A s, t \in Stage : <<s, t>> \in before => <<t, s>> \notin before

Claim == [mode : {"exclusive", "shared"}, class : Class, units : 1..MaxUnits]
Scope == UNION {[L -> Claim] : L \in SUBSET Leaf}
EmptyScope == [l \in {} |-> l]
NoPass == [open |-> FALSE, todo |-> {}, veterans |-> {}, released |-> {},
           requests |-> {}]

Statuses == {"action_required", "passed", "failed", "cancelled"}
Row == [request : Request, subscriber : Subscriber, generation : Nat,
        status : Statuses, incident : SUBSET (Stage \X Nat)]

ASSUME StageAssumption == IsFiniteSet(Stage)
ASSUME RequestOfAssumption == RequestOf \in [Stage -> Request]
ASSUME ProjectOfAssumption == ProjectOf \in [Request -> Project]
ASSUME AfterAssumption == After \in [Stage -> SUBSET Stage]
ASSUME PlanBeforeAssumption ==
  PlanBefore \in SUBSET (Stage \X Stage) /\ IsAsymmetric(PlanBefore)
ASSUME OptionsAssumption == Options \in [Stage -> SUBSET Scope]
ASSUME CapacityAssumption == Capacity \in [Leaf -> 1..MaxUnits]
ASSUME CoupledAssumption == Coupled \in [Leaf -> SUBSET Leaf]
ASSUME RunnerOutcomeAssumption == RunnerOutcome \subseteq Terminal
ASSUME MaxGenerationAssumption == MaxGeneration \in [Request -> Nat]
ASSUME MaxUnitsAssumption == MaxUnits \in Nat

StagesOf(r) == {s \in Stage : RequestOf[s] = r}
Owners == {s \in Stage : state[s] \in Owning}
Waiting == {s \in Stage : state[s] = "waiting"}
Idle == pass = NoPass

(***************************************************************************)
(* compatible(registry, allocation, others): `others` is a function from   *)
(* holders to scopes.                                                      *)
(***************************************************************************)
Agree(c, d) == c.mode = "shared" /\ d.mode = "shared" /\ c.class = d.class

HoldersOf(l, others) == {h \in DOMAIN others : l \in DOMAIN others[h]}

UnitsHeld(l, others) ==
  SumFunction([h \in HoldersOf(l, others) |-> others[h][l].units])

\* Mutant: compatibility by units alone.
Compatible_UnitsOnly(scope, others) ==
  \A l \in DOMAIN scope : scope[l].units + UnitsHeld(l, others) <= Capacity[l]

Compatible(scope, others) ==
  \A l \in DOMAIN scope :
    /\ scope[l].units <= Capacity[l]
    /\ HoldersOf(l, others) # {} =>
         /\ \A h \in HoldersOf(l, others) : Agree(scope[l], others[h][l])
         /\ scope[l].units + UnitsHeld(l, others) <= Capacity[l]

(***************************************************************************)
(* _outcomes(requests): the outbox rows the given stage states call for.   *)
(* INSERT OR IGNORE on an identity built from request, subscriber,         *)
(* generation, status and the incidents makes the outbox a set.            *)
(***************************************************************************)
Incident(r, st, ep) ==
  {<<s, ep[s]>> : s \in {t \in StagesOf(r) : st[t] = "recovery_required"}}

Status(r, st) ==
  IF \E s \in StagesOf(r) : st[s] = "recovery_required" THEN "action_required"
  ELSE IF \A s \in StagesOf(r) : st[s] = "passed" THEN "passed"
  ELSE IF \A s \in StagesOf(r) : st[s] \in {"cancelled", "skipped"}
       THEN "cancelled" ELSE "failed"

\* Mutant: the first failed stage settles its request.
Settled_FirstFailure(r, st) ==
  \/ \E s \in StagesOf(r) : st[s] \in {"recovery_required", "failed"}
  \/ \A s \in StagesOf(r) : st[s] \in Terminal

Settled(r, st) ==
  \/ \E s \in StagesOf(r) : st[s] = "recovery_required"
  \/ \A s \in StagesOf(r) : st[s] \in Terminal

RowFor(r, u, st, ep, gens) ==
  [request |-> r, subscriber |-> u, generation |-> gens[r][u],
   status |-> Status(r, st), incident |-> Incident(r, st, ep)]

Audience(requests, st, subs) ==
  {x \in requests \X Subscriber : Settled(x[1], st) /\ x[2] \in subs[x[1]]}

OutcomeRows(requests, st, ep, subs, gens) ==
  {RowFor(x[1], x[2], st, ep, gens) : x \in Audience(requests, st, subs)}

\* Mutant: outcomes taken before the stages are updated.
Outcomes_Early(requests) ==
  outbox' = outbox \cup OutcomeRows(requests, state, epoch, subscribed, generation)

Outcomes(requests) ==
  outbox' = outbox \cup
            OutcomeRows(requests, state', epoch', subscribed', generation')

(***************************************************************************)
(* submit: one row per stage, all waiting, ordered after every earlier     *)
(* submission; a replay of a known request changes nothing.                *)
(***************************************************************************)
Submitted(r) == \E s \in StagesOf(r) : state[s] # "absent"

Submit(r, subscribers) ==
  /\ Idle
  /\ StagesOf(r) # {}
  /\ ~Submitted(r)
  /\ \A s \in StagesOf(r) : Options[s] # {}
  /\ state' = [s \in Stage |->
                 IF s \in StagesOf(r) THEN "waiting" ELSE state[s]]
  /\ submittedBefore' =
       submittedBefore
         \cup ({s \in Stage : state[s] # "absent"} \X StagesOf(r))
         \cup (PlanBefore \cap (StagesOf(r) \X StagesOf(r)))
  /\ subscribed' = [subscribed EXCEPT ![r] = subscribers]
  /\ generation' = [generation EXCEPT ![r] =
                      [u \in Subscriber |-> IF u \in subscribers THEN 1 ELSE 0]]
  /\ UNCHANGED <<owned, protection, cancelRequested, released, readyBefore,
                 readied, outbox, pass>>

(***************************************************************************)
(* schedule, first loop: consume the release trigger, skip the dependants  *)
(* of failed stages (a stage skipped earlier in the loop counts, because   *)
(* siblings are read back), and give a ready_seq to the newly ready.       *)
(***************************************************************************)
DependencyFailed(p) ==
  \/ state[p] \in Terminal \ {"passed"}
  \/ state[p] = "recovery_required" /\ outcome[p] # "passed"

SkippedByPass(skipped) ==
  \A s \in Waiting :
    s \in skipped <=>
      \E p \in After[s] :
        DependencyFailed(p) \/ (p \in skipped /\ <<p, s>> \in submittedBefore)

\* Mutant: a quarantined success already releases its dependants.
Ready_Early(skipped, unavailable) ==
  {s \in Waiting \ skipped :
     /\ \A p \in After[s] : state[p] = "passed" \/ outcome[p] = "passed"
     /\ ProjectOf[RequestOf[s]] \notin unavailable}

Ready(skipped, unavailable) ==
  {s \in Waiting \ skipped :
     /\ \A p \in After[s] : state[p] = "passed"
     /\ ProjectOf[RequestOf[s]] \notin unavailable}

ReadyEarlier(s, t) ==
  \/ s \in readied /\ t \in readied /\ <<s, t>> \in readyBefore
  \/ s \in readied /\ t \notin readied
  \/ s \notin readied /\ t \notin readied /\ <<s, t>> \in submittedBefore

ReadyOrder(ready) == {x \in ready \X ready : ReadyEarlier(x[1], x[2])}

ScheduleBegin(unavailable) ==
  /\ Idle
  /\ \E skipped \in SUBSET Waiting :
       /\ SkippedByPass(skipped)
       /\ LET ready == Ready(skipped, unavailable) IN
            /\ state' = [s \in Stage |->
                           IF s \in skipped THEN "skipped" ELSE state[s]]
            /\ protection' = [s \in Stage |->
                 IF s \in Waiting \ ready THEN EmptyScope ELSE protection[s]]
            /\ readyBefore' = ReadyOrder(ready)
            /\ readied' = ready
            /\ pass' = [open |-> TRUE, todo |-> ready, veterans |-> readied,
                        released |-> released,
                        requests |-> {RequestOf[s] : s \in Waiting \cup Owners}]
  /\ released' = {}
  /\ UNCHANGED <<owned, cancelRequested, submittedBefore, subscriptions, outbox>>

(***************************************************************************)
(* schedule, second loop: the ready stages from the oldest to the youngest.*)
(***************************************************************************)
Quarantine ==
  UNION {DOMAIN allocation[s] : s \in {t \in Stage : state[t] = "recovery_required"}}

Held == [s \in Owners |-> allocation[s]]

\* The protections decided so far in this pass.
Shielding == {s \in readied \ pass.todo : protection[s] # EmptyScope}
Shield == [s \in Shielding |-> protection[s]]

\* Mutants: grants of the pass, or protections, are left out of what is occupied.
Occupied_Stale == [s \in {t \in Owners : state[t] # "granted"} |-> allocation[s]]
Occupied_NoShield == Held

Occupied == [s \in Owners \cup Shielding |->
               IF s \in Owners THEN allocation[s] ELSE protection[s]]

Oldest(s) ==
  s \in pass.todo /\ \A t \in pass.todo \ {s} : <<s, t>> \in readyBefore

Feasible(s) ==
  {o \in Options[s] : DOMAIN o \cap Quarantine = {} /\ Compatible(o, Occupied)}

StillProtected(s) ==
  /\ protection[s] # EmptyScope
  /\ DOMAIN protection[s] \cap Quarantine = {}
  /\ Compatible(protection[s], Shield)

\* What a release lets a stage that was already ready protect.
Protectable(s) ==
  {o \in Options[s] :
     /\ s \in pass.veterans
     /\ DOMAIN o \cap pass.released # {}
     /\ DOMAIN o \cap Quarantine = {}
     /\ Compatible(o, Shield)}

Decided(s) == pass' = [pass EXCEPT !.todo = @ \ {s}]

Grant(s) ==
  /\ Oldest(s)
  /\ \E o \in Feasible(s) : allocation' = [allocation EXCEPT ![s] = o]
  /\ state' = [state EXCEPT ![s] = "granted"]
  /\ epoch' = [epoch EXCEPT ![s] = @ + 1]
  /\ launchToken' = launchToken \cup {s}
  /\ protection' = [protection EXCEPT ![s] = EmptyScope]
  /\ readied' = readied \ {s}
  /\ readyBefore' = readyBefore \cap (readied' \X readied')
  /\ Decided(s)
  /\ UNCHANGED <<cancelRequested, outcome, released, submittedBefore,
                 subscriptions, outbox>>

Protect(s) ==
  /\ Oldest(s)
  /\ Feasible(s) = {}
  /\ \/ StillProtected(s) /\ UNCHANGED protection
     \/ /\ ~StillProtected(s)
        /\ \E o \in Protectable(s) : protection' = [protection EXCEPT ![s] = o]
     \/ /\ ~StillProtected(s)
        /\ Protectable(s) = {}
        /\ protection' = [protection EXCEPT ![s] = EmptyScope]
  /\ Decided(s)
  /\ UNCHANGED <<state, owned, cancelRequested, released, order, subscriptions,
                 outbox>>

ScheduleCommit ==
  /\ pass.open
  /\ pass.todo = {}
  /\ pass' = NoPass
  /\ UNCHANGED <<state, owned, protection, cancelRequested, released, order,
                 subscriptions>>
  /\ Outcomes(pass.requests)

(***************************************************************************)
(* attach, admit: the launch barrier.  The token is identified with the    *)
(* grant it was made for; `holdsToken` says whether the caller has it.     *)
(***************************************************************************)
Attach(s, e) ==
  /\ Idle
  /\ state[s] = "granted"
  /\ epoch[s] = e
  /\ state' = [state EXCEPT ![s] = "launching"]
  /\ UNCHANGED <<owned, protection, cancelRequested, released, order,
                 subscriptions, outbox, pass>>

\* Mutant: cancellation is forgotten at the barrier.
Admissible_Cancelled(s) == state[s] = "launching" /\ s \in launchToken

Admissible(s) ==
  state[s] = "launching" /\ s \notin cancelRequested /\ s \in launchToken

Admit(s) ==
  /\ Idle
  /\ Admissible(s)
  /\ state' = [state EXCEPT ![s] = "running"]
  /\ UNCHANGED <<owned, protection, cancelRequested, released, order,
                 subscriptions, outbox, pass>>

Cancel(r) ==
  /\ Idle
  /\ Submitted(r)
  /\ LET dropped == Waiting \cap StagesOf(r) IN
       /\ state' = [s \in Stage |->
                      IF s \in dropped THEN "cancelled" ELSE state[s]]
       /\ protection' = [s \in Stage |->
                           IF s \in dropped THEN EmptyScope ELSE protection[s]]
       /\ readied' = readied \ dropped
       /\ readyBefore' = readyBefore \cap (readied' \X readied')
  /\ cancelRequested' = cancelRequested \cup (Owners \cap StagesOf(r))
  /\ UNCHANGED <<owned, released, submittedBefore, subscriptions, pass>>
  /\ Outcomes({r})

(***************************************************************************)
(* subscribe: a new or returning identity opens the next generation;       *)
(* remove closes it.  Both may insert the rows of a settled request.       *)
(***************************************************************************)
Subscribe(r, u) ==
  /\ Idle
  /\ Submitted(r)
  /\ IF u \in subscribed[r]
     THEN UNCHANGED subscriptions
     ELSE /\ generation[r][u] < MaxGeneration[r]
          /\ subscribed' = [subscribed EXCEPT ![r] = @ \cup {u}]
          /\ generation' = [generation EXCEPT ![r][u] = @ + 1]
  /\ UNCHANGED <<state, owned, protection, cancelRequested, released, order, pass>>
  /\ Outcomes({r})

Unsubscribe(r, u) ==
  /\ Idle
  /\ Submitted(r)
  /\ subscribed' = [subscribed EXCEPT ![r] = @ \ {u}]
  /\ UNCHANGED <<state, owned, protection, cancelRequested, released, order,
                 generation, pass>>
  /\ Outcomes({r})

(***************************************************************************)
(* _finish: release part or all of an allocation.  What is left makes the  *)
(* stage recovery_required; leaves of one recovery group go together.      *)
(***************************************************************************)
CoupledRelease(s, rel) ==
  \A l \in rel : Coupled[l] \cap DOMAIN allocation[s] \subseteq rel

\* What is left of an allocation quarantines the stage.
\* Mutants: success ends a stage, a stage goes back to the queue, an unknown state.
EndState_Trusting(kept, result) ==
  IF kept = {} \/ result = "passed" THEN result ELSE "recovery_required"
EndState_Requeue(kept, result) == IF kept = {} THEN result ELSE "waiting"
EndState_Unlisted(kept, result) == IF kept = {} THEN result ELSE "uncertain"

EndState(kept, result) == IF kept = {} THEN result ELSE "recovery_required"

\* Mutant: any completion of the epoch is taken.
FinishEnabled_EpochOnly(s, e, rel) ==
  Idle /\ epoch[s] = e /\ state[s] # "absent" /\ rel \subseteq DOMAIN allocation[s]

FinishEnabled(s, e, rel) ==
  /\ Idle
  /\ epoch[s] = e
  /\ state[s] \in Owning
  /\ rel \subseteq DOMAIN allocation[s]
  /\ CoupledRelease(s, rel)

FinishEffect(s, result, rel) ==
  LET kept == DOMAIN allocation[s] \ rel IN
    /\ state' = [state EXCEPT ![s] = EndState(kept, result)]
    /\ outcome' = [outcome EXCEPT ![s] = result]
    /\ allocation' = [allocation EXCEPT ![s] = Restrict(@, kept)]
    /\ launchToken' = launchToken \ {s}
    /\ released' = released \cup rel
    /\ UNCHANGED <<epoch, protection, cancelRequested, order, subscriptions, pass>>
    /\ Outcomes({RequestOf[s]})

Finish(s, e, result, rel) ==
  FinishEnabled(s, e, rel) /\ FinishEffect(s, result, rel)

\* abort_unadmitted with the token of a cancelled launch.
AbortCancelled(s, e) ==
  /\ state[s] = "launching"
  /\ s \in cancelRequested
  /\ s \in launchToken
  /\ Finish(s, e, "cancelled", DOMAIN allocation[s])

\* abort_unadmitted with the attached identity of a runner that got no token.
AbortUnlaunched(s, e) ==
  /\ state[s] = "launching"
  /\ Finish(s, e, "failed", DOMAIN allocation[s])

\* recover: only an exactly quarantined owner, with its recorded outcome.
RecordedOutcome(s) == IF outcome[s] = "none" THEN "failed" ELSE outcome[s]

Recover(s, e, rel) ==
  /\ state[s] = "recovery_required"
  /\ rel # {}
  /\ Finish(s, e, RecordedOutcome(s), rel)

-----------------------------------------------------------------------------
Init ==
  /\ state = [s \in Stage |-> "absent"]
  /\ epoch = [s \in Stage |-> 0]
  /\ allocation = [s \in Stage |-> EmptyScope]
  /\ protection = [s \in Stage |-> EmptyScope]
  /\ launchToken = {}
  /\ cancelRequested = {}
  /\ outcome = [s \in Stage |-> "none"]
  /\ released = {}
  /\ submittedBefore = {}
  /\ readyBefore = {}
  /\ readied = {}
  /\ subscribed = [r \in Request |-> {}]
  /\ generation = [r \in Request |-> [u \in Subscriber |-> 0]]
  /\ outbox = {}
  /\ pass = NoPass

Next ==
  \/ \E r \in Request, U \in SUBSET Subscriber :
       Cardinality(U) <= 1 /\ (U # {} => MaxGeneration[r] > 0) /\ Submit(r, U)
  \/ \E unavailable \in SUBSET Project : ScheduleBegin(unavailable)
  \/ \E s \in Stage : Grant(s) \/ Protect(s)
  \/ ScheduleCommit
  \/ \E s \in Stage : Attach(s, epoch[s])
  \/ \E s \in Stage : Admit(s)
  \/ \E r \in Request : Cancel(r)
  \/ \E r \in Request, u \in Subscriber : Subscribe(r, u) \/ Unsubscribe(r, u)
  \/ \E s \in Stage : AbortCancelled(s, epoch[s]) \/ AbortUnlaunched(s, epoch[s])
  \/ \E s \in Stage, result \in RunnerOutcome, rel \in SUBSET Leaf :
       Finish(s, epoch[s], result, rel)
  \/ \E s \in Stage, rel \in SUBSET Leaf : Recover(s, epoch[s], rel)

Spec == Init /\ [][Next]_vars

-----------------------------------------------------------------------------
(***************************************************************************)
(* Properties.                                                             *)
(***************************************************************************)
TypeOK ==
  /\ state \in [Stage -> States]
  /\ epoch \in [Stage -> Nat]
  /\ allocation \in [Stage -> Scope]
  /\ protection \in [Stage -> Scope]
  /\ launchToken \subseteq Stage
  /\ cancelRequested \subseteq Stage
  /\ outcome \in [Stage -> {"none"} \cup Terminal]
  /\ released \subseteq Leaf
  /\ submittedBefore \subseteq Stage \X Stage
  /\ readyBefore \subseteq Stage \X Stage
  /\ readied \subseteq Stage
  /\ subscribed \in [Request -> SUBSET Subscriber]
  /\ generation \in [Request -> [Subscriber -> Nat]]
  /\ outbox \subseteq Row
  /\ pass \in [open : BOOLEAN, todo : SUBSET Stage, veterans : SUBSET Stage,
               released : SUBSET Leaf, requests : SUBSET Request]

\* Two owners of one leaf hold compatible shared claims: neither a grant, nor a
\* partial release, nor quarantine lets an exclusive claim overlap another
\* (schedule, compatible, _finish).
NoConflict ==
  \A s, t \in Stage : \A l \in DOMAIN allocation[s] \cap DOMAIN allocation[t] :
    s # t => Agree(allocation[s][l], allocation[t][l])

\* The units claimed on a leaf by all its owners together, the quarantined ones
\* included, never exceed its capacity (compatible's sum).
WithinCapacity == \A l \in Leaf : UnitsHeld(l, allocation) <= Capacity[l]

\* Only an owner holds leaves, and an owner in quarantine holds at least one:
\* no terminal or waiting stage strands a leaf (schedule, _finish).
OnlyOwnersHold ==
  \A s \in Stage :
    /\ state[s] \notin Owning => allocation[s] = EmptyScope
    /\ state[s] = "recovery_required" => allocation[s] # EmptyScope

\* A stage owns leaves only after every stage it comes after has passed and
\* given back everything, however recovery, cancellation and skipping interleave.
DependenciesDone ==
  \A s \in Stage : state[s] \in Owning =>
    \A p \in After[s] : state[p] = "passed" /\ allocation[p] = EmptyScope

\* What the transactions keep true of the holdings, in every order of calls: no claim
\* beside one it conflicts with, units within capacity, nothing held by a stage that
\* does not own, and nothing owned before the dependencies gave everything back
\* (schedule, compatible, _finish).
HoldingsSound == NoConflict /\ WithinCapacity /\ OnlyOwnersHold /\ DependenciesDone

\* A request announces one final result only: rows with a final status agree,
\* and they state the outcome its stages still have (_outcomes, INSERT OR IGNORE).
OneFinalResult ==
  \A row \in outbox : row.status # "action_required" =>
    /\ \A s \in StagesOf(row.request) : state[s] \in Terminal
    /\ row.status = Status(row.request, state)

\* Between transactions every current subscriber of a settled request has the row
\* of its present result or incident: no transaction that settles a request, and
\* no late subscription, forgets _outcomes.
OutboxComplete ==
  Idle => OutcomeRows({r \in Request : Submitted(r)}, state, epoch, subscribed,
                      generation) \subseteq outbox

\* Subscribers learn each settled result, and one only, whichever transaction settles
\* it and whenever they subscribed (_outcomes).
OutboxSound == OneFinalResult /\ OutboxComplete

\* While a stage keeps the scope it protects, no younger stage is granted a scope
\* that conflicts with it (schedule's `others=occupied + protection`).
ProtectionHonoured ==
  [][\A s, t \in Stage :
       /\ protection[s] # EmptyScope
       /\ protection'[s] = protection[s]
       /\ <<s, t>> \in readyBefore
       /\ state[t] = "waiting" /\ state'[t] = "granted"
       => Compatible(protection[s], [h \in {t} |-> allocation'[t]])]_vars

\* A stage that ended never moves again and never regains a leaf: a stale
\* completion, abort or recovery of an ended stage changes nothing (_finish).
EndedStays ==
  \A s \in Stage : state[s] \in Terminal =>
    state'[s] = state[s] /\ allocation'[s] = EmptyScope /\ outcome'[s] = outcome[s]

EndedForGood == [][EndedStays]_vars

\* Refinement: the ledger implements ResourceScopes, whatever its callers do.
PhaseOf(st) ==
  CASE st \in {"absent", "waiting"} -> "pending"
    [] st \in Owning -> "held"
    [] st \in Terminal -> "over"

Phase == [s \in Stage |-> PhaseOf(state[s])]

Scopes == INSTANCE ResourceScopes
            WITH phase <- Phase, holds <- allocation, NoScope <- EmptyScope

\* A stage acquires its complete scope in one step, once, never in conflict, and
\* is over only after giving every leaf back (schedule, _finish).
ImplementsScopes == Scopes!Spec
===============================================================================
