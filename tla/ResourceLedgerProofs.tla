------------------------- MODULE ResourceLedgerProofs -------------------------
(***************************************************************************)
(* What the ledger guarantees for every plan, registry and capacity.       *)
(*                                                                         *)
(* Mutual exclusion is not inductive by itself: a grant is checked against *)
(* the owners only, so the invariant also needs that nobody else holds a   *)
(* leaf, and that the stages of an open pass are still waiting with their  *)
(* dependencies passed.                                                    *)
(***************************************************************************)
EXTENDS ResourceLedger, FiniteSetTheorems, WellFoundedInduction, TLAPS

-----------------------------------------------------------------------------
(***************************************************************************)
(* Sums of claimed units, for the theorems about capacities.               *)
(*                                                                         *)
(* SumFunction folds a function in an order that CHOOSE picks.  The sum of *)
(* a function with natural values is the number of its units, the pairs    *)
(* <<x, i>> with i in 1..F[x]; what a sum does when a claim is added,      *)
(* dropped or renamed is then a fact about cardinalities.                  *)
(***************************************************************************)
\* The units of the holders in s.
UnitsIn(s, F) == {p \in s \X Nat : 1 <= p[2] /\ p[2] <= F[p[1]]}

\* The units of one holder.
LEMMA UnitsOfOne ==
  ASSUME NEW x, NEW F, F[x] \in Nat
  PROVE  /\ IsFiniteSet(UnitsIn({x}, F))
         /\ Cardinality(UnitsIn({x}, F)) = F[x]
  <1>1. UnitsIn({x}, F) = {x} \X (1..F[x])
    BY DEF UnitsIn
  <1>2. IsFiniteSet(1..F[x]) /\ Cardinality(1..F[x]) = F[x]
    BY SMTT(20), FS_Interval
  <1>3. IsFiniteSet({x}) /\ Cardinality({x}) = 1
    BY FS_Singleton
  <1>4. /\ IsFiniteSet({x} \X (1..F[x]))
        /\ Cardinality({x} \X (1..F[x])) = Cardinality({x}) * Cardinality(1..F[x])
    BY <1>2, <1>3, FS_Product
  <1>5. Cardinality({x}) * Cardinality(1..F[x]) = F[x]
    BY <1>2, <1>3
  <1>6. QED
    BY <1>1, <1>4, <1>5

\* Finitely many holders have finitely many units.
LEMMA UnitsFinite ==
  ASSUME NEW S, IsFiniteSet(S), NEW F \in [S -> Nat]
  PROVE  IsFiniteSet(UnitsIn(S, F))
  <1> DEFINE g == [x \in S |-> UnitsIn({x}, F)]
             Parts == {g[x] : x \in S}
  <1>1. g \in Surjection(S, Parts)
    BY DEF Surjection
  <1>2. IsFiniteSet(Parts)
    BY <1>1, FS_Surjection
  <1>3. \A T \in Parts : IsFiniteSet(T)
    BY UnitsOfOne
  <1>4. IsFiniteSet(UNION Parts)
    BY <1>2, <1>3, FS_UNION
  <1>5. UnitsIn(S, F) = UNION Parts
    <2>1. ASSUME NEW p \in UnitsIn(S, F) PROVE p \in g[p[1]] /\ p[1] \in S
      BY <2>1 DEF UnitsIn
    <2>2. ASSUME NEW x \in S, NEW p \in g[x] PROVE p \in UnitsIn(S, F)
      BY <2>2 DEF UnitsIn
    <2>3. QED
      BY <2>1, <2>2
  <1>6. QED
    BY <1>4, <1>5

\* One holder set aside: its units leave, and no others.
LEMMA UnitsRemove ==
  ASSUME NEW S, IsFiniteSet(S), NEW F \in [S -> Nat], NEW s \in SUBSET S, NEW x \in s
  PROVE  Cardinality(UnitsIn(s, F)) = F[x] + Cardinality(UnitsIn(s \ {x}, F))
  <1>1. /\ UnitsIn(s, F) = UnitsIn({x}, F) \cup UnitsIn(s \ {x}, F)
        /\ UnitsIn({x}, F) \cap UnitsIn(s \ {x}, F) = {}
    BY DEF UnitsIn
  <1>2. IsFiniteSet(UnitsIn({x}, F)) /\ Cardinality(UnitsIn({x}, F)) = F[x]
    BY UnitsOfOne
  <1>3. IsFiniteSet(UnitsIn(s \ {x}, F))
    <2>1. UnitsIn(s \ {x}, F) \subseteq UnitsIn(S, F)
      BY DEF UnitsIn
    <2>2. QED
      BY <2>1, UnitsFinite, FS_Subset
  <1>4. Cardinality(UnitsIn(s, F))
          = Cardinality(UnitsIn({x}, F)) + Cardinality(UnitsIn(s \ {x}, F))
              - Cardinality({})
    <2> DEFINE A == UnitsIn({x}, F)
               B == UnitsIn(s \ {x}, F)
    <2>1. Cardinality(A \cup B) = Cardinality(A) + Cardinality(B) - Cardinality(A \cap B)
      <3> HIDE DEF A, B
      <3>1. IsFiniteSet(A) /\ IsFiniteSet(B)
        BY <1>2, <1>3 DEF A, B
      <3>2. QED
        BY <3>1, FS_Union
    <2>2. QED
      BY <1>1, <2>1
  <1>5. Cardinality({}) = 0 /\ Cardinality(UnitsIn(s \ {x}, F)) \in Nat
    BY <1>3, FS_EmptySet, FS_CardinalityType
  <1>6. QED
    BY <1>2, <1>4, <1>5

\* SumFunction counts units.
LEMMA SumCounts ==
  ASSUME NEW S, IsFiniteSet(S), NEW F \in [S -> Nat]
  PROVE  SumFunction(F) = Cardinality(UnitsIn(S, F))
  <1> DEFINE pick(s) == CHOOSE x \in s : TRUE
             step(h, s) == IF s = {} THEN 0 ELSE F[pick(s)] + h[s \ {pick(s)}]
             count == [s \in SUBSET S |-> Cardinality(UnitsIn(s, F))]
             iter == CHOOSE h : h = [s \in SUBSET S |-> step(h, s)]
  <1>1. \A s : s # {} => pick(s) \in s
    OBVIOUS
  <1>2. count = [s \in SUBSET S |-> step(count, s)]
    <2> SUFFICES ASSUME NEW s \in SUBSET S PROVE count[s] = step(count, s)
      OBVIOUS
    <2>1. CASE s = {}
      <3>1. UnitsIn({}, F) = {}
        BY DEF UnitsIn
      <3>2. QED
        BY <2>1, <3>1, FS_EmptySet
    <2>2. CASE s # {}
      <3>1. pick(s) \in s
        BY <2>2
      <3> HIDE DEF pick, step, count, iter
      <3>2. Cardinality(UnitsIn(s, F))
              = F[pick(s)] + Cardinality(UnitsIn(s \ {pick(s)}, F))
        BY <3>1, UnitsRemove
      <3>3. s \ {pick(s)} \in SUBSET S
        OBVIOUS
      <3>4. QED
        BY <2>2, <3>2, <3>3 DEF step, count
    <2>3. QED
      BY <2>1, <2>2
  <1>3. iter = [s \in SUBSET S |-> step(iter, s)]
    BY <1>2
  <1>4. SumFunction(F) = iter[S]
    BY DEF SumFunction, SumFunctionOnSet, FoldFunctionOnSet, MapThenFoldSet
  <1>5. \A s \in SUBSET S : iter[s] = count[s]
    <2> DEFINE Wrong == {s \in SUBSET S : iter[s] # count[s]}
    <2> SUFFICES ASSUME Wrong # {} PROVE FALSE
      OBVIOUS
    <2>1. FiniteSubsetsOf(S) = SUBSET S
      BY FS_FiniteSubsetsOfFinite
    <2>2. IsWellFoundedOn(StrictSubsetOrdering(S), SUBSET S)
      BY <2>1, FS_StrictSubsetOrderingWellFounded
    <2>3. PICK s \in Wrong : \A t \in Wrong : ~ (<<t, s>> \in StrictSubsetOrdering(S))
      <3>1. Wrong \subseteq SUBSET S
        OBVIOUS
      <3> HIDE DEF Wrong
      <3>2. QED
        BY <2>2, <3>1, WFMin
    <2> HIDE DEF iter, count
    <2>4. iter[s] = step(iter, s) /\ count[s] = step(count, s)
      <3>1. s \in SUBSET S
        OBVIOUS
      <3> HIDE DEF step
      <3>2. QED
        BY <1>2, <1>3, <3>1
    <2>5. s # {}
      BY <2>4
    <2> DEFINE t == s \ {pick(s)}
    <2>6. t \in SUBSET S /\ <<t, s>> \in StrictSubsetOrdering(S)
      <3>1. pick(s) \in s
        BY <2>5
      <3> HIDE DEF pick
      <3>2. QED
        BY <3>1 DEF StrictSubsetOrdering
    <2>7. iter[t] = count[t]
      BY <2>3, <2>6
    <2>8. QED
      BY <2>4, <2>7
  <1>6. QED
    BY <1>4, <1>5

\* A sum of units is a natural number; without holders it is zero.
LEMMA SumType ==
  ASSUME NEW S, IsFiniteSet(S), NEW F \in [S -> Nat]
  PROVE  SumFunction(F) \in Nat /\ (S = {} => SumFunction(F) = 0)
  <1>1. Cardinality(UnitsIn(S, F)) \in Nat
    BY UnitsFinite, FS_CardinalityType
  <1>2. S = {} => UnitsIn(S, F) = {}
    BY DEF UnitsIn
  <1>3. QED
    BY <1>1, <1>2, SumCounts, FS_EmptySet

\* More holders and larger claims never sum up to less.
LEMMA SumMonotone ==
  ASSUME NEW S, NEW T, IsFiniteSet(T), S \subseteq T,
         NEW F \in [S -> Nat], NEW G \in [T -> Nat],
         \A x \in S : F[x] <= G[x]
  PROVE  SumFunction(F) <= SumFunction(G)
  <1>1. IsFiniteSet(S)
    BY FS_Subset
  <1>2. UnitsIn(S, F) \subseteq UnitsIn(T, G)
    <2> SUFFICES ASSUME NEW p \in UnitsIn(S, F) PROVE p \in UnitsIn(T, G)
      OBVIOUS
    <2>1. p \in S \X Nat /\ 1 <= p[2] /\ p[2] <= F[p[1]]
      BY DEF UnitsIn
    <2>2. p[1] \in S /\ p[2] \in Nat /\ F[p[1]] \in Nat /\ G[p[1]] \in Nat
      BY <2>1
    <2>3. F[p[1]] <= G[p[1]] /\ p \in T \X Nat
      BY <2>1, <2>2
    <2>4. p[2] <= G[p[1]]
      BY <2>1, <2>2, <2>3
    <2>5. QED
      BY <2>1, <2>3, <2>4 DEF UnitsIn
  <1>3. Cardinality(UnitsIn(S, F)) <= Cardinality(UnitsIn(T, G))
    BY <1>2, UnitsFinite, FS_Subset
  <1>4. QED
    BY <1>1, <1>3, SumCounts

\* One holder on top of others: the sum is bounded by its claim and theirs.
LEMMA SumAdded ==
  ASSUME NEW S, NEW T, IsFiniteSet(S), IsFiniteSet(T), NEW x \in S,
         S \ {x} \subseteq T, NEW F \in [S -> Nat], NEW G \in [T -> Nat],
         \A y \in S \ {x} : F[y] <= G[y]
  PROVE  SumFunction(F) <= F[x] + SumFunction(G)
  <1> DEFINE R == S \ {x}
             H == [y \in R |-> F[y]]
  <1>1. IsFiniteSet(R) /\ R \subseteq T /\ H \in [R -> Nat] /\ \A y \in R : H[y] = F[y]
    BY FS_RemoveElement
  <1>2. SumFunction(F) = F[x] + Cardinality(UnitsIn(R, F))
    BY SumCounts, UnitsRemove
  <1>3. UnitsIn(R, F) = UnitsIn(R, H)
    BY DEF UnitsIn
  <1> HIDE DEF R, H
  <1>4. SumFunction(H) <= SumFunction(G)
    <2>1. \A y \in R : H[y] <= G[y]
      BY <1>1 DEF R
    <2>2. QED
      BY <1>1, <2>1, SumMonotone
  <1>5. SumFunction(H) = Cardinality(UnitsIn(R, H))
    BY <1>1, SumCounts
  <1>6. SumFunction(H) \in Nat /\ SumFunction(G) \in Nat /\ F[x] \in Nat
    BY <1>1, SumType
  <1>7. QED
    BY <1>2, <1>3, <1>4, <1>5, <1>6

\* The sum is at least the claim of each holder, and of a single holder it is that claim.
LEMMA SumMember ==
  ASSUME NEW S, IsFiniteSet(S), NEW x \in S, NEW F \in [S -> Nat]
  PROVE  F[x] <= SumFunction(F) /\ (S = {x} => SumFunction(F) = F[x])
  <1>1. SumFunction(F) = F[x] + Cardinality(UnitsIn(S \ {x}, F))
    BY SumCounts, UnitsRemove
  <1>2. IsFiniteSet(UnitsIn(S \ {x}, F))
    <2>1. UnitsIn(S \ {x}, F) \subseteq UnitsIn(S, F)
      BY DEF UnitsIn
    <2>2. QED
      BY <2>1, UnitsFinite, FS_Subset
  <1>3. Cardinality(UnitsIn(S \ {x}, F)) \in Nat /\ F[x] \in Nat
    BY <1>2, FS_CardinalityType
  <1>4. S = {x} => UnitsIn(S \ {x}, F) = {}
    BY DEF UnitsIn
  <1>5. QED
    BY <1>1, <1>3, <1>4, FS_EmptySet

-----------------------------------------------------------------------------
USE DEF States, Owning, Terminal

\* A scope restricted to some of its leaves is a scope: what _finish keeps of
\* an allocation.
LEMMA RestrictScope ==
  ASSUME NEW a \in Scope, NEW K \in SUBSET DOMAIN a
  PROVE  Restrict(a, K) \in Scope
  <1>1. PICK L \in SUBSET Leaf : a \in [L -> Claim]
    BY DEF Scope
  <1>2. Restrict(a, K) \in [K -> Claim]
    BY <1>1 DEF Restrict
  <1>3. QED
    BY <1>1, <1>2 DEF Scope

\* The scope that claims nothing.
LEMMA EmptyIsScope == EmptyScope \in Scope
  <1>1. EmptyScope \in [{} -> Claim]
    BY DEF EmptyScope
  <1>2. QED
    BY <1>1 DEF Scope

\* The rows _outcomes inserts are well typed.
LEMMA OutcomeRowsType ==
  ASSUME NEW st \in [Stage -> States], NEW ep \in [Stage -> Nat],
         NEW subs \in [Request -> SUBSET Subscriber],
         NEW gens \in [Request -> [Subscriber -> Nat]],
         NEW R \in SUBSET Request
  PROVE  OutcomeRows(R, st, ep, subs, gens) \subseteq Row
  <1>1. \A r \in Request : Status(r, st) \in Statuses
    BY DEF Status, Statuses
  <1>2. \A r \in Request : Incident(r, st, ep) \subseteq Stage \X Nat
    BY DEF Incident, StagesOf
  <1>3. ASSUME NEW r \in Request, NEW u \in Subscriber
        PROVE  RowFor(r, u, st, ep, gens) \in Row
    BY <1>1, <1>2 DEF Row, RowFor
  <1>4. QED
    BY <1>3 DEF OutcomeRows, Audience

\* The empty ledger is well typed.
LEMMA InitType == Init => TypeOK
  BY EmptyIsScope DEF Init, TypeOK, NoPass

\* The transactions other than the pass and the releases keep every type.
LEMMA TypeStep == TypeOK /\ [Next]_vars => TypeOK'
  <1> SUFFICES ASSUME TypeOK, [Next]_vars PROVE TypeOK'
    OBVIOUS
  <1> USE DEF TypeOK, order, subscriptions, owned
  <1>r. ASSUME NEW R \in SUBSET Request, state' \in [Stage -> States],
               epoch' \in [Stage -> Nat],
               subscribed' \in [Request -> SUBSET Subscriber],
               generation' \in [Request -> [Subscriber -> Nat]], Outcomes(R)
        PROVE  outbox' \subseteq Row
    BY <1>r, OutcomeRowsType DEF Outcomes
  <1>f. ASSUME NEW s \in Stage, NEW result \in Terminal, NEW rel \in SUBSET Leaf,
               FinishEffect(s, result, rel)
        PROVE  TypeOK'
    <2>1. allocation' \in [Stage -> Scope]
      <3>1. Restrict(allocation[s], DOMAIN allocation[s] \ rel) \in Scope
        BY RestrictScope
      <3>2. QED
        BY <1>f, <3>1 DEF FinishEffect, EndState
    <2>2. state' \in [Stage -> States]
      BY <1>f DEF FinishEffect, EndState
    <2>3. RequestOf[s] \in Request
      BY RequestOfAssumption
    <2>4. outbox' \subseteq Row
      BY <1>f, <1>r, <2>2, <2>3 DEF FinishEffect, EndState
    <2>5. QED
      BY <1>f, <2>1, <2>2, <2>4 DEF FinishEffect, EndState
  <1>1. ASSUME NEW r \in Request, NEW U \in SUBSET Subscriber, Submit(r, U)
        PROVE  TypeOK'
    <2>1. submittedBefore' \subseteq Stage \X Stage
      BY <1>1, PlanBeforeAssumption DEF Submit, StagesOf
    <2>2. state' \in [Stage -> States]
      BY <1>1 DEF Submit
    <2>3. generation' \in [Request -> [Subscriber -> Nat]]
      BY <1>1 DEF Submit
    <2>4. subscribed' \in [Request -> SUBSET Subscriber]
      BY <1>1 DEF Submit
    <2>5. QED
      BY <1>1, <2>1, <2>2, <2>3, <2>4 DEF Submit
  <1>2. ASSUME NEW unavailable \in SUBSET Project, ScheduleBegin(unavailable)
        PROVE  TypeOK'
    <2>1. PICK skipped \in SUBSET Waiting :
            /\ state' = [s \in Stage |->
                           IF s \in skipped THEN "skipped" ELSE state[s]]
            /\ protection' = [s \in Stage |->
                 IF s \in Waiting \ Ready(skipped, unavailable)
                 THEN EmptyScope ELSE protection[s]]
            /\ readyBefore' = ReadyOrder(Ready(skipped, unavailable))
            /\ readied' = Ready(skipped, unavailable)
            /\ pass' = [open |-> TRUE, todo |-> Ready(skipped, unavailable),
                        veterans |-> readied, released |-> released,
                        requests |-> {RequestOf[s] : s \in Waiting \cup Owners}]
      BY <1>2 DEF ScheduleBegin
    <2>2. Ready(skipped, unavailable) \subseteq Stage
      BY DEF Ready, Waiting
    <2>3. state' \in [Stage -> States]
      BY <2>1
    <2>4. protection' \in [Stage -> Scope]
      BY <2>1, EmptyIsScope
    <2>5. readyBefore' \subseteq Stage \X Stage
      BY <2>1, <2>2 DEF ReadyOrder
    <2>6. {RequestOf[s] : s \in Waiting \cup Owners} \subseteq Request
      BY RequestOfAssumption DEF Waiting, Owners
    <2>7. pass' \in [open : BOOLEAN, todo : SUBSET Stage, veterans : SUBSET Stage,
                     released : SUBSET Leaf, requests : SUBSET Request]
      BY <2>1, <2>2, <2>6
    <2>8. QED
      BY <1>2, <2>1, <2>2, <2>3, <2>4, <2>5, <2>7 DEF ScheduleBegin
  <1>3. ASSUME NEW s \in Stage, Grant(s)
        PROVE  TypeOK'
    <2>1. PICK o \in Feasible(s) : allocation' = [allocation EXCEPT ![s] = o]
      BY <1>3 DEF Grant
    <2>2. o \in Scope
      BY OptionsAssumption DEF Feasible
    <2>3. allocation' \in [Stage -> Scope]
      BY <2>1, <2>2
    <2>4. protection' \in [Stage -> Scope]
      BY <1>3, EmptyIsScope DEF Grant
    <2>5. pass' \in [open : BOOLEAN, todo : SUBSET Stage, veterans : SUBSET Stage,
                     released : SUBSET Leaf, requests : SUBSET Request]
      BY <1>3 DEF Grant, Decided
    <2>6. QED
      BY <1>3, <2>3, <2>4, <2>5 DEF Grant
  <1>4. ASSUME NEW s \in Stage, Protect(s)
        PROVE  TypeOK'
    <2>1. protection' \in [Stage -> Scope]
      BY <1>4, EmptyIsScope, OptionsAssumption DEF Protect, Protectable
    <2>2. pass' \in [open : BOOLEAN, todo : SUBSET Stage, veterans : SUBSET Stage,
                     released : SUBSET Leaf, requests : SUBSET Request]
      BY <1>4 DEF Protect, Decided
    <2>3. QED
      BY <1>4, <2>1, <2>2 DEF Protect
  <1>5. ASSUME ScheduleCommit
        PROVE  TypeOK'
    <2>1. outbox' \subseteq Row
      BY <1>5, <1>r DEF ScheduleCommit
    <2>2. QED
      BY <1>5, <2>1 DEF ScheduleCommit, NoPass
  <1>6. ASSUME NEW s \in Stage, Attach(s, epoch[s])
        PROVE  TypeOK'
    BY <1>6 DEF Attach
  <1>7. ASSUME NEW s \in Stage, Admit(s)
        PROVE  TypeOK'
    BY <1>7 DEF Admit
  <1>8. ASSUME NEW r \in Request, Cancel(r)
        PROVE  TypeOK'
    <2>1. state' \in [Stage -> States]
      BY <1>8 DEF Cancel
    <2>2. outbox' \subseteq Row
      BY <1>8, <1>r, <2>1 DEF Cancel
    <2>3. protection' \in [Stage -> Scope]
      BY <1>8, EmptyIsScope DEF Cancel
    <2>4. QED
      BY <1>8, <2>1, <2>2, <2>3 DEF Cancel, Owners
  <1>9. ASSUME NEW r \in Request, NEW u \in Subscriber, Subscribe(r, u)
        PROVE  TypeOK'
    <2>1. /\ subscribed' \in [Request -> SUBSET Subscriber]
          /\ generation' \in [Request -> [Subscriber -> Nat]]
      <3>1. CASE u \in subscribed[r]
        BY <1>9, <3>1 DEF Subscribe
      <3>2. CASE u \notin subscribed[r]
        <4>1. /\ subscribed' = [subscribed EXCEPT ![r] = @ \cup {u}]
              /\ generation' = [generation EXCEPT ![r][u] = @ + 1]
          BY <1>9, <3>2 DEF Subscribe
        <4>2. [generation[r] EXCEPT ![u] = @ + 1] \in [Subscriber -> Nat]
          OBVIOUS
        <4>3. QED
          BY <4>1, <4>2
      <3>3. QED
        BY <3>1, <3>2
    <2>2. outbox' \subseteq Row
      BY <1>9, <1>r, <2>1 DEF Subscribe
    <2>3. QED
      BY <1>9, <2>1, <2>2 DEF Subscribe
  <1>10. ASSUME NEW r \in Request, NEW u \in Subscriber, Unsubscribe(r, u)
         PROVE  TypeOK'
    <2>1. subscribed' \in [Request -> SUBSET Subscriber]
      BY <1>10 DEF Unsubscribe
    <2>2. outbox' \subseteq Row
      BY <1>10, <1>r, <2>1 DEF Unsubscribe
    <2>3. QED
      BY <1>10, <2>1, <2>2 DEF Unsubscribe
  <1>11. ASSUME NEW s \in Stage, AbortCancelled(s, epoch[s])
         PROVE  TypeOK'
    <2>1. DOMAIN allocation[s] \subseteq Leaf
      BY DEF Scope
    <2>2. QED
      BY <1>11, <1>f, <2>1 DEF AbortCancelled, Finish
  <1>12. ASSUME NEW s \in Stage, AbortUnlaunched(s, epoch[s])
         PROVE  TypeOK'
    <2>1. DOMAIN allocation[s] \subseteq Leaf
      BY DEF Scope
    <2>2. QED
      BY <1>12, <1>f, <2>1 DEF AbortUnlaunched, Finish
  <1>13. ASSUME NEW s \in Stage, NEW result \in RunnerOutcome,
                NEW rel \in SUBSET Leaf, Finish(s, epoch[s], result, rel)
         PROVE  TypeOK'
    BY <1>13, <1>f, RunnerOutcomeAssumption DEF Finish
  <1>14. ASSUME NEW s \in Stage, NEW rel \in SUBSET Leaf, Recover(s, epoch[s], rel)
         PROVE  TypeOK'
    <2>1. RecordedOutcome(s) \in Terminal
      BY DEF RecordedOutcome
    <2>2. QED
      BY <1>14, <1>f, <2>1 DEF Recover, Finish
  <1>15. CASE UNCHANGED vars
    BY <1>15 DEF vars
  <1>16. QED
    BY <1>1, <1>2, <1>3, <1>4, <1>5, <1>6, <1>7, <1>8, <1>9, <1>10, <1>11,
       <1>12, <1>13, <1>14, <1>15 DEF Next

\* Every value the ledger stores has its type, whatever the callers do.
THEOREM TypeCorrect == Spec => []TypeOK
  <1>1. QED
    BY InitType, TypeStep, PTL DEF Spec

-----------------------------------------------------------------------------
\* The stages a pass has still to decide are waiting, with their dependencies
\* passed: no transaction can come between the two loops of schedule.
PassReady ==
  /\ pass.todo \subseteq readied
  /\ \A s \in readied :
       state[s] = "waiting" /\ \A p \in After[s] : state[p] = "passed"

LedgerInv ==
  TypeOK /\ NoConflict /\ OnlyOwnersHold /\ DependenciesDone /\ PassReady

\* The empty ledger satisfies the invariant: nothing is held, no pass is open.
LEMMA InitInv == Init => LedgerInv
  <1>1. ASSUME Init PROVE NoConflict /\ OnlyOwnersHold /\ DependenciesDone /\ PassReady
    BY <1>1 DEF Init, NoConflict, OnlyOwnersHold, DependenciesDone, PassReady,
                EmptyScope, NoPass
  <1>2. QED
    BY <1>1, InitType DEF LedgerInv

\* An allocation changed only by giving leaves back keeps exclusion.
LEMMA ShrinkKeepsExclusion ==
  ASSUME NoConflict, TypeOK,
         \A s \in Stage : /\ DOMAIN allocation'[s] \subseteq DOMAIN allocation[s]
                          /\ \A l \in DOMAIN allocation'[s] :
                               allocation'[s][l] = allocation[s][l]
  PROVE  NoConflict'
  BY DEF NoConflict, Agree

\* The safety step of _finish, shared by completions, aborts and recovery.
LEMMA FinishSafe ==
  ASSUME LedgerInv, NEW s \in Stage, NEW result \in Terminal,
         NEW rel \in SUBSET Leaf, NEW e, Finish(s, e, result, rel)
  PROVE  (NoConflict /\ OnlyOwnersHold /\ DependenciesDone /\ PassReady)'
  <1> USE DEF LedgerInv, TypeOK
  <1> DEFINE kept == DOMAIN allocation[s] \ rel
  <1>1. /\ state[s] \in Owning
        /\ state' = [state EXCEPT ![s] =
                       IF kept = {} THEN result ELSE "recovery_required"]
        /\ allocation' = [allocation EXCEPT ![s] = Restrict(allocation[s], kept)]
        /\ UNCHANGED <<readied, pass>>
    BY DEF Finish, FinishEnabled, FinishEffect, EndState, order
  <1>2. /\ DOMAIN Restrict(allocation[s], kept) = kept
        /\ \A l \in kept : Restrict(allocation[s], kept)[l] = allocation[s][l]
    BY DEF Restrict
  <1>3. NoConflict'
    <2>1. \A t \in Stage : /\ DOMAIN allocation'[t] \subseteq DOMAIN allocation[t]
                           /\ \A l \in DOMAIN allocation'[t] :
                                allocation'[t][l] = allocation[t][l]
      BY <1>1, <1>2
    <2>2. QED
      BY <2>1, ShrinkKeepsExclusion
  <1>4. kept = {} => Restrict(allocation[s], kept) = EmptyScope
    BY DEF Restrict, EmptyScope
  <1>5. kept # {} => Restrict(allocation[s], kept) # EmptyScope
    BY <1>2 DEF EmptyScope
  <1>6. OnlyOwnersHold'
    BY <1>1, <1>4, <1>5 DEF OnlyOwnersHold
  <1>7. \A p \in Stage : state[p] = "passed" => state'[p] = "passed"
    BY <1>1
  <1>8. DependenciesDone'
    <2> SUFFICES ASSUME NEW t \in Stage, state'[t] \in Owning, NEW p \in After[t]
                 PROVE  state'[p] = "passed" /\ allocation'[p] = EmptyScope
      BY DEF DependenciesDone
    <2>1. state[t] \in Owning
      BY <1>1
    <2>2. p \in Stage /\ state[p] = "passed" /\ allocation[p] = EmptyScope
      BY <2>1, AfterAssumption DEF DependenciesDone
    <2>3. p # s
      BY <2>2, <1>1
    <2>4. QED
      BY <2>2, <2>3, <1>1, <1>7
  <1>9. PassReady'
    <2>1. s \notin readied
      BY <1>1 DEF PassReady
    <2>2. QED
      BY <1>1, <1>7, <2>1, AfterAssumption DEF PassReady
  <1>10. QED
    BY <1>3, <1>6, <1>8, <1>9

\* A transaction that leaves allocations and dependencies alone and only moves
\* stages among the waiting, or among the owning, states.
LEMMA QuietSafe ==
  ASSUME LedgerInv, TypeOK', UNCHANGED <<allocation, pass>>, readied' \subseteq readied,
         \A s \in Stage :
           \/ state'[s] = state[s]
           \/ state[s] = "absent" /\ state'[s] = "waiting"
           \/ state[s] = "waiting" /\ state'[s] = "cancelled" /\ s \notin readied'
           \/ state[s] \in Owning /\ state'[s] \in Owning \ {"recovery_required"},
         pass.todo \subseteq readied'
  PROVE  (NoConflict /\ OnlyOwnersHold /\ DependenciesDone /\ PassReady)'
  <1> USE DEF LedgerInv, TypeOK
  <1>1. NoConflict'
    BY DEF NoConflict, Agree
  <1>2. OnlyOwnersHold'
    BY DEF OnlyOwnersHold
  <1>3. \A s \in Stage : state[s] = "passed" => state'[s] = "passed"
    OBVIOUS
  <1>4. DependenciesDone'
    BY <1>3, AfterAssumption DEF DependenciesDone
  <1>5. PassReady'
    BY SMTT(20), <1>3, AfterAssumption DEF PassReady
  <1>6. QED
    BY <1>1, <1>2, <1>4, <1>5

\* A grant is compatible with every other owner of each of its leaves.
LEMMA GrantSafe ==
  ASSUME LedgerInv, TypeOK', NEW s \in Stage, Grant(s)
  PROVE  (NoConflict /\ OnlyOwnersHold /\ DependenciesDone /\ PassReady)'
  <1> USE DEF LedgerInv, TypeOK
  <1>1. PICK o \in Feasible(s) : allocation' = [allocation EXCEPT ![s] = o]
    BY DEF Grant
  <1>2. /\ s \in pass.todo
        /\ state' = [state EXCEPT ![s] = "granted"]
        /\ readied' = readied \ {s}
        /\ pass' = [pass EXCEPT !.todo = pass.todo \ {s}]
    BY DEF Grant, Oldest, Decided
  <1>3. state[s] = "waiting" /\ \A p \in After[s] : state[p] = "passed"
    BY <1>2 DEF PassReady
  <1>4. ASSUME NEW t \in Stage, t # s, NEW l \in DOMAIN o \cap DOMAIN allocation[t]
        PROVE  Agree(o[l], allocation[t][l])
    <2>1. t \in Owners
      BY <1>4 DEF OnlyOwnersHold, Owners, EmptyScope
    <2>2. t \in HoldersOf(l, Occupied) /\ Occupied[t] = allocation[t]
      BY <1>4, <2>1 DEF HoldersOf, Occupied
    <2>3. Compatible(o, Occupied)
      BY DEF Feasible
    <2>4. QED
      BY <1>4, <2>2, <2>3 DEF Compatible
  <1>5. NoConflict'
    BY <1>1, <1>4 DEF NoConflict, Agree
  <1>6. OnlyOwnersHold'
    BY <1>1, <1>2 DEF OnlyOwnersHold
  <1>7. DependenciesDone'
    <2> SUFFICES ASSUME NEW t \in Stage, state'[t] \in Owning, NEW p \in After[t]
                 PROVE  state'[p] = "passed" /\ allocation'[p] = EmptyScope
      BY DEF DependenciesDone
    <2>1. p \in Stage /\ state[p] = "passed"
      BY <1>2, <1>3, AfterAssumption DEF DependenciesDone
    <2>2. p # s
      BY <1>3, <2>1
    <2>3. allocation[p] = EmptyScope
      BY <2>1 DEF OnlyOwnersHold
    <2>4. QED
      BY <1>1, <1>2, <2>1, <2>2, <2>3
  <1>8. PassReady'
    BY <1>2, <1>3, AfterAssumption DEF PassReady
  <1>9. QED
    BY <1>5, <1>6, <1>7, <1>8

\* Every transaction and every step of a pass preserves the invariant.
LEMMA SafetyStep ==
  LedgerInv /\ TypeOK' /\ [Next]_vars
    => (NoConflict /\ OnlyOwnersHold /\ DependenciesDone /\ PassReady)'
  <1> SUFFICES ASSUME LedgerInv, TypeOK', [Next]_vars
               PROVE  (NoConflict /\ OnlyOwnersHold /\ DependenciesDone /\ PassReady)'
    OBVIOUS
  <1> DEFINE Goal == (NoConflict /\ OnlyOwnersHold /\ DependenciesDone /\ PassReady)'
  <1> USE DEF LedgerInv, TypeOK, order, subscriptions, owned
  <1>1. ASSUME NEW r \in Request, NEW U \in SUBSET Subscriber, Submit(r, U)
        PROVE  Goal
    <2>1. \A s \in StagesOf(r) : state[s] = "absent"
      BY <1>1 DEF Submit, Submitted
    <2>2. QED
      BY <1>1, <2>1, QuietSafe DEF Submit, PassReady
  <1>2. ASSUME NEW unavailable \in SUBSET Project, ScheduleBegin(unavailable)
        PROVE  Goal
    <2>1. PICK skipped \in SUBSET Waiting :
            /\ state' = [s \in Stage |->
                           IF s \in skipped THEN "skipped" ELSE state[s]]
            /\ readied' = Ready(skipped, unavailable)
            /\ pass'.todo = Ready(skipped, unavailable)
      BY <1>2 DEF ScheduleBegin
    <2>2. UNCHANGED allocation
      BY <1>2 DEF ScheduleBegin
    <2>3. \A s \in skipped : state[s] = "waiting"
      BY DEF Waiting
    <2>4. NoConflict' /\ OnlyOwnersHold'
      BY <2>1, <2>2, <2>3 DEF NoConflict, OnlyOwnersHold, Agree
    <2>5. \A s \in Stage : state[s] = "passed" => state'[s] = "passed"
      BY <2>1, <2>3
    <2>6. DependenciesDone'
      BY <2>1, <2>2, <2>3, <2>5, AfterAssumption DEF DependenciesDone
    <2>7. PassReady'
      BY <2>1, <2>5, AfterAssumption DEF PassReady, Ready, Waiting
    <2>8. QED
      BY <2>4, <2>6, <2>7
  <1>3. ASSUME NEW s \in Stage, Grant(s)
        PROVE  Goal
    BY <1>3, GrantSafe
  <1>4. ASSUME NEW s \in Stage, Protect(s)
        PROVE  Goal
    BY <1>4 DEF Protect, Decided, NoConflict, OnlyOwnersHold, DependenciesDone,
                PassReady, Agree
  <1>5. ASSUME ScheduleCommit
        PROVE  Goal
    BY <1>5 DEF ScheduleCommit, NoPass, NoConflict, OnlyOwnersHold,
                DependenciesDone, PassReady, Agree
  <1>6. ASSUME NEW s \in Stage, Attach(s, epoch[s])
        PROVE  Goal
    BY <1>6, QuietSafe DEF Attach, PassReady
  <1>7. ASSUME NEW s \in Stage, Admit(s)
        PROVE  Goal
    BY <1>7, QuietSafe DEF Admit, Admissible, PassReady
  <1>8. ASSUME NEW r \in Request, Cancel(r)
        PROVE  Goal
    <2>1. pass.todo = {}
      BY <1>8 DEF Cancel, Idle, NoPass
    <2>2. readied' = readied \ (Waiting \cap StagesOf(r))
      BY <1>8 DEF Cancel
    <2>3. \A s \in Stage :
            \/ state'[s] = state[s]
            \/ state[s] = "waiting" /\ state'[s] = "cancelled" /\ s \notin readied'
      BY <1>8, <2>2 DEF Cancel, Waiting
    <2>4. QED
      BY <1>8, <2>1, <2>2, <2>3, QuietSafe DEF Cancel
  <1>9. ASSUME NEW r \in Request, NEW u \in Subscriber,
               Subscribe(r, u) \/ Unsubscribe(r, u)
        PROVE  Goal
    BY <1>9, QuietSafe DEF Subscribe, Unsubscribe, PassReady
  <1>10. ASSUME NEW s \in Stage,
                AbortCancelled(s, epoch[s]) \/ AbortUnlaunched(s, epoch[s])
         PROVE  Goal
    <2>1. DOMAIN allocation[s] \in SUBSET Leaf
      BY DEF Scope
    <2>2. QED
      BY <1>10, <2>1, FinishSafe DEF AbortCancelled, AbortUnlaunched
  <1>11. ASSUME NEW s \in Stage, NEW result \in RunnerOutcome,
                NEW rel \in SUBSET Leaf, Finish(s, epoch[s], result, rel)
         PROVE  Goal
    <2>1. result \in Terminal
      BY RunnerOutcomeAssumption
    <2>2. Finish(s, epoch[s], result, rel)
      BY <1>11
    <2>3. QED
      BY <2>1, <2>2, FinishSafe
  <1>12. ASSUME NEW s \in Stage, NEW rel \in SUBSET Leaf, Recover(s, epoch[s], rel)
         PROVE  Goal
    <2>1. RecordedOutcome(s) \in Terminal
      BY DEF RecordedOutcome
    <2>2. QED
      BY <1>12, <2>1, FinishSafe DEF Recover
  <1>13. CASE UNCHANGED vars
    BY <1>13 DEF vars, NoConflict, OnlyOwnersHold, DependenciesDone, PassReady,
                 Agree
  <1>14. QED
    BY <1>1, <1>2, <1>3, <1>4, <1>5, <1>6, <1>7, <1>8, <1>9, <1>10, <1>11,
       <1>12, <1>13 DEF Next

\* The invariant without the units, which need it.
LEMMA LedgerInvariant == Spec => []LedgerInv
  <1>1. LedgerInv /\ [Next]_vars => LedgerInv'
    BY TypeStep, SafetyStep DEF LedgerInv
  <1>2. QED
    BY InitInv, <1>1, PTL DEF Spec

-----------------------------------------------------------------------------
\* A transaction that neither grants nor releases: no allocation changes, and stages
\* stay where they are, or move among the states of one phase, or end without having
\* owned anything.
Moves ==
  /\ UNCHANGED allocation
  /\ \A s \in Stage :
       \/ state'[s] = state[s]
       \/ state[s] = "absent" /\ state'[s] = "waiting"
       \/ state[s] = "waiting" /\ state'[s] \in Terminal
       \/ state[s] \in Owning /\ state'[s] \in Owning

Finishes ==
  \E s \in Stage, result \in Terminal, rel \in SUBSET Leaf :
    Finish(s, epoch[s], result, rel)

\* Completions, aborts and recoveries are all transactions of _finish.
LEMMA ReleaseKinds ==
  ASSUME TypeOK
  PROVE  /\ \A s \in Stage : AbortCancelled(s, epoch[s]) => Finishes
         /\ \A s \in Stage : AbortUnlaunched(s, epoch[s]) => Finishes
         /\ \A s \in Stage, result \in RunnerOutcome, rel \in SUBSET Leaf :
              Finish(s, epoch[s], result, rel) => Finishes
         /\ \A s \in Stage, rel \in SUBSET Leaf : Recover(s, epoch[s], rel) => Finishes
  <1>1. ASSUME NEW s \in Stage,
               AbortCancelled(s, epoch[s]) \/ AbortUnlaunched(s, epoch[s])
        PROVE  Finishes
    <2>1. DOMAIN allocation[s] \in SUBSET Leaf
      BY DEF Scope, TypeOK
    <2>2. \E result \in Terminal : Finish(s, epoch[s], result, DOMAIN allocation[s])
      BY <1>1 DEF AbortCancelled, AbortUnlaunched
    <2>3. QED
      BY <2>1, <2>2 DEF Finishes
  <1>2. ASSUME NEW s \in Stage, NEW result \in RunnerOutcome,
               NEW rel \in SUBSET Leaf, Finish(s, epoch[s], result, rel)
        PROVE  Finishes
    BY <1>2, RunnerOutcomeAssumption DEF Finishes
  <1>3. ASSUME NEW s \in Stage, NEW rel \in SUBSET Leaf, Recover(s, epoch[s], rel)
        PROVE  Finishes
    <2>1. RecordedOutcome(s) \in Terminal
      BY DEF RecordedOutcome, TypeOK
    <2>2. QED
      BY <1>3, <2>1 DEF Recover, Finishes
  <1>4. QED
    BY <1>1, <1>2, <1>3

\* Only a grant adds to an allocation, only _finish takes from one.
LEMMA StepKinds ==
  LedgerInv /\ [Next]_vars => Moves \/ Finishes \/ \E s \in Stage : Grant(s)
  <1> SUFFICES ASSUME LedgerInv, [Next]_vars
               PROVE  Moves \/ Finishes \/ \E s \in Stage : Grant(s)
    OBVIOUS
  <1> USE DEF LedgerInv, TypeOK
  <1>1. ASSUME NEW r \in Request, NEW U \in SUBSET Subscriber, Submit(r, U)
        PROVE  Moves
    BY <1>1 DEF Submit, Submitted, Moves, owned
  <1>2. ASSUME NEW unavailable \in SUBSET Project, ScheduleBegin(unavailable)
        PROVE  Moves
    BY <1>2 DEF ScheduleBegin, Waiting, Moves, owned
  <1>3. ASSUME NEW s \in Stage, Protect(s)
        PROVE  Moves
    BY <1>3 DEF Protect, Moves, owned
  <1>4. ASSUME ScheduleCommit
        PROVE  Moves
    BY <1>4 DEF ScheduleCommit, Moves, owned
  <1>5. ASSUME NEW s \in Stage, Attach(s, epoch[s])
        PROVE  Moves
    BY <1>5 DEF Attach, Moves, owned
  <1>6. ASSUME NEW s \in Stage, Admit(s)
        PROVE  Moves
    BY <1>6 DEF Admit, Admissible, Moves, owned
  <1>7. ASSUME NEW r \in Request, Cancel(r)
        PROVE  Moves
    BY <1>7 DEF Cancel, Waiting, Moves, owned
  <1>8. ASSUME NEW r \in Request, NEW u \in Subscriber,
               Subscribe(r, u) \/ Unsubscribe(r, u)
        PROVE  Moves
    BY <1>8 DEF Subscribe, Unsubscribe, Moves, owned
  <1>9. CASE UNCHANGED vars
    BY <1>9 DEF vars, owned, Moves
  <1>10. QED
    BY <1>1, <1>2, <1>3, <1>4, <1>5, <1>6, <1>7, <1>8, <1>9, ReleaseKinds DEF Next

-----------------------------------------------------------------------------
\* The claims of a set of holders are natural numbers, over a finite set.
LEMMA ClaimedUnits ==
  ASSUME NEW H \in SUBSET Stage, NEW a \in [H -> Scope], NEW l
  PROVE  /\ IsFiniteSet(HoldersOf(l, a))
         /\ HoldersOf(l, a) \subseteq Stage
         /\ [h \in HoldersOf(l, a) |-> a[h][l].units] \in [HoldersOf(l, a) -> Nat]
         /\ UnitsHeld(l, a) \in Nat
  <1>1. HoldersOf(l, a) \subseteq Stage
    BY DEF HoldersOf
  <1>2. IsFiniteSet(HoldersOf(l, a))
    BY <1>1, StageAssumption, FS_Subset
  <1>3. \A h \in HoldersOf(l, a) : a[h][l] \in Claim
    BY DEF HoldersOf, Scope
  <1>4. \A h \in HoldersOf(l, a) : a[h][l].units \in Nat
    BY <1>3, MaxUnitsAssumption DEF Claim
  <1>5. QED
    BY <1>1, <1>2, <1>4, SumType DEF UnitsHeld

\* Fewer holders of a leaf, with the claims they had, hold no more units.
LEMMA FewerUnits ==
  ASSUME NEW H \in SUBSET Stage, NEW K \in SUBSET Stage,
         NEW a \in [H -> Scope], NEW b \in [K -> Scope], NEW l,
         \A h \in HoldersOf(l, a) : h \in HoldersOf(l, b) /\ a[h][l] = b[h][l]
  PROVE  UnitsHeld(l, a) <= UnitsHeld(l, b)
  <1> DEFINE S == HoldersOf(l, a)
             T == HoldersOf(l, b)
             F == [h \in S |-> a[h][l].units]
             G == [h \in T |-> b[h][l].units]
  <1>1. IsFiniteSet(T) /\ S \subseteq T
    BY ClaimedUnits
  <1>2. F \in [S -> Nat] /\ G \in [T -> Nat]
    BY ClaimedUnits
  <1>3. \A x \in S : F[x] <= G[x]
    BY <1>1, <1>2
  <1>4. UnitsHeld(l, a) = SumFunction(F) /\ UnitsHeld(l, b) = SumFunction(G)
    BY DEF UnitsHeld
  <1> HIDE DEF S, T, F, G
  <1>5. QED
    BY <1>1, <1>2, <1>3, <1>4, SumMonotone

\* One more holder of a leaf adds at most its own claim.
LEMMA OneMoreHolder ==
  ASSUME NEW H \in SUBSET Stage, NEW K \in SUBSET Stage,
         NEW a \in [H -> Scope], NEW b \in [K -> Scope], NEW l,
         NEW s \in HoldersOf(l, a),
         \A h \in HoldersOf(l, a) \ {s} : h \in HoldersOf(l, b) /\ a[h][l] = b[h][l]
  PROVE  UnitsHeld(l, a) <= a[s][l].units + UnitsHeld(l, b)
  <1> DEFINE S == HoldersOf(l, a)
             T == HoldersOf(l, b)
             F == [h \in S |-> a[h][l].units]
             G == [h \in T |-> b[h][l].units]
  <1>1. IsFiniteSet(S) /\ IsFiniteSet(T) /\ S \ {s} \subseteq T
    BY ClaimedUnits
  <1>2. F \in [S -> Nat] /\ G \in [T -> Nat]
    BY ClaimedUnits
  <1>3. \A x \in S \ {s} : F[x] <= G[x]
    BY <1>1, <1>2
  <1>4. UnitsHeld(l, a) = SumFunction(F) /\ UnitsHeld(l, b) = SumFunction(G)
    BY DEF UnitsHeld
  <1>5. s \in S /\ F[s] = a[s][l].units
    OBVIOUS
  <1> HIDE DEF S, T, F, G
  <1>6. SumFunction(F) <= F[s] + SumFunction(G)
    BY <1>1, <1>2, <1>3, <1>5, SumAdded
  <1>7. QED
    BY <1>4, <1>5, <1>6

\* What a pass counts as occupied is a scope for each holder.
LEMMA OccupiedType ==
  ASSUME TypeOK
  PROVE  /\ Owners \cup Shielding \in SUBSET Stage
         /\ Occupied \in [Owners \cup Shielding -> Scope]
  BY DEF TypeOK, Owners, Shielding, Occupied

\* A grant keeps every leaf within its capacity: compatible counts every other owner.
LEMMA GrantWithinCapacity ==
  ASSUME LedgerInv, TypeOK', WithinCapacity, NEW s \in Stage, Grant(s)
  PROVE  WithinCapacity'
  <1> USE DEF LedgerInv, TypeOK
  <1>1. PICK o \in Feasible(s) : allocation' = [allocation EXCEPT ![s] = o]
    BY DEF Grant
  <1>2. o \in Scope /\ Compatible(o, Occupied)
    BY OptionsAssumption DEF Feasible
  <1>3. allocation[s] = EmptyScope
    <2>1. state[s] = "waiting"
      BY DEF Grant, Oldest, PassReady
    <2>2. QED
      BY <2>1 DEF OnlyOwnersHold
  <1>4. ASSUME NEW l \in Leaf
        PROVE  UnitsHeld(l, allocation') <= Capacity[l]
    <2>0. Capacity[l] \in Nat
      BY CapacityAssumption, MaxUnitsAssumption
    <2>1. CASE l \notin DOMAIN o
      <3>1. \A h \in HoldersOf(l, allocation') :
              h \in HoldersOf(l, allocation) /\ allocation'[h][l] = allocation[h][l]
        BY <1>1, <2>1 DEF HoldersOf
      <3>2. UnitsHeld(l, allocation') <= UnitsHeld(l, allocation)
        BY <3>1, FewerUnits
      <3>3. UnitsHeld(l, allocation') \in Nat /\ UnitsHeld(l, allocation) \in Nat
        BY ClaimedUnits
      <3>4. QED
        BY <2>0, <3>2, <3>3 DEF WithinCapacity
    <2>2. CASE l \in DOMAIN o
      <3>1. s \in HoldersOf(l, allocation') /\ allocation'[s][l] = o[l]
        BY <1>1, <2>2 DEF HoldersOf
      <3>2. ASSUME NEW h \in HoldersOf(l, allocation') \ {s}
            PROVE  h \in HoldersOf(l, Occupied) /\ allocation'[h][l] = Occupied[h][l]
        <4>1. h \in Stage /\ l \in DOMAIN allocation[h] /\ allocation'[h] = allocation[h]
          BY <1>1, <3>2 DEF HoldersOf
        <4>2. h \in Owners
          BY <4>1 DEF OnlyOwnersHold, Owners, EmptyScope
        <4>3. QED
          BY <4>1, <4>2 DEF HoldersOf, Occupied
      <3>3. UnitsHeld(l, allocation') <= allocation'[s][l].units + UnitsHeld(l, Occupied)
        BY <3>1, <3>2, OccupiedType, OneMoreHolder
      <3>4. /\ UnitsHeld(l, allocation') \in Nat
            /\ UnitsHeld(l, Occupied) \in Nat
            /\ o[l].units \in Nat
        <4>1. o[l] \in Claim
          BY <1>2, <2>2 DEF Scope
        <4>2. o[l].units \in Nat
          BY <4>1, MaxUnitsAssumption DEF Claim
        <4>3. UnitsHeld(l, allocation') \in Nat
          BY ClaimedUnits
        <4>4. UnitsHeld(l, Occupied) \in Nat
          BY ClaimedUnits, OccupiedType
        <4>5. QED
          BY <4>2, <4>3, <4>4
      <3>5. CASE HoldersOf(l, Occupied) # {}
        <4>1. o[l].units + UnitsHeld(l, Occupied) <= Capacity[l]
          BY <1>2, <2>2, <3>5 DEF Compatible
        <4>2. QED
          BY <2>0, <3>1, <3>3, <3>4, <4>1
      <3>6. CASE HoldersOf(l, Occupied) = {}
        <4>1. UnitsHeld(l, Occupied) = 0
          BY <3>6, SumType, FS_EmptySet, ClaimedUnits, OccupiedType DEF UnitsHeld
        <4>2. o[l].units <= Capacity[l]
          BY <1>2, <2>2 DEF Compatible
        <4>3. QED
          BY <2>0, <3>1, <3>3, <3>4, <4>1, <4>2
      <3>7. QED
        BY <3>5, <3>6
    <2>3. QED
      BY <2>1, <2>2
  <1>5. QED
    BY <1>4 DEF WithinCapacity

\* No transaction overfills a leaf.
LEMMA CapacityStep ==
  LedgerInv /\ TypeOK' /\ WithinCapacity /\ [Next]_vars => WithinCapacity'
  <1> SUFFICES ASSUME LedgerInv, TypeOK', WithinCapacity, [Next]_vars
               PROVE  WithinCapacity'
    OBVIOUS
  <1> USE DEF LedgerInv
  <1>1. CASE Moves
    BY <1>1 DEF Moves, WithinCapacity
  <1>2. CASE Finishes
    <2>1. PICK s \in Stage, result \in Terminal, rel \in SUBSET Leaf :
            Finish(s, epoch[s], result, rel)
      BY <1>2 DEF Finishes
    <2>2. allocation' = [allocation EXCEPT
                           ![s] = Restrict(allocation[s], DOMAIN allocation[s] \ rel)]
      BY <2>1 DEF Finish, FinishEffect, TypeOK
    <2> SUFFICES ASSUME NEW l \in Leaf PROVE UnitsHeld(l, allocation') <= Capacity[l]
      BY DEF WithinCapacity
    <2>3. \A h \in HoldersOf(l, allocation') :
            h \in HoldersOf(l, allocation) /\ allocation'[h][l] = allocation[h][l]
      BY <2>2 DEF HoldersOf, Restrict, TypeOK
    <2>4. UnitsHeld(l, allocation') <= UnitsHeld(l, allocation)
      BY <2>3, FewerUnits DEF TypeOK
    <2>5. UnitsHeld(l, allocation') \in Nat /\ UnitsHeld(l, allocation) \in Nat
      BY ClaimedUnits DEF TypeOK
    <2>6. Capacity[l] \in Nat
      BY CapacityAssumption, MaxUnitsAssumption
    <2>7. QED
      BY <2>4, <2>5, <2>6 DEF WithinCapacity
  <1>3. CASE \E s \in Stage : Grant(s)
    BY <1>3, GrantWithinCapacity
  <1>4. QED
    BY <1>1, <1>2, <1>3, StepKinds

\* The empty ledger is within every capacity.
LEMMA InitCapacity == Init => WithinCapacity
  <1> SUFFICES ASSUME Init, NEW l \in Leaf PROVE UnitsHeld(l, allocation) <= Capacity[l]
    BY DEF WithinCapacity
  <1>1. HoldersOf(l, allocation) = {}
    BY DEF Init, HoldersOf, EmptyScope
  <1>2. allocation \in [Stage -> Scope]
    BY EmptyIsScope DEF Init
  <1>3. UnitsHeld(l, allocation) = 0
    BY <1>1, <1>2, ClaimedUnits, SumType, FS_EmptySet DEF UnitsHeld
  <1>4. QED
    BY <1>3, CapacityAssumption, MaxUnitsAssumption

\* For every registry, plan and caller: claims on a leaf are compatible and within its
\* capacity, only owners hold leaves, and work starts after its dependencies passed
\* and gave everything back (schedule, compatible, _finish).
THEOREM HoldingsSafe == Spec => []HoldingsSound
  <1>1. LedgerInv /\ WithinCapacity /\ [Next]_vars => LedgerInv' /\ WithinCapacity'
    BY TypeStep, SafetyStep, CapacityStep DEF LedgerInv
  <1>2. Init => LedgerInv /\ WithinCapacity
    BY InitInv, InitCapacity
  <1>3. Spec => [](LedgerInv /\ WithinCapacity)
    BY <1>1, <1>2, PTL DEF Spec
  <1>4. LedgerInv /\ WithinCapacity => HoldingsSound
    BY DEF LedgerInv, HoldingsSound
  <1>5. QED
    BY <1>3, <1>4, PTL

\* No step moves a terminal stage, nor gives it a leaf.
LEMMA EndedStep == LedgerInv /\ [Next]_vars => EndedStays \/ UNCHANGED vars
  <1> SUFFICES ASSUME LedgerInv, Next, NEW s \in Stage, state[s] \in Terminal
               PROVE  /\ state'[s] = state[s]
                      /\ allocation'[s] = EmptyScope
                      /\ outcome'[s] = outcome[s]
    BY DEF EndedStays
  <1> USE DEF LedgerInv, TypeOK, order, subscriptions, owned
  <1>0. allocation[s] = EmptyScope
    BY DEF OnlyOwnersHold
  <1>f. ASSUME NEW t \in Stage, NEW e, NEW result \in Terminal, NEW rel \in SUBSET Leaf,
               Finish(t, e, result, rel)
        PROVE  UNCHANGED <<state[s], allocation[s], outcome[s]>>
    <2>1. t # s
      BY <1>f DEF Finish, FinishEnabled
    <2>2. QED
      BY <1>f, <2>1 DEF Finish, FinishEffect, EndState
  <1>1. CASE \E r \in Request, U \in SUBSET Subscriber :
               Cardinality(U) <= 1 /\ Submit(r, U)
    BY <1>0, <1>1 DEF Submit, Submitted
  <1>2. CASE \E unavailable \in SUBSET Project : ScheduleBegin(unavailable)
    BY <1>0, <1>2 DEF ScheduleBegin, Waiting
  <1>3. CASE \E t \in Stage : Grant(t) \/ Protect(t)
    <2>1. PICK t \in Stage : Grant(t) \/ Protect(t)
      BY <1>3
    <2>2. t # s
      BY <2>1 DEF Grant, Protect, Oldest, PassReady
    <2>3. QED
      BY <1>0, <2>1, <2>2 DEF Grant, Protect
  <1>4. CASE \E t \in Stage : Attach(t, epoch[t])
    BY <1>0, <1>4 DEF Attach
  <1>5. CASE \E t \in Stage : Admit(t)
    BY <1>0, <1>5 DEF Admit, Admissible
  <1>6. CASE \E r \in Request : Cancel(r)
    BY <1>0, <1>6 DEF Cancel, Waiting
  <1>7. CASE \E r \in Request, u \in Subscriber : Subscribe(r, u) \/ Unsubscribe(r, u)
    BY <1>0, <1>7 DEF Subscribe, Unsubscribe
  <1>8. CASE \E t \in Stage : AbortCancelled(t, epoch[t]) \/ AbortUnlaunched(t, epoch[t])
    <2>1. PICK t \in Stage : AbortCancelled(t, epoch[t]) \/ AbortUnlaunched(t, epoch[t])
      BY <1>8
    <2>2. DOMAIN allocation[t] \in SUBSET Leaf
      BY DEF Scope
    <2>3. QED
      BY <1>0, <1>f, <2>1, <2>2 DEF AbortCancelled, AbortUnlaunched
  <1>9. CASE \E t \in Stage, result \in RunnerOutcome, rel \in SUBSET Leaf :
               Finish(t, epoch[t], result, rel)
    <2>1. PICK t \in Stage, result \in RunnerOutcome, rel \in SUBSET Leaf :
            Finish(t, epoch[t], result, rel)
      BY <1>9
    <2>2. result \in Terminal
      BY RunnerOutcomeAssumption
    <2>3. /\ Finish(t, epoch[t], result, rel)
          /\ rel \in SUBSET Leaf
          /\ t \in Stage
      BY <2>1
    <2>4. UNCHANGED <<state[s], allocation[s], outcome[s]>>
      BY ONLY <1>f, <2>2, <2>3, Zenon
    <2>5. QED
      BY <1>0, <2>4
  <1>10. CASE \E t \in Stage, rel \in SUBSET Leaf : Recover(t, epoch[t], rel)
    <2>1. PICK t \in Stage, rel \in SUBSET Leaf : Recover(t, epoch[t], rel)
      BY <1>10
    <2>2. RecordedOutcome(t) \in Terminal
      BY DEF RecordedOutcome
    <2>3. Finish(t, epoch[t], RecordedOutcome(t), rel) /\ rel \in SUBSET Leaf /\ t \in Stage
      BY ONLY <2>1 DEF Recover
    <2>4. UNCHANGED <<state[s], allocation[s], outcome[s]>>
      BY ONLY <1>f, <2>2, <2>3, Zenon
    <2>5. QED
      BY <1>0, <2>4
  <1>11. CASE ScheduleCommit
    BY <1>0, <1>11 DEF ScheduleCommit
  <1>12. QED
    BY <1>1, <1>2, <1>3, <1>4, <1>5, <1>6, <1>7, <1>8, <1>9, <1>10, <1>11 DEF Next

\* An ended stage is never moved, given a leaf or given another outcome, whatever
\* stale completion, abort or recovery arrives (the state and epoch guards).
THEOREM EndedIsFinal == Spec => EndedForGood
  <1>1. QED
    BY LedgerInvariant, EndedStep, PTL DEF Spec, EndedForGood
-----------------------------------------------------------------------------
(***************************************************************************)
(* The refinement.  A grant is an Acquire, a completion, abort or recovery *)
(* is a GiveBack, and every other step ends some stages that never owned   *)
(* anything (Withdraw), possibly none.                                     *)
(***************************************************************************)

\* The phase a stage is in, by its state.
LEMMA PhaseFacts ==
  ASSUME NEW s \in Stage
  PROVE  /\ state[s] \in {"absent", "waiting"} => Phase[s] = "pending"
         /\ state[s] \in Owning => Phase[s] = "held"
         /\ state[s] \in Terminal => Phase[s] = "over"
         /\ state'[s] \in {"absent", "waiting"} => Phase'[s] = "pending"
         /\ state'[s] \in Owning => Phase'[s] = "held"
         /\ state'[s] \in Terminal => Phase'[s] = "over"
  BY DEF Phase, PhaseOf

\* The sum of the abstract specification is the sum of the ledger.
LEMMA SameSum == \A f : Scopes!SumFunction(f) = SumFunction(f)
  BY DEF Scopes!SumFunction, Scopes!SumFunctionOnSet, Scopes!FoldFunctionOnSet,
         Scopes!MapThenFoldSet, SumFunction, SumFunctionOnSet, FoldFunctionOnSet,
         MapThenFoldSet

\* The empty ledger is an empty allocator.
LEMMA ScopesInit == Init => Scopes!Init
  BY DEF Init, Scopes!Init, Phase, PhaseOf

\* A step that neither grants nor releases withdraws the stages it ends.
LEMMA MovesWithdraw ==
  ASSUME TypeOK, TypeOK', Moves
  PROVE  \E S \in SUBSET Stage : Scopes!Withdraw(S)
  <1> DEFINE S == {s \in Stage : state[s] = "waiting" /\ state'[s] \in Terminal}
  <1>1. \A s \in S : Phase[s] = "pending"
    BY PhaseFacts
  <1>2. Phase' = [s \in Stage |-> IF s \in S THEN "over" ELSE Phase[s]]
    <2>1. ASSUME NEW s \in Stage
          PROVE  Phase'[s] = IF s \in S THEN "over" ELSE Phase[s]
      <3>1. CASE s \in S
        BY <3>1, PhaseFacts
      <3>2. CASE s \notin S
        BY <3>2, PhaseFacts DEF Moves, TypeOK
      <3>3. QED
        BY <3>1, <3>2
    <2>2. Phase' = [s \in Stage |-> Phase'[s]]
      BY DEF Phase
    <2>3. QED
      BY <2>1, <2>2
  <1>3. UNCHANGED allocation
    BY DEF Moves
  <1>4. Scopes!Withdraw(S)
    BY <1>1, <1>2, <1>3 DEF Scopes!Withdraw
  <1>5. QED
    BY <1>4

\* A completion, an abort or a recovery gives leaves back, and ends the stage exactly
\* when none is left.
LEMMA FinishesGiveBack ==
  ASSUME TypeOK, TypeOK', NEW s \in Stage, NEW result \in Terminal,
         NEW rel \in SUBSET Leaf, Finish(s, epoch[s], result, rel)
  PROVE  Scopes!GiveBack(s)
  <1> DEFINE kept == DOMAIN allocation[s] \ rel
  <1>1. /\ state[s] \in Owning
        /\ state' = [state EXCEPT ![s] =
                       IF kept = {} THEN result ELSE "recovery_required"]
        /\ allocation' = [allocation EXCEPT ![s] = Restrict(allocation[s], kept)]
    BY DEF Finish, FinishEnabled, FinishEffect, EndState
  <1>2. Phase[s] = "held"
    BY <1>1, PhaseFacts
  <1>3. Phase' = [Phase EXCEPT ![s] = IF kept = {} THEN "over" ELSE "held"]
    <2>1. Phase'[s] = IF kept = {} THEN "over" ELSE "held"
      BY <1>1, PhaseFacts DEF TypeOK
    <2>2. ASSUME NEW t \in Stage, t # s PROVE Phase'[t] = Phase[t]
      <3>1. state'[t] = state[t]
        BY <1>1, <2>2 DEF TypeOK
      <3>2. QED
        BY <3>1, PhaseFacts DEF TypeOK
    <2>3. QED
      BY <2>1, <2>2 DEF Phase
  <1>4. kept \in SUBSET DOMAIN allocation[s]
    OBVIOUS
  <1>5. \E k \in SUBSET DOMAIN allocation[s] :
          /\ allocation' = [allocation EXCEPT ![s] = Restrict(allocation[s], k)]
          /\ Phase' = [Phase EXCEPT ![s] = IF k = {} THEN "over" ELSE "held"]
    BY <1>1, <1>3, <1>4
  <1>6. QED
    BY <1>2, <1>5 DEF Scopes!GiveBack, Scopes!Restrict, Restrict

\* A grant acquires one complete scope, beside the others.
LEMMA GrantAcquires ==
  ASSUME LedgerInv, TypeOK', NoConflict', WithinCapacity', NEW s \in Stage, Grant(s)
  PROVE  Scopes!Acquire(s)
  <1> USE DEF LedgerInv, TypeOK
  <1>1. PICK o \in Feasible(s) : allocation' = [allocation EXCEPT ![s] = o]
    BY DEF Grant
  <1>2. o \in Options[s]
    BY DEF Feasible
  <1>3. state[s] = "waiting" /\ state' = [state EXCEPT ![s] = "granted"]
    BY DEF Grant, Oldest, PassReady
  <1>4. Phase[s] = "pending"
    BY <1>3, PhaseFacts
  <1>5. Phase' = [Phase EXCEPT ![s] = "held"]
    <2>1. Phase'[s] = "held"
      BY <1>3, PhaseFacts
    <2>2. ASSUME NEW t \in Stage, t # s PROVE Phase'[t] = Phase[t]
      <3>1. state'[t] = state[t]
        BY <1>3, <2>2
      <3>2. QED
        BY <3>1, PhaseFacts
    <2>3. QED
      BY <2>1, <2>2 DEF Phase
  <1>6. Scopes!Coexist(allocation')
    <2> DEFINE users(l) == {t \in Stage : l \in DOMAIN allocation'[t]}
    <2>1. ASSUME NEW l \in Leaf
          PROVE  /\ SumFunction([t \in users(l) |-> allocation'[t][l].units])
                      <= Capacity[l]
                 /\ \A t, u \in users(l) : t # u =>
                      /\ allocation'[t][l].mode = "shared"
                      /\ allocation'[t][l].class = allocation'[u][l].class
      <3>1. HoldersOf(l, allocation') = users(l)
        BY DEF HoldersOf
      <3>2. UnitsHeld(l, allocation') <= Capacity[l]
        BY DEF WithinCapacity
      <3>3. \A t, u \in users(l) :
              t # u => Agree(allocation'[t][l], allocation'[u][l])
        BY DEF NoConflict
      <3>4. QED
        BY <3>1, <3>2, <3>3 DEF UnitsHeld, Agree
    <2>2. QED
      BY <2>1, SameSum DEF Scopes!Coexist
  <1>7. QED
    BY <1>1, <1>2, <1>4, <1>5, <1>6 DEF Scopes!Acquire

\* Every step of the ledger is a step of the abstract allocator.
LEMMA ScopesStep ==
  LedgerInv /\ LedgerInv' /\ WithinCapacity' /\ [Next]_vars
    => [Scopes!Next]_(Scopes!vars)
  <1> SUFFICES ASSUME LedgerInv, LedgerInv', WithinCapacity', [Next]_vars
               PROVE  Scopes!Next
    OBVIOUS
  <1> USE DEF LedgerInv
  <1>1. CASE Moves
    BY <1>1, MovesWithdraw DEF Scopes!Next
  <1>2. CASE Finishes
    BY <1>2, FinishesGiveBack DEF Finishes, Scopes!Next
  <1>3. CASE \E s \in Stage : Grant(s)
    BY <1>3, GrantAcquires DEF Scopes!Next
  <1>4. QED
    BY <1>1, <1>2, <1>3, StepKinds

\* The ledger, with its queue, passes, barrier, cancellation and recovery, is an
\* allocator of complete scopes: acquired at once, one time, beside compatible scopes
\* only, and given back before the stage is over.
THEOREM LedgerRefinesScopes == Spec => ImplementsScopes
  <1>1. LedgerInv /\ WithinCapacity /\ [Next]_vars => LedgerInv' /\ WithinCapacity'
    BY TypeStep, SafetyStep, CapacityStep DEF LedgerInv
  <1>2. Init => LedgerInv /\ WithinCapacity
    BY InitInv, InitCapacity
  <1>3. Spec => [](LedgerInv /\ WithinCapacity)
    BY <1>1, <1>2, PTL DEF Spec
  <1>4. QED
    BY <1>3, ScopesInit, ScopesStep, PTL DEF Spec, ImplementsScopes, Scopes!Spec
-----------------------------------------------------------------------------
(***************************************************************************)
(* Protection.  That a grant respects the scopes older stages protect      *)
(* depends on the order of the pass: seq and ready_seq never order two     *)
(* stages both ways, so when the oldest undecided stage is granted, every  *)
(* stage before it has been decided and its protection is in `occupied`.   *)
(***************************************************************************)
OrderInv ==
  /\ \A x \in submittedBefore : state[x[1]] # "absent" /\ state[x[2]] # "absent"
  /\ IsAsymmetric(submittedBefore)
  /\ readyBefore \subseteq readied \X readied
  /\ IsAsymmetric(readyBefore)

\* No protected claim exceeds its leaf.
ProtectionFits ==
  \A s \in Stage : \A l \in DOMAIN protection[s] :
    protection[s][l].units <= Capacity[l]

\* The order of ready_seq that a pass gives the ready stages.
LEMMA ReadyOrderSound ==
  ASSUME OrderInv, NEW ready \in SUBSET Stage
  PROVE  ReadyOrder(ready) \subseteq ready \X ready /\ IsAsymmetric(ReadyOrder(ready))
  BY DEF OrderInv, ReadyOrder, ReadyEarlier, IsAsymmetric

\* Submission appends to the order of seq.
LEMMA SubmitOrder ==
  ASSUME TypeOK, OrderInv, NEW r \in Request, NEW U, Submit(r, U)
  PROVE  OrderInv'
  <1> DEFINE old == {s \in Stage : state[s] # "absent"}
             new == StagesOf(r)
  <1>1. /\ state' = [s \in Stage |-> IF s \in new THEN "waiting" ELSE state[s]]
        /\ submittedBefore' =
             submittedBefore \cup (old \X new) \cup (PlanBefore \cap (new \X new))
        /\ UNCHANGED <<readied, readyBefore>>
    BY DEF Submit
  <1>2. old \cap new = {} /\ new \subseteq Stage
    BY DEF Submit, Submitted, StagesOf
  <1>3. \A x \in submittedBefore : x[1] \in old /\ x[2] \in old /\ x \in Stage \X Stage
    BY DEF TypeOK, OrderInv
  <1>4. \A x \in submittedBefore' : state'[x[1]] # "absent" /\ state'[x[2]] # "absent"
    BY <1>1, <1>2, <1>3 DEF TypeOK
  <1>5. IsAsymmetric(submittedBefore')
    <2> SUFFICES ASSUME NEW s \in Stage, NEW t \in Stage, <<s, t>> \in submittedBefore',
                        <<t, s>> \in submittedBefore'
                 PROVE  FALSE
      BY DEF IsAsymmetric
    <2>1. CASE <<s, t>> \in submittedBefore
      <3>1. s \in old /\ t \in old
        BY <1>3, <2>1
      <3>2. <<t, s>> \in submittedBefore
        BY <1>1, <1>2, <3>1
      <3>3. QED
        BY <2>1, <3>2 DEF OrderInv, IsAsymmetric
    <2>2. CASE <<s, t>> \in old \X new
      BY <1>1, <1>2, <1>3, <2>2
    <2>3. CASE <<s, t>> \in PlanBefore \cap (new \X new)
      <3>1. <<t, s>> \in PlanBefore
        BY <1>1, <1>2, <1>3, <2>3
      <3>2. QED
        BY <2>3, <3>1, PlanBeforeAssumption DEF IsAsymmetric
    <2>4. QED
      BY <1>1, <2>1, <2>2, <2>3
  <1>6. QED
    BY <1>1, <1>4, <1>5 DEF OrderInv

\* The orders and the protected claims stay as the invariant says.
LEMMA OrderStep ==
  LedgerInv /\ TypeOK' /\ OrderInv /\ ProtectionFits /\ [Next]_vars
    => OrderInv' /\ ProtectionFits'
  <1> SUFFICES ASSUME LedgerInv, TypeOK', OrderInv, ProtectionFits, [Next]_vars
               PROVE  OrderInv' /\ ProtectionFits'
    OBVIOUS
  <1> USE DEF LedgerInv
  <1>e. DOMAIN EmptyScope = {}
    BY DEF EmptyScope
  <1>q. ASSUME UNCHANGED submittedBefore, readied' \subseteq readied,
               readyBefore' \subseteq readyBefore \cap (readied' \X readied'),
               \A s \in Stage : state[s] # "absent" => state'[s] # "absent"
        PROVE  OrderInv'
    BY <1>q DEF OrderInv, IsAsymmetric, TypeOK
  <1>p. ASSUME \A s \in Stage :
                 protection'[s] = protection[s] \/ protection'[s] = EmptyScope
        PROVE  ProtectionFits'
    BY <1>p, <1>e DEF ProtectionFits
  <1>f. ASSUME NEW s \in Stage, NEW e, NEW result \in Terminal, NEW rel,
               Finish(s, e, result, rel)
        PROVE  OrderInv' /\ ProtectionFits'
    <2>1. /\ UNCHANGED <<submittedBefore, readied, readyBefore, protection>>
          /\ \A t \in Stage : state[t] # "absent" => state'[t] # "absent"
      BY <1>f DEF Finish, FinishEffect, EndState, order, TypeOK
    <2>2. QED
      BY <2>1, <1>q, <1>p DEF OrderInv
  <1>1. ASSUME NEW r \in Request, NEW U \in SUBSET Subscriber, Submit(r, U)
        PROVE  OrderInv' /\ ProtectionFits'
    <2>1. UNCHANGED protection
      BY <1>1 DEF Submit
    <2>2. QED
      BY <1>1, <1>p, <2>1, SubmitOrder
  <1>2. ASSUME NEW unavailable \in SUBSET Project, ScheduleBegin(unavailable)
        PROVE  OrderInv' /\ ProtectionFits'
    <2>1. PICK skipped \in SUBSET Waiting :
            /\ state' = [s \in Stage |->
                           IF s \in skipped THEN "skipped" ELSE state[s]]
            /\ protection' = [s \in Stage |->
                 IF s \in Waiting \ Ready(skipped, unavailable)
                 THEN EmptyScope ELSE protection[s]]
            /\ readyBefore' = ReadyOrder(Ready(skipped, unavailable))
            /\ readied' = Ready(skipped, unavailable)
            /\ UNCHANGED submittedBefore
      BY <1>2 DEF ScheduleBegin
    <2>2. Ready(skipped, unavailable) \in SUBSET Stage
      BY DEF Ready, Waiting
    <2>3. /\ readyBefore' \subseteq readied' \X readied'
          /\ IsAsymmetric(readyBefore')
      BY <2>1, <2>2, ReadyOrderSound
    <2>4. \A x \in submittedBefore' : state'[x[1]] # "absent" /\ state'[x[2]] # "absent"
      BY <2>1 DEF OrderInv, TypeOK
    <2>5. OrderInv'
      BY <2>1, <2>3, <2>4 DEF OrderInv
    <2>6. QED
      BY <2>1, <2>5, <1>p
  <1>3. ASSUME NEW s \in Stage, Grant(s)
        PROVE  OrderInv' /\ ProtectionFits'
    <2>1. /\ UNCHANGED submittedBefore
          /\ readied' = readied \ {s}
          /\ readyBefore' = readyBefore \cap (readied' \X readied')
          /\ state' = [state EXCEPT ![s] = "granted"]
          /\ protection' = [protection EXCEPT ![s] = EmptyScope]
      BY <1>3 DEF Grant
    <2>2. QED
      BY <2>1, <1>q, <1>p DEF TypeOK
  <1>4. ASSUME NEW s \in Stage, Protect(s)
        PROVE  OrderInv' /\ ProtectionFits'
    <2>1. UNCHANGED <<state, order>>
      BY <1>4 DEF Protect
    <2>2. OrderInv'
      BY <2>1 DEF order, OrderInv
    <2>3. CASE \E o \in Protectable(s) : protection' = [protection EXCEPT ![s] = o]
      <3>1. PICK o \in Protectable(s) : protection' = [protection EXCEPT ![s] = o]
        BY <2>3
      <3>2. \A l \in DOMAIN o : o[l].units <= Capacity[l]
        BY DEF Protectable, Compatible
      <3>3. QED
        BY <2>2, <3>1, <3>2 DEF ProtectionFits, TypeOK
    <2>4. CASE UNCHANGED protection \/ protection' = [protection EXCEPT ![s] = EmptyScope]
      BY <1>p, <2>2, <2>4 DEF TypeOK
    <2>5. QED
      BY <1>4, <2>3, <2>4 DEF Protect
  <1>5. ASSUME ScheduleCommit
        PROVE  OrderInv' /\ ProtectionFits'
    BY <1>5 DEF ScheduleCommit, order, OrderInv, ProtectionFits
  <1>6. ASSUME NEW s \in Stage, Attach(s, epoch[s])
        PROVE  OrderInv' /\ ProtectionFits'
    BY <1>6, <1>q, <1>p DEF Attach, order, OrderInv, TypeOK
  <1>7. ASSUME NEW s \in Stage, Admit(s)
        PROVE  OrderInv' /\ ProtectionFits'
    BY <1>7, <1>q, <1>p DEF Admit, order, OrderInv, TypeOK
  <1>8. ASSUME NEW r \in Request, Cancel(r)
        PROVE  OrderInv' /\ ProtectionFits'
    BY <1>8, <1>q, <1>p DEF Cancel, TypeOK
  <1>9. ASSUME NEW r \in Request, NEW u \in Subscriber,
               Subscribe(r, u) \/ Unsubscribe(r, u)
        PROVE  OrderInv' /\ ProtectionFits'
    BY <1>9 DEF Subscribe, Unsubscribe, order, OrderInv, ProtectionFits
  <1>10. ASSUME Finishes
         PROVE  OrderInv' /\ ProtectionFits'
    BY <1>10, <1>f DEF Finishes
  <1>11. CASE UNCHANGED vars
    BY <1>11 DEF vars, order, OrderInv, ProtectionFits
  <1>12. QED
    BY <1>1, <1>2, <1>3, <1>4, <1>5, <1>6, <1>7, <1>8, <1>9, <1>10, <1>11,
       ReleaseKinds DEF Next
\* A grant leaves room for the scopes that older stages protect: they have all been
\* decided in this pass, so compatible has counted them among the occupied.
LEMMA GrantLeavesRoom ==
  ASSUME LedgerInv, TypeOK', OrderInv, ProtectionFits,
         NEW s \in Stage, NEW t \in Stage, Grant(t),
         protection[s] # EmptyScope, <<s, t>> \in readyBefore
  PROVE  Compatible(protection[s], [h \in {t} |-> allocation'[t]])
  <1> USE DEF LedgerInv, TypeOK
  <1>1. PICK o \in Feasible(t) : allocation' = [allocation EXCEPT ![t] = o]
    BY DEF Grant
  <1>2. o \in Scope /\ Compatible(o, Occupied) /\ allocation'[t] = o
    BY <1>1, OptionsAssumption DEF Feasible
  <1>3. s \notin pass.todo
    BY DEF Grant, Oldest, OrderInv, IsAsymmetric
  <1>4. s \in Shielding /\ s \notin Owners
    BY <1>3 DEF Shielding, Owners, OrderInv, PassReady
  <1>5. s \in DOMAIN Occupied /\ Occupied[s] = protection[s]
    BY <1>4 DEF Occupied
  <1> DEFINE others == [h \in {t} |-> o]
  <1>6. ASSUME NEW l \in DOMAIN protection[s]
        PROVE  /\ protection[s][l].units <= Capacity[l]
               /\ HoldersOf(l, others) # {} =>
                    /\ \A h \in HoldersOf(l, others) :
                         Agree(protection[s][l], others[h][l])
                    /\ protection[s][l].units + UnitsHeld(l, others) <= Capacity[l]
    <2>1. protection[s][l].units <= Capacity[l]
      BY DEF ProtectionFits
    <2> SUFFICES ASSUME HoldersOf(l, others) # {}
                 PROVE  /\ \A h \in HoldersOf(l, others) :
                             Agree(protection[s][l], others[h][l])
                        /\ protection[s][l].units + UnitsHeld(l, others) <= Capacity[l]
      BY <2>1
    <2>2. l \in DOMAIN o /\ HoldersOf(l, others) = {t}
      BY DEF HoldersOf
    <2>3. s \in HoldersOf(l, Occupied)
      BY <1>5 DEF HoldersOf
    <2>4. /\ Agree(o[l], Occupied[s][l])
          /\ o[l].units + UnitsHeld(l, Occupied) <= Capacity[l]
      BY <1>2, <2>2, <2>3 DEF Compatible
    <2>5. l \in Leaf /\ o[l].units \in Nat /\ protection[s][l].units \in Nat
      <3>1. l \in Leaf /\ o[l] \in Claim /\ protection[s][l] \in Claim
        BY <1>2, <2>2 DEF Scope
      <3>2. QED
        BY <3>1, MaxUnitsAssumption DEF Claim
    <2>6. protection[s][l].units <= UnitsHeld(l, Occupied)
      <3> DEFINE F == [h \in HoldersOf(l, Occupied) |-> Occupied[h][l].units]
      <3>1. IsFiniteSet(HoldersOf(l, Occupied)) /\ F \in [HoldersOf(l, Occupied) -> Nat]
        BY OccupiedType, ClaimedUnits
      <3>2. F[s] = protection[s][l].units
        BY <1>5, <2>3
      <3> HIDE DEF F
      <3>3. F[s] <= SumFunction(F)
        BY <2>3, <3>1, SumMember
      <3>4. QED
        BY <3>2, <3>3 DEF UnitsHeld, F
    <2>7. UnitsHeld(l, others) = o[l].units
      <3> DEFINE F == [h \in {t} |-> o[l].units]
      <3>1. UnitsHeld(l, others) = SumFunction(F)
        BY <2>2 DEF UnitsHeld
      <3>2. F \in [{t} -> Nat] /\ IsFiniteSet({t}) /\ F[t] = o[l].units
        BY <2>5, FS_Singleton
      <3> HIDE DEF F
      <3>3. SumFunction(F) = F[t]
        BY <3>2, SumMember
      <3>4. QED
        BY <3>1, <3>2, <3>3
    <2>8. UnitsHeld(l, Occupied) \in Nat /\ Capacity[l] \in Nat
      <3>1. UnitsHeld(l, Occupied) \in Nat
        BY OccupiedType, ClaimedUnits
      <3>2. QED
        BY <3>1, <2>5, CapacityAssumption, MaxUnitsAssumption
    <2>9. protection[s][l].units + UnitsHeld(l, others) <= Capacity[l]
      BY <2>4, <2>5, <2>6, <2>7, <2>8
    <2>10. Agree(protection[s][l], o[l])
      BY <1>5, <2>4 DEF Agree
    <2>11. QED
      BY <2>2, <2>9, <2>10
  <1>7. QED
    BY <1>2, <1>6 DEF Compatible

\* While a stage keeps the scope it protects, no younger stage is granted a scope that
\* conflicts with it, whatever is released, cancelled or recovered between the passes.
THEOREM ProtectionKept == Spec => ProtectionHonoured
  <1> DEFINE Inv == LedgerInv /\ OrderInv /\ ProtectionFits
  <1>1. Init => Inv
    <2>1. Init => OrderInv /\ ProtectionFits
      BY DEF Init, OrderInv, IsAsymmetric, ProtectionFits, EmptyScope
    <2>2. QED
      BY <2>1, InitInv
  <1>2. Inv /\ [Next]_vars => Inv'
    BY TypeStep, SafetyStep, OrderStep DEF LedgerInv
  <1>3. Inv /\ [Next]_vars =>
          [\A s, t \in Stage :
             /\ protection[s] # EmptyScope
             /\ protection'[s] = protection[s]
             /\ <<s, t>> \in readyBefore
             /\ state[t] = "waiting" /\ state'[t] = "granted"
             => Compatible(protection[s], [h \in {t} |-> allocation'[t]])]_vars
    <2> SUFFICES ASSUME Inv, [Next]_vars, NEW s \in Stage, NEW t \in Stage,
                        protection[s] # EmptyScope, <<s, t>> \in readyBefore,
                        state[t] = "waiting", state'[t] = "granted"
                 PROVE  Compatible(protection[s], [h \in {t} |-> allocation'[t]])
      OBVIOUS
    <2>1. TypeOK'
      BY TypeStep DEF LedgerInv
    <2>2. ~Moves
      BY DEF Moves
    <2>3. ~Finishes
      BY DEF Finishes, Finish, FinishEnabled, FinishEffect, EndState, LedgerInv, TypeOK
    <2>4. PICK u \in Stage : Grant(u)
      BY <2>2, <2>3, StepKinds
    <2>5. u = t
      BY <2>4 DEF Grant, LedgerInv, TypeOK
    <2>6. QED
      BY <2>1, <2>4, <2>5, GrantLeavesRoom
  <1> HIDE DEF Inv
  <1>4. QED
    BY <1>1, <1>2, <1>3, PTL DEF Spec, ProtectionHonoured
-----------------------------------------------------------------------------
(***************************************************************************)
(* The outbox.  Rows are inserted in the transaction that settles their    *)
(* request.  During a pass only the requests it collected at its start can *)
(* lack rows, and the commit inserts those.                                *)
(***************************************************************************)
\* Every current subscriber has the row of what is settled of a request.
Told(r) ==
  \A u \in subscribed[r] :
    Settled(r, state) => RowFor(r, u, state, epoch, generation) \in outbox

OutboxInv ==
  /\ ~pass.open => pass = NoPass
  /\ pass.open => \A s \in pass.todo : RequestOf[s] \in pass.requests
  /\ \A r \in pass.requests : Submitted(r)
  /\ \A r \in Request :
       Submitted(r) /\ (pass.open => r \notin pass.requests) => Told(r)

\* What _outcomes inserts tells the subscribers of each request it is called for.
LEMMA OutcomesTell ==
  ASSUME TypeOK', NEW R \in SUBSET Request, Outcomes(R), NEW r \in R
  PROVE  Told(r)'
  <1> SUFFICES ASSUME NEW u \in subscribed'[r], Settled(r, state')
               PROVE  RowFor(r, u, state', epoch', generation') \in outbox'
    BY DEF Told
  <1>1. u \in Subscriber
    BY DEF TypeOK
  <1>2. <<r, u>> \in Audience(R, state', subscribed')
    BY <1>1 DEF Audience
  <1>3. RowFor(r, u, state', epoch', generation')
          \in OutcomeRows(R, state', epoch', subscribed', generation')
    BY <1>2 DEF OutcomeRows
  <1>4. QED
    BY <1>3 DEF Outcomes

\* The row of a request stays what it was while its stages only move among the states
\* that neither end nor quarantine them, and nobody joins.
LEMMA StaysTold ==
  ASSUME TypeOK, NEW r \in Request, Told(r), outbox \subseteq outbox',
         subscribed'[r] \subseteq subscribed[r], generation'[r] = generation[r],
         \A s \in StagesOf(r) :
           /\ epoch'[s] = epoch[s]
           /\ \/ state'[s] = state[s]
              \/ /\ state[s] \in {"waiting", "granted", "launching", "running"}
                 /\ state'[s] \in {"waiting", "granted", "launching", "running"}
  PROVE  Told(r)'
  <1> SUFFICES ASSUME NEW u \in subscribed'[r], Settled(r, state')
               PROVE  RowFor(r, u, state', epoch', generation') \in outbox'
    BY DEF Told
  <1>1. \A s \in StagesOf(r) :
          state'[s] = "recovery_required" <=> state[s] = "recovery_required"
    OBVIOUS
  <1>2. CASE \E s \in StagesOf(r) : state[s] = "recovery_required"
    <2>1. Status(r, state') = Status(r, state)
      BY <1>1, <1>2 DEF Status
    <2>2. Incident(r, state', epoch') = Incident(r, state, epoch)
      BY <1>1 DEF Incident
    <2>3. Settled(r, state)
      BY <1>2 DEF Settled
    <2>4. QED
      BY <2>1, <2>2, <2>3 DEF Told, RowFor
  <1>3. CASE ~\E s \in StagesOf(r) : state[s] = "recovery_required"
    <2>1. \A s \in StagesOf(r) : state'[s] \in Terminal
      BY <1>1, <1>3 DEF Settled
    <2>2. \A s \in StagesOf(r) : state'[s] = state[s]
      BY <2>1
    <2>3. Settled(r, state)
      BY <2>1, <2>2 DEF Settled
    <2>4. Status(r, state') = Status(r, state)
      BY <2>2 DEF Status
    <2>5. Incident(r, state', epoch') = Incident(r, state, epoch)
      BY <1>1 DEF Incident
    <2>6. QED
      BY <2>3, <2>4, <2>5 DEF Told, RowFor
  <1>4. QED
    BY <1>2, <1>3

\* The empty ledger owes nobody a row.
LEMMA InitOutbox == Init => OutboxInv /\ OneFinalResult
  BY DEF Init, OutboxInv, OneFinalResult, NoPass, Submitted, StagesOf

\* Every transaction tells the subscribers of what it settles.
LEMMA OutboxStep ==
  LedgerInv /\ TypeOK' /\ OutboxInv /\ [Next]_vars => OutboxInv'
  <1> SUFFICES ASSUME LedgerInv, TypeOK', OutboxInv, [Next]_vars PROVE OutboxInv'
    OBVIOUS
  <1> USE DEF LedgerInv
  <1>n. NoPass.open = FALSE /\ NoPass.todo = {} /\ NoPass.requests = {}
    BY DEF NoPass
  \* A transaction outside a pass that tells the subscribers of the one request it is for.
  <1>o. ASSUME NEW r \in Request, Idle, UNCHANGED pass, Outcomes({r}),
               \A s \in Stage \ StagesOf(r) :
                 state'[s] = state[s] /\ epoch'[s] = epoch[s],
               \A q \in Request \ {r} :
                 subscribed'[q] = subscribed[q] /\ generation'[q] = generation[q]
        PROVE  OutboxInv'
    <2>1. Told(r)'
      BY <1>o, OutcomesTell
    <2>2. ASSUME NEW q \in Request, q # r, Submitted(q)' PROVE Told(q)'
      <3>1. \A s \in StagesOf(q) : state'[s] = state[s] /\ epoch'[s] = epoch[s]
        BY <1>o, <2>2 DEF StagesOf
      <3>2. Submitted(q)
        BY <2>2, <3>1 DEF Submitted
      <3>3. Told(q)
        BY <1>o, <1>n, <3>2 DEF OutboxInv, Idle
      <3>4. outbox \subseteq outbox'
        BY <1>o DEF Outcomes
      <3>5. QED
        BY <1>o, <2>2, <3>1, <3>3, <3>4, StaysTold
    <2>3. QED
      BY <1>o, <1>n, <2>1, <2>2 DEF OutboxInv, Idle
  \* A transaction outside a pass that settles nothing.
  <1>q. ASSUME Idle, UNCHANGED <<pass, epoch, outbox, subscribed, generation>>,
               \A s \in Stage :
                 \/ state'[s] = state[s]
                 \/ /\ state[s] \in {"waiting", "granted", "launching", "running"}
                    /\ state'[s] \in {"waiting", "granted", "launching", "running"}
        PROVE  OutboxInv'
    <2>1. ASSUME NEW r \in Request, Submitted(r)' PROVE Told(r)'
      <3>1. Submitted(r)
        BY <1>q, <2>1 DEF Submitted, StagesOf
      <3>2. Told(r)
        BY <1>q, <1>n, <3>1 DEF OutboxInv, Idle
      <3>3. QED
        BY <1>q, <3>2, StaysTold DEF StagesOf
    <2>2. QED
      BY <1>q, <1>n, <2>1 DEF OutboxInv, Idle
  <1>1. ASSUME NEW r \in Request, NEW U \in SUBSET Subscriber, Submit(r, U)
        PROVE  OutboxInv'
    <2>1. /\ Idle
          /\ UNCHANGED <<pass, epoch, outbox>>
          /\ StagesOf(r) # {}
          /\ state' = [s \in Stage |->
                         IF s \in StagesOf(r) THEN "waiting" ELSE state[s]]
          /\ \A q \in Request \ {r} :
               subscribed'[q] = subscribed[q] /\ generation'[q] = generation[q]
      BY <1>1 DEF Submit, owned, TypeOK
    <2>2. ~Settled(r, state')
      BY <2>1 DEF Settled, StagesOf
    <2>3. Told(r)'
      BY <2>2 DEF Told
    <2>4. ASSUME NEW q \in Request, q # r, Submitted(q)' PROVE Told(q)'
      <3>1. \A s \in StagesOf(q) : state'[s] = state[s] /\ epoch'[s] = epoch[s]
        BY <2>1, <2>4 DEF StagesOf
      <3>2. Submitted(q)
        BY <2>4, <3>1 DEF Submitted
      <3>3. Told(q)
        BY <2>1, <1>n, <3>2 DEF OutboxInv, Idle
      <3>4. QED
        BY <2>1, <2>4, <3>1, <3>3, StaysTold
    <2>5. QED
      BY <2>1, <1>n, <2>3, <2>4 DEF OutboxInv, Idle
  <1>2. ASSUME NEW unavailable \in SUBSET Project, ScheduleBegin(unavailable)
        PROVE  OutboxInv'
    <2>1. PICK skipped \in SUBSET Waiting :
            /\ state' = [s \in Stage |->
                           IF s \in skipped THEN "skipped" ELSE state[s]]
            /\ pass' = [open |-> TRUE, todo |-> Ready(skipped, unavailable),
                        veterans |-> readied, released |-> released,
                        requests |-> {RequestOf[s] : s \in Waiting \cup Owners}]
      BY <1>2 DEF ScheduleBegin
    <2>2. Idle /\ UNCHANGED <<epoch, outbox, subscribed, generation>>
      BY <1>2 DEF ScheduleBegin, owned, subscriptions
    <2>3. \A s \in pass'.todo : RequestOf[s] \in pass'.requests
      BY <2>1 DEF Ready
    <2>4. ASSUME NEW r \in Request, Submitted(r)', r \notin pass'.requests
          PROVE  Told(r)'
      <3>1. \A s \in StagesOf(r) : s \notin Waiting \cup Owners
        BY <2>1, <2>4 DEF StagesOf
      <3>2. \A s \in StagesOf(r) : state'[s] = state[s]
        BY <2>1, <3>1 DEF StagesOf
      <3>3. Submitted(r)
        BY <2>4, <3>2 DEF Submitted
      <3>4. Told(r)
        BY <2>2, <1>n, <3>3 DEF OutboxInv, Idle
      <3>5. QED
        BY <2>2, <3>2, <3>4, StaysTold
    <2>5. pass'.open
      BY <2>1
    <2>6. \A r \in pass'.requests : Submitted(r)'
      BY <2>1 DEF Submitted, StagesOf, Waiting, Owners, TypeOK
    <2>7. QED
      BY <2>3, <2>4, <2>5, <2>6 DEF OutboxInv
  <1>3. ASSUME NEW s \in Stage, Grant(s)
        PROVE  OutboxInv'
    <2>1. /\ pass' = [pass EXCEPT !.todo = pass.todo \ {s}]
          /\ s \in pass.todo
          /\ UNCHANGED <<outbox, subscribed, generation>>
          /\ state' = [state EXCEPT ![s] = "granted"]
          /\ epoch' = [epoch EXCEPT ![s] = epoch[s] + 1]
      BY <1>3 DEF Grant, Oldest, Decided, subscriptions
    <2>2. pass.open /\ RequestOf[s] \in pass.requests
      BY <2>1, <1>n DEF OutboxInv
    <2>3. /\ pass'.open = pass.open
          /\ pass'.requests = pass.requests
          /\ pass'.todo \subseteq pass.todo
      BY <2>1 DEF TypeOK
    <2>4. ASSUME NEW r \in Request, Submitted(r)', r \notin pass.requests
          PROVE  Told(r)'
      <3>1. \A t \in StagesOf(r) : state'[t] = state[t] /\ epoch'[t] = epoch[t]
        BY <2>1, <2>2, <2>4 DEF StagesOf, TypeOK
      <3>2. Submitted(r)
        BY <2>4, <3>1 DEF Submitted
      <3>3. Told(r)
        BY <2>4, <3>2 DEF OutboxInv
      <3>4. QED
        BY <2>1, <3>1, <3>3, StaysTold
    <2>5. \A r \in pass.requests : Submitted(r)'
      BY <2>1 DEF OutboxInv, Submitted, StagesOf, TypeOK
    <2>6. QED
      BY <2>2, <2>3, <2>4, <2>5 DEF OutboxInv
  <1>4. ASSUME NEW s \in Stage, Protect(s)
        PROVE  OutboxInv'
    <2>1. /\ pass' = [pass EXCEPT !.todo = pass.todo \ {s}]
          /\ s \in pass.todo
          /\ UNCHANGED <<state, epoch, outbox, subscribed, generation>>
      BY <1>4 DEF Protect, Oldest, Decided, subscriptions, owned
    <2>2. pass.open
      BY <2>1, <1>n DEF OutboxInv
    <2>3. /\ pass'.open = pass.open
          /\ pass'.requests = pass.requests
          /\ pass'.todo \subseteq pass.todo
      BY <2>1 DEF TypeOK
    <2>4. \A r \in Request : (Submitted(r)' <=> Submitted(r)) /\ (Told(r)' <=> Told(r))
      BY <2>1 DEF Submitted, Told, RowFor, Settled, Status, Incident
    <2>5. pass.requests \subseteq Request
      BY DEF TypeOK
    <2>6. QED
      BY <2>2, <2>3, <2>4, <2>5 DEF OutboxInv
  <1>5. ASSUME ScheduleCommit
        PROVE  OutboxInv'
    <2>1. /\ pass.open
          /\ pass' = NoPass
          /\ UNCHANGED <<state, epoch, subscribed, generation>>
          /\ Outcomes(pass.requests)
      BY <1>5 DEF ScheduleCommit, subscriptions, owned
    <2>2. ASSUME NEW r \in Request, Submitted(r)' PROVE Told(r)'
      <3>1. CASE r \in pass.requests
        <4>1. pass.requests \in SUBSET Request
          BY DEF TypeOK
        <4>2. QED
          BY <2>1, <3>1, <4>1, OutcomesTell
      <3>2. CASE r \notin pass.requests
        <4>1. Told(r)
          BY <2>1, <2>2, <3>2 DEF OutboxInv, Submitted
        <4>2. outbox \subseteq outbox'
          BY <2>1 DEF Outcomes
        <4>3. QED
          BY <2>1, <4>1, <4>2, StaysTold
      <3>3. QED
        BY <3>1, <3>2
    <2>3. QED
      BY <2>1, <2>2, <1>n DEF OutboxInv
  <1>6. ASSUME NEW s \in Stage, Attach(s, epoch[s])
        PROVE  OutboxInv'
    BY <1>6, <1>q DEF Attach, owned, subscriptions, TypeOK
  <1>7. ASSUME NEW s \in Stage, Admit(s)
        PROVE  OutboxInv'
    BY <1>7, <1>q DEF Admit, Admissible, owned, subscriptions, TypeOK
  <1>8. ASSUME NEW r \in Request, Cancel(r)
        PROVE  OutboxInv'
    <2>1. /\ Idle
          /\ UNCHANGED <<pass, epoch, subscribed, generation>>
          /\ Outcomes({r})
          /\ \A s \in Stage \ StagesOf(r) : state'[s] = state[s]
      BY <1>8 DEF Cancel, owned, subscriptions
    <2>2. QED
      BY <2>1, <1>o
  <1>9. ASSUME NEW r \in Request, NEW u \in Subscriber,
               Subscribe(r, u) \/ Unsubscribe(r, u)
        PROVE  OutboxInv'
    <2>1. /\ Idle
          /\ UNCHANGED <<pass, state, epoch>>
          /\ Outcomes({r})
      BY <1>9 DEF Subscribe, Unsubscribe, owned
    <2>2. \A q \in Request \ {r} :
            subscribed'[q] = subscribed[q] /\ generation'[q] = generation[q]
      BY <1>9 DEF Subscribe, Unsubscribe, subscriptions, TypeOK
    <2>3. QED
      BY <2>1, <2>2, <1>o
  <1>10. ASSUME Finishes
         PROVE  OutboxInv'
    <2>1. PICK s \in Stage, result \in Terminal, rel \in SUBSET Leaf :
            Finish(s, epoch[s], result, rel)
      BY <1>10 DEF Finishes
    <2>2. /\ Idle
          /\ UNCHANGED <<pass, epoch, subscribed, generation>>
          /\ Outcomes({RequestOf[s]})
          /\ \A t \in Stage \ {s} : state'[t] = state[t]
      BY <2>1 DEF Finish, FinishEnabled, FinishEffect, EndState, subscriptions, TypeOK
    <2>3. RequestOf[s] \in Request /\ s \in StagesOf(RequestOf[s])
      BY RequestOfAssumption DEF StagesOf
    <2>4. QED
      BY <2>2, <2>3, <1>o
  <1>11. CASE UNCHANGED vars
    <2>1. UNCHANGED <<pass, state, epoch, outbox, subscribed, generation>>
      BY <1>11 DEF vars, owned, subscriptions
    <2>2. \A r \in Request : (Submitted(r)' <=> Submitted(r)) /\ (Told(r)' <=> Told(r))
      BY <2>1 DEF Submitted, Told, RowFor, Settled, Status, Incident
    <2>3. pass.requests \subseteq Request
      BY DEF TypeOK
    <2>4. QED
      BY <2>1, <2>2, <2>3 DEF OutboxInv
  <1>12. QED
    BY <1>1, <1>2, <1>3, <1>4, <1>5, <1>6, <1>7, <1>8, <1>9, <1>10, <1>11,
       ReleaseKinds DEF Next
\* Every new row is one _outcomes inserts, for the states the transaction leaves.
LEMMA NewRows ==
  ASSUME LedgerInv, OutboxInv, TypeOK', [Next]_vars
  PROVE  \A row \in outbox' \ outbox : \E r \in Request, u \in Subscriber :
           /\ Submitted(r)' /\ Settled(r, state') /\ u \in subscribed'[r]
           /\ row = RowFor(r, u, state', epoch', generation')
  <1> DEFINE Tells(R) == Outcomes(R) /\ \A r \in R : r \in Request /\ Submitted(r)'
  <1>1. ASSUME NEW R, Tells(R), NEW row \in outbox' \ outbox
        PROVE  \E r \in Request, u \in Subscriber :
                 /\ Submitted(r)' /\ Settled(r, state') /\ u \in subscribed'[r]
                 /\ row = RowFor(r, u, state', epoch', generation')
    <2>1. row \in OutcomeRows(R, state', epoch', subscribed', generation')
      BY <1>1 DEF Outcomes
    <2>2. PICK x \in Audience(R, state', subscribed') :
            row = RowFor(x[1], x[2], state', epoch', generation')
      BY <2>1 DEF OutcomeRows
    <2>3. /\ x[1] \in R /\ x[2] \in Subscriber
          /\ Settled(x[1], state') /\ x[2] \in subscribed'[x[1]]
      BY DEF Audience
    <2>4. QED
      BY <1>1, <2>2, <2>3
  <1>2. UNCHANGED outbox \/ \E R : Tells(R)
    <2>1. CASE Finishes
      <3>1. PICK s \in Stage, result \in Terminal, rel \in SUBSET Leaf :
              Finish(s, epoch[s], result, rel)
        BY <2>1 DEF Finishes
      <3>2. Outcomes({RequestOf[s]}) /\ s \in StagesOf(RequestOf[s]) /\ RequestOf[s] \in Request
        BY <3>1, RequestOfAssumption DEF Finish, FinishEffect, StagesOf
      <3>3. state'[s] # "absent"
        BY <3>1 DEF Finish, FinishEffect, EndState, LedgerInv, TypeOK
      <3>4. QED
        BY <3>2, <3>3 DEF Submitted
    <2>2. CASE UNCHANGED vars
      BY <2>2 DEF vars
    <2>3. ASSUME NEW r \in Request, NEW u \in Subscriber,
                 Subscribe(r, u) \/ Unsubscribe(r, u)
          PROVE  \E R : Tells(R)
      <3>1. Tells({r})
        BY <2>3 DEF Subscribe, Unsubscribe, Submitted
      <3>2. QED
        BY <3>1
    <2>4. ASSUME NEW r \in Request, Cancel(r)
          PROVE  \E R : Tells(R)
      <3>1. Tells({r})
        BY <2>4 DEF Cancel, Submitted, StagesOf
      <3>2. QED
        BY <3>1
    <2>5. CASE ScheduleCommit
      <3>1. Outcomes(pass.requests) /\ UNCHANGED state
        BY <2>5 DEF ScheduleCommit
      <3>2. \A r \in pass.requests : r \in Request /\ Submitted(r)'
        BY <3>1 DEF OutboxInv, Submitted, LedgerInv, TypeOK
      <3>3. QED
        BY <3>1, <3>2
    <2> HIDE DEF Tells
    <2>6. QED
      BY <2>1, <2>2, <2>3, <2>4, <2>5, ReleaseKinds
         DEF Next, LedgerInv, Submit, ScheduleBegin, Grant, Protect, Attach, Admit
  <1>3. QED
    BY <1>1, <1>2

\* The final row of a request stays true: its stages have ended for good.
LEMMA FinalStep ==
  LedgerInv /\ OutboxInv /\ TypeOK' /\ OneFinalResult /\ [Next]_vars
    => OneFinalResult'
  <1> SUFFICES ASSUME LedgerInv, OutboxInv, TypeOK', OneFinalResult, [Next]_vars,
                      NEW row \in outbox', row.status # "action_required"
               PROVE  /\ \A s \in StagesOf(row.request) : state'[s] \in Terminal
                      /\ row.status = Status(row.request, state')
    BY DEF OneFinalResult
  <1>1. CASE row \in outbox
    <2>1. /\ \A s \in StagesOf(row.request) : state[s] \in Terminal
          /\ row.status = Status(row.request, state)
      BY <1>1 DEF OneFinalResult
    <2>2. \A s \in StagesOf(row.request) : state'[s] = state[s]
      BY <2>1, EndedStep DEF EndedStays, StagesOf, vars
    <2>3. QED
      BY <2>1, <2>2 DEF Status
  <1>2. CASE row \notin outbox
    <2>1. /\ Settled(row.request, state')
          /\ row.status = Status(row.request, state')
      BY <1>2, NewRows DEF RowFor
    <2>2. ~\E s \in StagesOf(row.request) : state'[s] = "recovery_required"
      BY <2>1 DEF Status
    <2>3. QED
      BY <2>1, <2>2 DEF Settled
  <1>3. QED
    BY <1>1, <1>2

\* Between transactions every current subscriber of a settled request has its row, and
\* a final row agrees with the final states of the stages: whatever settles a request,
\* and whenever somebody subscribed (_outcomes).
THEOREM OutboxIsSound == Spec => []OutboxSound
  <1> DEFINE Inv == LedgerInv /\ OutboxInv /\ OneFinalResult
  <1>1. Init => Inv
    BY InitInv, InitOutbox
  <1>2. Inv /\ [Next]_vars => Inv'
    BY TypeStep, SafetyStep, OutboxStep, FinalStep DEF LedgerInv
  <1>3. Inv => OutboxSound
    <2> SUFFICES ASSUME OutboxInv, Idle,
                        NEW x \in Audience({r \in Request : Submitted(r)}, state, subscribed)
                 PROVE  RowFor(x[1], x[2], state, epoch, generation) \in outbox
      BY DEF OutboxSound, OutboxComplete, OutcomeRows
    <2>1. /\ x[1] \in Request /\ Submitted(x[1])
          /\ Settled(x[1], state) /\ x[2] \in subscribed[x[1]]
      BY DEF Audience
    <2>2. Told(x[1])
      BY <2>1 DEF OutboxInv, Idle, NoPass
    <2>3. QED
      BY <2>1, <2>2 DEF Told
  <1> HIDE DEF Inv
  <1>4. QED
    BY <1>1, <1>2, <1>3, PTL DEF Spec
===============================================================================
