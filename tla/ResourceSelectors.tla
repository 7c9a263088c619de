--------------------------- MODULE ResourceSelectors ---------------------------
(***************************************************************************)
(* Choosing leaves for the needs of a stage (resource_queue.py): a need    *)
(* names a leaf or a selector over other names, and `assignments` searches *)
(* the complete scopes by backtracking, pruning what cannot be completed.  *)
(* The order of the search is left out: the searches are sets, from which  *)
(* the ledger takes any.                                                   *)
(***************************************************************************)
EXTENDS ResourceLedger, FiniteSetsExt, Sequences

CONSTANTS
  Registry,  \* [name -> [kind, members]]; a leaf is a name of kind "resource"
  Needs,     \* [Stage -> Seq([resource, claim])]
  Bookings   \* scopes others may hold when a search begins

Chooses(n) == Registry[n].kind \in {"alias", "pool"}
IsLeaf(n) == Registry[n].kind = "resource"

RECURSIVE selector_leaves(_)
selector_leaves(n) ==
  IF IsLeaf(n) THEN {n} ELSE UNION {selector_leaves(m) : m \in Registry[n].members}

RECURSIVE selector_available(_, _)
selector_available(n, excluded) ==
  IF IsLeaf(n) THEN n \notin excluded
  ELSE LET Open(m) == selector_available(m, excluded) IN
       IF Chooses(n) THEN \E m \in Registry[n].members : Open(m)
       ELSE \A m \in Registry[n].members : Open(m)

RECURSIVE selector_claim_available(_, _, _, _)
selector_claim_available(n, claim, others, excluded) ==
  IF IsLeaf(n) THEN n \notin excluded /\ Compatible([l \in {n} |-> claim], others)
  ELSE LET Open(m) == selector_claim_available(m, claim, others, excluded) IN
       IF Chooses(n) THEN \E m \in Registry[n].members : Open(m)
       ELSE \A m \in Registry[n].members : Open(m)

\* Mutant: the members of a bundle may share a leaf.
Combine_Overlapping(choices, options) ==
  {c \cup o : c \in choices, o \in options}

Combine(choices, options) ==
  {x[1] \cup x[2] : x \in {y \in choices \X options : y[1] \cap y[2] = {}}}

RECURSIVE alternatives(_, _)
alternatives(n, excluded) ==
  CASE ~selector_available(n, excluded) -> {}
    [] IsLeaf(n) -> {{n}}
    [] Chooses(n) -> UNION {alternatives(m, excluded) : m \in Registry[n].members}
    [] OTHER -> FoldSet(LAMBDA m, choices : Combine(choices, alternatives(m, excluded)),
                        {{}}, Registry[n].members)

\* normalize_registry refuses a selector that has no assignment.
normalize_registry == \A n \in DOMAIN Registry : alternatives(n, {}) # {}
ASSUME RegistryAssumption == normalize_registry

(***************************************************************************)
(* assignments: one frame of the search adds the leaves of one need to the *)
(* scope so far.                                                           *)
(***************************************************************************)
\* Mutant: two needs of one leaf count once.
Added_Once(scope, leaves, claim) ==
  [l \in DOMAIN scope \cup leaves |-> IF l \in leaves THEN claim ELSE scope[l]]

Added(scope, leaves, claim) ==
  [l \in DOMAIN scope \cup leaves |->
     IF l \notin leaves THEN scope[l]
     ELSE IF l \in DOMAIN scope THEN [claim EXCEPT !.units = @ + scope[l].units]
     ELSE claim]

Joins(scope, leaves, claim) ==
  /\ \A l \in leaves \cap DOMAIN scope : Agree(claim, scope[l])
  /\ \A l \in leaves : Added(scope, leaves, claim)[l].units <= Capacity[l]

RECURSIVE Search(_, _, _, _, _)
Search(needs, scope, others, excluded, required) ==
  LET ahead == UNION {selector_leaves(needs[i].resource) : i \in DOMAIN needs} IN
  CASE required # {} /\ required \cap (DOMAIN scope \cup ahead) = {} -> {}
    [] needs = <<>> -> {scope}
    [] OTHER ->
         LET n == Head(needs).resource
             claim == Head(needs).claim
             shut == {l \in selector_leaves(n) : ~Compatible([x \in {l} |-> claim], others)}
             taken == {c \in alternatives(n, excluded \cup shut) :
                         /\ Joins(scope, c, claim)
                         /\ Compatible(Added(scope, c, claim), others)}
         IN IF selector_claim_available(n, claim, others, excluded)
            THEN UNION {Search(Tail(needs), Added(scope, c, claim), others, excluded, required)
                        : c \in taken}
            ELSE {}

assignments(needs, others, excluded, required) ==
  Search(needs, EmptyScope, others, excluded, required)

-----------------------------------------------------------------------------
(***************************************************************************)
(* What a selector and a list of needs mean, without a search.             *)
(***************************************************************************)
RECURSIVE Satisfies(_, _)
Satisfies(leaves, n) ==
  IF IsLeaf(n) THEN leaves = {n}
  ELSE LET members == Registry[n].members IN
       IF Chooses(n) THEN \E m \in members : Satisfies(leaves, m)
       ELSE \E part \in [members -> SUBSET leaves] :
              /\ \A l \in leaves : Cardinality({m \in members : l \in part[m]}) = 1
              /\ \A m \in members : Satisfies(part[m], m)

Picks(needs) ==
  {p \in [DOMAIN needs -> SUBSET Leaf] :
     \A i \in DOMAIN needs : Satisfies(p[i], needs[i].resource)}

Users(p, l) == {i \in DOMAIN p : l \in p[i]}
Sharing(needs, p) ==
  \A l \in Leaf : \A i, j \in Users(p, l) : i # j => Agree(needs[i].claim, needs[j].claim)

Total(needs, p) ==
  [l \in UNION Range(p) |->
     LET first == CHOOSE i \in Users(p, l) : TRUE IN
       [needs[first].claim EXCEPT !.units =
          SumFunction([i \in Users(p, l) |-> needs[i].claim.units])]]

Complete(needs) == {Total(needs, p) : p \in {q \in Picks(needs) : Sharing(needs, q)}}

Fits(scope, others, excluded, required) ==
  /\ Compatible(scope, others)
  /\ DOMAIN scope \cap excluded = {}
  /\ required # {} => DOMAIN scope \cap required # {}

Claims == {needs[1].claim : needs \in Range(Needs)}
Demands ==
  {<<[resource |-> n, claim |-> c]>> : n \in DOMAIN Registry, c \in Claims}
Lists == Demands \cup {d \o e : d \in Demands, e \in Demands}

\* The pruned search finds the scopes that complete the needs in what is left, all of
\* them and nothing else: no leaf is used twice for one bundle, claims of two needs on
\* one leaf add up, and pruning loses no scope (assignments, alternatives).
SearchExact ==
  \A needs \in Lists, booked \in Bookings, excluded, required \in SUBSET Leaf :
    LET others == [h \in {1} |-> booked] IN
      assignments(needs, others, excluded, required) =
        {o \in Complete(needs) : Fits(o, others, excluded, required)}

\* The scopes the ledger grants from are those that submit searches for.
OptionsSearched == \A s \in Stage :
  Options[s] = assignments(Needs[s], <<>>, {}, {}) /\ Options[s] = Complete(Needs[s])

\* A grant gives a stage all that it needs at once, and no more.
GrantsComplete == \A s \in Stage : state[s] = "granted" => allocation[s] \in Options[s]

\* The search offers every scope that completes the needs of a stage and no other, and
\* a grant is one of them (assignments, alternatives, schedule).
AllocationSound == SearchExact /\ OptionsSearched /\ GrantsComplete
=============================================================================
