---------------------------- MODULE ResourceScopes ----------------------------
(***************************************************************************)
(* What the resource ledger promises, without queues, passes, launches or  *)
(* recovery: a stage takes one complete scope at once, at most one time,   *)
(* never beside a scope it conflicts with; afterwards it can only give     *)
(* leaves back, and it is not over before it has given back every one.     *)
(***************************************************************************)
EXTENDS Naturals, Functions

CONSTANTS Stage, Leaf, Options, Capacity, NoScope

VARIABLES phase, holds

vars == <<phase, holds>>

Coexist(h) ==
  \A l \in Leaf :
    LET users == {s \in Stage : l \in DOMAIN h[s]} IN
      /\ SumFunction([s \in users |-> h[s][l].units]) <= Capacity[l]
      /\ \A s, t \in users : s # t =>
           /\ h[s][l].mode = "shared"
           /\ h[s][l].class = h[t][l].class

Init ==
  /\ phase = [s \in Stage |-> "pending"]
  /\ holds = [s \in Stage |-> NoScope]

Acquire(s) ==
  /\ phase[s] = "pending"
  /\ \E o \in Options[s] : holds' = [holds EXCEPT ![s] = o]
  /\ Coexist(holds')
  /\ phase' = [phase EXCEPT ![s] = "held"]

GiveBack(s) ==
  /\ phase[s] = "held"
  /\ \E kept \in SUBSET DOMAIN holds[s] :
       /\ holds' = [holds EXCEPT ![s] = Restrict(@, kept)]
       /\ phase' = [phase EXCEPT ![s] = IF kept = {} THEN "over" ELSE "held"]

Withdraw(S) ==
  /\ \A s \in S : phase[s] = "pending"
  /\ phase' = [s \in Stage |-> IF s \in S THEN "over" ELSE phase[s]]
  /\ UNCHANGED holds

Next ==
  \/ \E s \in Stage : Acquire(s) \/ GiveBack(s)
  \/ \E S \in SUBSET Stage : Withdraw(S)

Spec == Init /\ [][Next]_vars
===============================================================================
