---------------------------- MODULE DetachedOutcome ----------------------------
(* What a detached operation promises to the chat that started it: once it *)
(* is admitted it gets at most one outcome, the chat is woken only about   *)
(* an outcome, and none of this is ever taken back.                        *)
CONSTANTS Op, None

VARIABLES
    admitted,   \* the operations that were started
    outcome,    \* the outcome of an operation, of any kind, or None
    announced   \* the operations whose outcome woke the chat

vars == <<admitted, outcome, announced>>

Init ==
    /\ admitted = {}
    /\ outcome = [op \in Op |-> None]
    /\ announced = {}

Admit(op) ==
    /\ op \notin admitted
    /\ admitted' = admitted \cup {op}
    /\ UNCHANGED <<outcome, announced>>

Decide(op) ==
    /\ op \in admitted
    /\ outcome[op] = None
    /\ outcome'[op] # None
    /\ outcome' = [outcome EXCEPT ![op] = outcome'[op]]
    /\ UNCHANGED <<admitted, announced>>

Announce(op) ==
    /\ outcome[op] # None
    /\ announced' = announced \cup {op}
    /\ UNCHANGED <<admitted, outcome>>

Next == \E op \in Op : Admit(op) \/ Decide(op) \/ Announce(op)

Spec == Init /\ [][Next]_vars
=============================================================================
