---------------------------- MODULE MCResourceLedger ----------------------------
(***************************************************************************)
(* Two leaves, A of capacity 2 and B of capacity 1.  Request r1 reads A and *)
(* then writes one leaf of the pool {A, B}; request r2, of another project, *)
(* has one scope over both leaves and, independent of it, a read of A.     *)
(* Results are delivered where r1 is alone.                                *)
(* The registry has selectors over selectors, some for the search alone.   *)
(***************************************************************************)
EXTENDS ResourceSelectors, ResourceOutbox

CONSTANTS A, B, pool, pair, alias, either, tangle, r1, r2, r3, read1, solo, write1, both2, read3, u1, read, p1, p2

Exclusive == [mode |-> "exclusive", class |-> read, units |-> 1]
Shared == [mode |-> "shared", class |-> read, units |-> 1]

MCRequestOf == [s \in Stage |-> IF s \in {read1, write1} THEN r1 ELSE IF s = solo THEN r3 ELSE r2]
MCProjectOf == [r \in Request |-> IF r = r2 THEN p2 ELSE p1]
MCAfter == [s \in Stage |-> IF s = write1 THEN {read1} ELSE {}]
MCPlanBefore == {<<read1, write1>>, <<both2, read3>>}
MCRegistry ==
  [n \in {A, B, pool, pair, alias, either, tangle} |->
     CASE n = pool -> [kind |-> "pool", members |-> {A, B}]
       [] n = pair -> [kind |-> "bundle", members |-> {A, B}]
       [] n = alias -> [kind |-> "alias", members |-> {pool}]
       [] n = either -> [kind |-> "pool", members |-> {pair, B}]
       [] n = tangle -> [kind |-> "bundle", members |-> {alias, A}]
       [] OTHER -> [kind |-> "resource", members |-> {}]]
MCNeeds ==
  [s \in Stage |->
     CASE s \in {read1, read3, solo} -> <<[resource |-> A, claim |-> Shared]>>
       [] s = write1 -> <<[resource |-> alias, claim |-> Exclusive]>>
       [] s = both2 -> <<[resource |-> tangle, claim |-> Exclusive]>>]
MCBookings == {EmptyScope, [l \in {A} |-> Shared], [l \in {B} |-> Exclusive]}
MCOptions ==
  [s \in Stage |->
     CASE s \in {read1, read3, solo} -> {[l \in {A} |-> Shared]}
       [] s = write1 -> {[l \in {A} |-> Exclusive], [l \in {B} |-> Exclusive]}
       [] s = both2 -> {[l \in {A, B} |-> Exclusive]}]
MCCapacity == [l \in Leaf |-> IF l = A THEN 2 ELSE 1]
\* The subscriber of r3 may leave and return.
MCMaxGeneration == [r \in Request |-> IF r = r1 THEN 1 ELSE IF r = r3 THEN 2 ELSE 0]
MCWakePolicy == [u \in Subscriber |-> "on-failure"]
MCSessions ==
  {[requests |-> {r1}, subscribers |-> {u1}], [requests |-> {r3}, subscribers |-> {u1}],
   [requests |-> {r1, r2}, subscribers |-> {}]}
MCCoupled == [l \in Leaf |-> {l}]
===============================================================================
