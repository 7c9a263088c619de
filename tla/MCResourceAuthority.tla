-------------------------- MODULE MCResourceAuthority --------------------------
(***************************************************************************)
(* One request of two stages in sequence over two leaves, A released by    *)
(* its probe and B by the end of its processes, and one more request that  *)
(* wants A.                                                                *)
(***************************************************************************)
EXTENDS ResourceAuthority

CONSTANTS A, B, r1, r2, prepare, verify, other, read, p1

Exclusive == [mode |-> "exclusive", class |-> read, units |-> 1]

MCRequestOf == [s \in Stage |-> IF s = other THEN r2 ELSE r1]
MCProjectOf == [r \in Request |-> p1]
MCAfter == [s \in Stage |-> IF s = verify THEN {prepare} ELSE {}]
MCPlanBefore == {<<prepare, verify>>} \cap (Stage \X Stage)
MCOptions ==
  [s \in Stage |-> IF s = prepare THEN {[l \in {A, B} |-> Exclusive]}
                                  ELSE {[l \in {A} |-> Exclusive]}]
MCCapacity == [l \in Leaf |-> 1]
MCMaxGeneration == [r \in Request |-> 0]
MCCoupled == [l \in Leaf |-> {l}]
MCOutages == {{}}
===============================================================================
