------------------------------ MODULE MCWorkerTask ------------------------------
(***************************************************************************)
(* Two tasks of one profile compete for one slot.                          *)
(***************************************************************************)
EXTENDS WorkerTask

CONSTANTS t1, t2, w1, f1, f2, x, y

MCWorkerOf == [t \in Task |-> w1]
MCWakePolicy == [t \in Task |-> IF t = t1 THEN "on-failure" ELSE "always"]
MCAlways == [t \in Task |-> "always"]
MCNever == [t \in Task |-> "never"]
MCWorkerLimit == [w \in Worker |-> 1]
MCFingerprintOf == [t \in Task |-> IF t = t1 \/ f2 \notin Fingerprint THEN f1 ELSE f2]
===============================================================================
