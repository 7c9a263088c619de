------------------------------ MODULE MCWorkerWait ------------------------------
(***************************************************************************)
(* A task while somebody waits for it.  A wait meets one reaper at a time: *)
(* it cannot tell which of them publishes.                                 *)
(***************************************************************************)
EXTENDS MCWorkerTask, WorkerWait

OneReaperSeen ==
  \A t \in Task : look[t] # NoLook \/ dead[t] # 0 => reaper[y] = NoReap
===============================================================================
