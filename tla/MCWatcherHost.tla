----------------------------- MODULE MCWatcherHost -----------------------------
(***************************************************************************)
(* Two scans share the state of one host and one signal; or two commands   *)
(* manage the service of the host.                                         *)
(***************************************************************************)
EXTENDS WatcherHost

CONSTANTS k1, service, oneShot, op, c1, c2

MCMaxBusy == [deliver |-> 0, notices |-> 1]
MCMaxCrashes == [deliver |-> 1, notices |-> 1]
MCPlays == {"deliver", "notices", "service"}
===============================================================================
