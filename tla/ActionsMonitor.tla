---------------------------- MODULE ActionsMonitor ----------------------------
(* Monitors of GitHub Actions runs (github_actions.py).  A monitor is      *)
(* started for a run, or for a commit whose run its supervisor discovers;  *)
(* the supervisor views the run, watches it with a child process until it  *)
(* ends, is cancelled or times out, and views it again.  The admission     *)
(* lock covers the start, the claim of the descriptor, the claim of a      *)
(* discovered run and each reaping, and nothing else.                      *)
EXTENDS DetachedOperations

CONSTANTS
    Requested,      \* the run a monitor is started for, or None to discover it
    DiscoveryKey,   \* the commit and workflow name of a monitor
    Matches,        \* the runs a discovery with a key may resolve to
    RetryOf,        \* the monitor that this one retries, or None
    Timed,          \* the operations with a timeout
    Views           \* the observations that a query about a run may settle

ASSUME ViewsAssumption ==
    \A op \in Actions : \A obs \in Views[op] :
        obs = Observed(obs.status, obs.conclusion) /\ obs.status \in MonitorStatus
ASSUME RetryAssumption ==
    \A op \in Actions : RetryOf[op] # None =>
        Requested[op] = Requested[RetryOf[op]] /\ DiscoveryKey[op] = DiscoveryKey[RetryOf[op]]

(* finalize_monitor, called with an observation: its writes, one at a time,*)
(* are the publication steps of DetachedOperations.                        *)
Settling(op, obs) ==
    /\ Begins(op, "sup", "result", obs)
    /\ sup' = [sup EXCEPT ![op].at = "settling"]
Concluding(op, obs) ==
    /\ Begins(op, "sup", "result", obs)
    /\ sup' = [sup EXCEPT ![op].at = "publishing"]
Moves(op, at, note) ==
    /\ sup' = [sup EXCEPT ![op] = [@ EXCEPT !.at = at, !.note = note]]
    /\ UNCHANGED pen

Owns(op, run) == Active(op) /\ desc[op].run = run

(* retry_monitor: only what ended without a view of the run's end.         *)
Retriable(op) ==
    RetryOf[op] # None => desc[RetryOf[op]].status \in MonitorStatus \ {"completed"}

(* start_monitor, and retry_monitor, which starts a monitor with the       *)
(* options the original one was requested with.                            *)
StartActions(op) ==
    /\ op \in Actions \cap play
    /\ desc[op].status = "absent"
    /\ Unlocked(op)
    /\ Retriable(op)
    /\ \A o \in Actions \ {op} :
         IF Requested[op] # None THEN ~Owns(o, Requested[op])
         ELSE ~(Active(o) /\ Requested[o] = None /\ DiscoveryKey[o] = DiscoveryKey[op])
    /\ desc' = [desc EXCEPT ![op] = [@ EXCEPT !.status = "starting", !.run = Requested[op],
                                              !.policy = WakePolicy[op]]]
    /\ starter' = [starter EXCEPT ![op] = "spawning"]
    /\ UNCHANGED <<others, launch, files, sup, pen, child, cancel, faults>>

LaunchActionsSupervisor(op) == op \in Actions /\ Spawns(op)

(* supervise_monitor takes the descriptor under the admission lock.        *)
ClaimActions(op) ==
    /\ op \in Actions
    /\ sup[op].at = "spawned"
    /\ Unlocked(op)
    /\ IF desc[op].status = "starting"
       THEN /\ desc' = [desc EXCEPT ![op] = [@ EXCEPT !.status = "running", !.identity = TRUE]]
            /\ Moves(op, IF desc[op].run = None THEN "discovering" ELSE "viewing", "exited")
       ELSE Moves(op, "gone", "exited") /\ UNCHANGED desc
    /\ UNCHANGED <<others, launch, files, starter, child, cancel, faults>>

(* discover_run: one query, of the runs of the commit.                     *)
Discover(op) ==
    /\ op \in Actions
    /\ sup[op].at = "discovering"
    /\ IF cancel[op] THEN Settling(op, Seen("cancelled"))
       ELSE \/ \E status \in {"unavailable", "ambiguous"} :
                 Seen(status) \in Views[op] /\ Settling(op, Seen(status))
            \/ Settling(op, Seen("timed_out"))
            \/ \E run \in Matches[DiscoveryKey[op]] : Moves(op, "claiming", run)
    /\ UNCHANGED <<others, desc, launch, files, starter, child, cancel, faults>>

(* Variant: the run is taken without a look at the other monitors.         *)
ClaimRun_Blind(op) ==
    /\ op \in Actions
    /\ sup[op].at = "claiming"
    /\ Unlocked(op)
    /\ desc' = [desc EXCEPT ![op].run = sup[op].note]
    /\ Moves(op, "viewing", "exited")
    /\ UNCHANGED <<others, launch, files, starter, child, cancel, faults>>

(* claim_discovered_run: a discovered run has one active owner.            *)
ClaimRun(op) ==
    /\ op \in Actions
    /\ sup[op].at = "claiming"
    /\ Unlocked(op)
    /\ IF \E o \in Actions \ {op} : Owns(o, sup[op].note)
       THEN Settling(op, Seen("ambiguous")) /\ UNCHANGED desc
       ELSE /\ desc' = [desc EXCEPT ![op].run = sup[op].note]
            /\ Moves(op, "viewing", "exited") \/ Settling(op, Seen("timed_out"))
    /\ UNCHANGED <<others, launch, files, starter, child, cancel, faults>>

-----------------------------------------------------------------------------
(* observe_run: a view, the watch of a run that is not over, and a view.   *)

(* A view may fail, be of another run, or find the run over.               *)
InitialView(op) ==
    /\ op \in Actions
    /\ sup[op].at = "viewing"
    /\ \/ \E obs \in Views[op] : Concluding(op, obs)
       \/ Moves(op, "watch", sup[op].note)
    /\ UNCHANGED <<others, desc, launch, files, starter, child, cancel, faults>>

SpawnWatch(op) ==
    /\ op \in Actions
    /\ sup[op].at = "watch"
    /\ child' = [child EXCEPT ![op] = TRUE]
    /\ Moves(op, "recording", sup[op].note)
    /\ UNCHANGED <<others, desc, launch, files, starter, cancel, faults>>

RecordWatch(op) ==
    /\ op \in Actions
    /\ sup[op].at = "recording"
    /\ desc' = IF Terminal(op) THEN desc ELSE [desc EXCEPT ![op].child = "active"]
    /\ Moves(op, "watching", sup[op].note)
    /\ UNCHANGED <<others, launch, files, starter, child, cancel, faults>>

(* run_watch ends when the watch exits, is cancelled or is timed out.      *)
WatchExits(op) ==
    /\ op \in Actions
    /\ sup[op].at = "watching"
    /\ child' = [child EXCEPT ![op] = FALSE]
    /\ Moves(op, "reviewing", "exited")
    /\ UNCHANGED <<others, desc, launch, files, starter, cancel, faults>>

(* Variant: only the timeout ends the watch.                               *)
WatchStopped_IgnoresCancel(op) ==
    /\ op \in Actions
    /\ sup[op].at = "watching"
    /\ child' = [child EXCEPT ![op] = FALSE]
    /\ op \in Timed /\ Moves(op, "reviewing", "timed_out")
    /\ UNCHANGED <<others, desc, launch, files, starter, cancel, faults>>

WatchStopped(op) ==
    /\ op \in Actions
    /\ sup[op].at = "watching"
    /\ child' = [child EXCEPT ![op] = FALSE]
    /\ \/ cancel[op] /\ Moves(op, "reviewing", "cancelled")
       \/ ~cancel[op] /\ op \in Timed /\ Moves(op, "reviewing", "timed_out")
    /\ UNCHANGED <<others, desc, launch, files, starter, cancel, faults>>

(* A run that is over by then has that outcome however the watch ended.    *)
(* Of one that is not, a watch that exited by itself leaves the outcome    *)
(* open: there was no view, or one that is not final.                      *)
FinalView(op) ==
    /\ op \in Actions
    /\ sup[op].at = "reviewing"
    /\ \/ \E obs \in Views[op] \ {Seen("unavailable")} : Concluding(op, obs)
       \/ /\ sup[op].note = "exited"
          /\ \E status \in {"unavailable", "ambiguous"} : Concluding(op, Seen(status))
       \/ /\ sup[op].note # "exited"
          /\ Concluding(op, Seen(sup[op].note))
    /\ UNCHANGED <<others, desc, launch, files, starter, child, cancel, faults>>

(* An exception in the supervised part is published as a failure; a watch  *)
(* that is running stays so.                                               *)
SupervisorRaises(op) ==
    /\ op \in Actions
    /\ sup[op].at \in {"discovering", "claiming", "viewing", "watch", "recording", "watching",
                       "reviewing"}
    /\ Fails("files")
    /\ Concluding(op, Lost(op))
    /\ UNCHANGED <<others, desc, launch, files, starter, child, cancel>>

(* What ends in the discovery is published within the try block: an        *)
(* exception there starts a second publication, of the failure.            *)
SettlingRaises(op) ==
    /\ op \in Actions
    /\ sup[op].at = "settling"
    /\ Fails("files")
    /\ Begins(op, "sup", "result", Lost(op))
    /\ sup' = [sup EXCEPT ![op] = [@ EXCEPT !.at = "publishing", !.clean = FALSE]]
    /\ UNCHANGED <<others, desc, launch, files, starter, child, cancel>>

CancelActions(op) ==
    /\ op \in Actions
    /\ Active(op)
    /\ cancel' = [cancel EXCEPT ![op] = TRUE]
    /\ UNCHANGED <<others, desc, launch, files, processes, faults>>

(* reap_monitors, for one monitor.  A recorded watch is stopped unless the *)
(* artifacts are complete.                                                 *)
ReapActions(op) ==
    /\ op \in Actions
    /\ Active(op)
    /\ SupervisorState(op) = "gone"
    /\ Unlocked(op)
    /\ Reached(op)
    /\ Reaps(op)
    /\ child' = IF desc[op].child = "active" /\ ~Recovers(op)
                THEN [child EXCEPT ![op] = FALSE] ELSE child
    /\ UNCHANGED <<others, desc, launch, files, starter, sup, cancel, faults>>

(* Variant: a monitor whose supervisor nobody can judge is still starting. *)
ActionsView_Patient(op, late) ==
    [status |-> IF Active(op) /\ SupervisorState(op) = "gone" THEN "crashed" ELSE desc[op].status,
     phase |-> IF ~Active(op) THEN "terminal"
               ELSE IF desc[op].run = None THEN "discovering" ELSE "watching"]

(* monitor_status: what is reported of a monitor.                          *)
ActionsView(op, late) ==
    [status |-> IF Active(op) /\ SupervisorState(op) = "gone" THEN "crashed"
                ELSE IF Active(op) /\ SupervisorState(op) = "unknown" /\ late THEN "stalled"
                ELSE desc[op].status,
     phase |-> IF ~Active(op) THEN "terminal"
               ELSE IF desc[op].run = None THEN "discovering" ELSE "watching"]
=============================================================================
