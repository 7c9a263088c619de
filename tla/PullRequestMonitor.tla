-------------------------- MODULE PullRequestMonitor --------------------------
(* Monitors of a pull request's readiness (github_pull_requests.py): a     *)
(* supervisor samples the pull request until a sample decides, the monitor *)
(* is cancelled or its timeout passes.                                     *)
EXTENDS DetachedOperations

CONSTANTS
    PullKey,        \* the pull request of a monitor
    PullRetryOf,    \* the monitor that this one retries, or None
    Samples,        \* the snapshots that a monitor may see
    Approval        \* the monitors whose review policy asks for an approval

ASSUME SamplesAssumption ==
    \A op \in Pull :
        None \notin Samples[op] /\ Samples[op] \subseteq Snapshots({s.checks : s \in Samples[op]})

(* run_view and evaluate_snapshot                                          *)
Judged(op, s) ==
    IF HasCheck(s, "unsupported") THEN "unavailable" ELSE evaluate_snapshot(op \in Approval, s)

(* finalize_monitor, called with the deciding status.                      *)
Decides(op, status, snapshot) ==
    /\ Begins(op, "sup", "result", Seen(status))
    /\ sup' = [sup EXCEPT ![op] = [@ EXCEPT !.at = "publishing", !.note = snapshot]]

(* retry_monitor: only what ended without the pull request being ready.    *)
PullRetriable(op) ==
    PullRetryOf[op] # None => desc[PullRetryOf[op]].status \in PullStatus \ PullSuccess

(* start_monitor and retry_monitor: a pull request has one active monitor. *)
StartPull(op) ==
    /\ op \in Pull \cap play
    /\ desc[op].status = "absent"
    /\ Unlocked(op)
    /\ PullRetriable(op)
    /\ \A o \in Pull \ {op} : PullKey[o] = PullKey[op] => ~Active(o)
    /\ desc' = [desc EXCEPT ![op] = [@ EXCEPT !.status = "starting", !.run = PullKey[op],
                                              !.policy = WakePolicy[op]]]
    /\ starter' = [starter EXCEPT ![op] = "spawning"]
    /\ UNCHANGED <<others, launch, files, sup, pen, child, cancel, faults>>

LaunchPullSupervisor(op) == op \in Pull /\ Spawns(op)

ClaimPull(op) ==
    /\ op \in Pull
    /\ sup[op].at = "spawned"
    /\ Unlocked(op)
    /\ IF desc[op].status = "starting"
       THEN /\ desc' = [desc EXCEPT ![op] = [@ EXCEPT !.status = "running", !.identity = TRUE]]
            /\ sup' = [sup EXCEPT ![op].at = "polling"]
       ELSE sup' = [sup EXCEPT ![op].at = "gone"] /\ UNCHANGED desc
    /\ UNCHANGED <<others, launch, files, starter, pen, child, cancel, faults>>

(* poll_until_terminal: the cancel request is looked for before a sample   *)
(* is taken; a sample that decides nothing is followed by another.         *)
SamplePull(op) ==
    /\ op \in Pull
    /\ sup[op].at = "polling"
    /\ IF cancel[op] THEN Decides(op, "cancelled", None)
       ELSE \/ \E status \in {"timed_out", "unavailable"} : Decides(op, status, None)
            \/ \E s \in Samples[op] : Judged(op, s) # "waiting" /\ Decides(op, Judged(op, s), s)
    /\ UNCHANGED <<others, desc, launch, files, starter, child, cancel, faults>>

SampleRaises(op) ==
    /\ op \in Pull
    /\ sup[op].at = "polling"
    /\ Fails("files")
    /\ Decides(op, "failed", None)
    /\ UNCHANGED <<others, desc, launch, files, starter, child, cancel>>

CancelPull(op) ==
    /\ op \in Pull
    /\ Active(op)
    /\ cancel' = [cancel EXCEPT ![op] = TRUE]
    /\ UNCHANGED <<others, desc, launch, files, processes, faults>>

ReapPull(op) ==
    /\ op \in Pull
    /\ Active(op)
    /\ SupervisorState(op) = "gone"
    /\ Unlocked(op)
    /\ Reached(op)
    /\ Reaps(op)
    /\ UNCHANGED <<others, desc, launch, files, starter, sup, child, cancel, faults>>

(* monitor_status: what is reported of a monitor.                          *)
PullView(op, late) ==
    IF Active(op) /\ SupervisorState(op) = "gone" THEN "crashed"
    ELSE IF Active(op) /\ SupervisorState(op) = "unknown" /\ late THEN "stalled"
    ELSE desc[op].status
=============================================================================
