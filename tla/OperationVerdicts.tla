--------------------------- MODULE OperationVerdicts ---------------------------
(* How the three kinds of detached operation turn what they observed into  *)
(* a terminal status, into the status of their event and into the decision *)
(* to wake a chat: the pure functions of local_checks.py,                  *)
(* github_actions.py and github_pull_requests.py.                          *)
(*                                                                         *)
(* An observation is a record [status, conclusion]; the conclusion is the  *)
(* one GitHub gives a workflow run and None for everything else.           *)
EXTENDS Naturals

CONSTANT None

Observed(status, conclusion) == [status |-> status, conclusion |-> conclusion]
Seen(status) == Observed(status, None)

-----------------------------------------------------------------------------
(* Local checks.  The outcome of a suite is a fold over its commands: only *)
(* required ones count, and an error outweighs a failure.                  *)

CheckStatus == {"passed", "failed", "errored", "cancelled"}

overall_status(tally, required, verdict) ==
    IF ~required THEN tally
    ELSE IF "errored" \in {tally, verdict} THEN "errored"
    ELSE IF verdict # "passed" THEN "failed" ELSE tally

resolved_wake_policy(requested, execution) ==
    CASE requested # "auto" -> requested
      [] requested = "auto" /\ execution = "detached" -> "always"
      [] OTHER -> "never"

check_event_status(obs) == IF obs.status = "passed" THEN "completed" ELSE "failed"

check_wakes(policy, obs) ==
    \/ policy = "always"
    \/ policy = "on-failure" /\ obs.status # "passed"

(* plan_check: samples are the durations of the successful runs with the   *)
(* fingerprint of the suite, expected the configured duration.             *)
Estimate(median, expected) == IF median # None THEN median ELSE expected

plan_check(median, expected, level, threshold) ==
    LET estimate == Estimate(median, expected)
    IN IF estimate # None
       THEN IF estimate > threshold THEN "detached" ELSE "foreground"
       ELSE IF level = "full" THEN "detached" ELSE "foreground"

-----------------------------------------------------------------------------
(* Workflow runs.                                                          *)

MonitorStatus == {"completed", "failed", "cancelled", "timed_out", "unavailable", "ambiguous"}

run_verification_status(obs) ==
    CASE obs.status = "cancelled" -> "cancelled"
      [] obs.status # "completed" /\ obs.status # "cancelled" -> "unknown"
      [] obs.status = "completed" /\ obs.conclusion = "success" -> "passed"
      [] obs.status = "completed" /\ obs.conclusion = "cancelled" -> "cancelled"
      [] obs.status = "completed"
            /\ obs.conclusion \in {"failure", "startup_failure", "timed_out", "action_required"}
            -> "failed"
      [] OTHER -> "unknown"

run_event_status(obs) ==
    CASE obs.status # "completed" -> obs.status
      [] obs.status = "completed" /\ obs.conclusion = "success" -> "completed"
      [] obs.status = "completed" /\ obs.conclusion \in {"failure", "startup_failure"} -> "failed"
      [] obs.status = "completed"
            /\ obs.conclusion \in {"cancelled", "timed_out", "action_required"} -> obs.conclusion
      [] OTHER -> "ambiguous"

run_should_wake(policy, obs) ==
    CASE policy = "always" -> TRUE
      [] policy = "never" -> FALSE
      [] policy = "on-failure" -> run_verification_status(obs) # "passed"
      [] OTHER -> run_verification_status(obs) \in {"failed", "cancelled", "unknown"}

-----------------------------------------------------------------------------
(* Pull requests.  A snapshot says whether it is of the right pull request *)
(* ("identity"), whether its head is the expected commit ("head"), and its *)
(* state, draft flag, mergeability, review decision and checks.            *)

PullSuccess == {"ready", "merged"}
PullStatus ==
    PullSuccess \cup {"failed_checks", "changes_requested", "conflicting", "head_changed",
                      "closed", "cancelled", "timed_out", "unavailable", "ambiguous", "failed"}
PullAction == PullStatus \ (PullSuccess \cup {"cancelled"})

Snapshots(checkSets) ==
    [identity : BOOLEAN, head : BOOLEAN, state : {"OPEN", "CLOSED", "MERGED"}, draft : BOOLEAN,
     mergeable : {"MERGEABLE", "CONFLICTING", "UNKNOWN"},
     review : {"", "APPROVED", "CHANGES_REQUESTED", "REVIEW_REQUIRED"}, checks : checkSets]

(* normalize_snapshot: the category of one entry of the check rollup; an   *)
(* entry of any other shape makes the whole view unavailable.              *)
CheckItem(type, status, conclusion) == [type |-> type, status |-> status, conclusion |-> conclusion]

CheckCategory(item) ==
    CASE item.type = "CheckRun" /\ (item.status # "COMPLETED" \/ item.conclusion = "") -> "pending"
      [] item.type = "CheckRun" /\ item.status = "COMPLETED"
            /\ item.conclusion \in {"ACTION_REQUIRED", "CANCELLED", "FAILURE", "STALE",
                                    "STARTUP_FAILURE", "TIMED_OUT"} -> "failed"
      [] item.type = "CheckRun" /\ item.status = "COMPLETED"
            /\ item.conclusion \in {"SUCCESS", "NEUTRAL", "SKIPPED"} -> "passed"
      [] item.type = "StatusContext" /\ item.status \in {"ERROR", "FAILURE"} -> "failed"
      [] item.type = "StatusContext" /\ item.status = "SUCCESS" -> "passed"
      [] item.type = "StatusContext" /\ item.status \in {"EXPECTED", "PENDING"} -> "pending"
      [] OTHER -> "unsupported"

HasCheck(s, category) == \E item \in s.checks : CheckCategory(item) = category

(* Variant: a mergeability that is not known yet is taken for a yes.       *)
evaluate_snapshot_Hasty(approval, s) ==
    CASE ~s.identity -> "ambiguous"
      [] s.identity /\ ~s.head -> "head_changed"
      [] OTHER ->
         IF s.state = "MERGED" THEN "merged"
         ELSE IF s.state = "CLOSED" THEN "closed"
         ELSE IF s.mergeable = "CONFLICTING" THEN "conflicting"
         ELSE IF HasCheck(s, "failed") THEN "failed_checks"
         ELSE IF s.draft THEN "waiting"
         ELSE IF approval /\ s.review = "CHANGES_REQUESTED" THEN "changes_requested"
         ELSE IF approval /\ s.review # "APPROVED" THEN "waiting"
         ELSE IF HasCheck(s, "pending") THEN "waiting" ELSE "ready"

evaluate_snapshot(approval, s) ==
    CASE ~s.identity -> "ambiguous"
      [] s.identity /\ ~s.head -> "head_changed"
      [] OTHER ->
         IF s.state = "MERGED" THEN "merged"
         ELSE IF s.state = "CLOSED" THEN "closed"
         ELSE IF s.mergeable = "CONFLICTING" THEN "conflicting"
         ELSE IF HasCheck(s, "failed") THEN "failed_checks"
         ELSE IF s.draft \/ s.mergeable = "UNKNOWN" THEN "waiting"
         ELSE IF approval /\ s.review = "CHANGES_REQUESTED" THEN "changes_requested"
         ELSE IF approval /\ s.review # "APPROVED" THEN "waiting"
         ELSE IF HasCheck(s, "pending") THEN "waiting" ELSE "ready"

pull_event_status(obs) ==
    CASE obs.status \in PullSuccess -> "completed"
      [] obs.status \in {"failed_checks", "failed"} -> "failed"
      [] obs.status \in {"cancelled", "closed"} -> "cancelled"
      [] obs.status \in {"timed_out", "unavailable", "ambiguous"} -> obs.status
      [] OTHER -> "action_required"

(* Whatever policy is neither of the first two decides like                *)
(* "action-required"; that includes "never".                               *)
pull_should_wake(policy, obs) ==
    CASE policy = "always" -> TRUE
      [] policy = "on-failure" -> obs.status \notin PullSuccess
      [] OTHER -> obs.status \in PullAction
=============================================================================
