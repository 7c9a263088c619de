----------------------------- MODULE WaitVerdicts -----------------------------
(* What a blocking wait over several workers, checks or monitors concludes *)
(* from one look at them (operation_wait.py, and the worker groups of      *)
(* workers.py, which conclude the same way).  A snapshot is a record       *)
(* [target, status, terminal, successful, action].                         *)
EXTENDS Naturals, FiniteSets

WAIT_MODES == {"all", "any"}
MAX_WAIT_TARGETS == 64

(* validate_targets: what may be waited for.                               *)
WaitableSets(targets) ==
    {T \in SUBSET targets : T # {} /\ Cardinality(T) <= MAX_WAIT_TARGETS}

(* Variant: the first result counts, whatever the mode.                    *)
Aggregate_Any(snapshots, mode) ==
    LET terminal == {s \in snapshots : s.terminal}
    IN [met |-> terminal # {},
        status |-> IF \E s \in snapshots : s.action THEN "action_required"
                   ELSE IF terminal = {} THEN "waiting"
                   ELSE IF \A s \in terminal : s.successful THEN "completed" ELSE "unsuccessful"]

(* A target that needs an operator outweighs the condition of the wait.    *)
Aggregate(snapshots, mode) ==
    LET terminal == {s \in snapshots : s.terminal}
        met == IF mode = "any" THEN terminal # {} ELSE terminal = snapshots
    IN [met |-> met,
        status |-> IF \E s \in snapshots : s.action THEN "action_required"
                   ELSE IF ~met THEN "waiting"
                   ELSE IF \A s \in terminal : s.successful THEN "completed" ELSE "unsuccessful"]

(* The loop of a wait: it sleeps until the next look, or ends.             *)
Ends(verdict, pastDeadline) ==
    CASE verdict.met \/ verdict.status = "action_required" -> verdict.status
      [] ~verdict.met /\ verdict.status # "action_required" ->
            IF pastDeadline THEN "timed_out" ELSE "sleeping"
=============================================================================
