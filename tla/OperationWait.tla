---------------------------- MODULE OperationWait ----------------------------
(* Waiting for detached operations (operation_wait.py): the status reports *)
(* of checks and monitors as one snapshot per operation, the verdict of a  *)
(* wait over several of them, and what a chat may take from it.  A report  *)
(* reads a descriptor and probes its supervisor; "late" says whether an    *)
(* unclaimed operation is older than the starting grace.                   *)
EXTENDS Operations, WaitVerdicts

Reported(op, late) ==
    CASE op \in Check -> CheckView(op, late)
      [] op \in Actions -> ActionsView(op, late).status
      [] OTHER -> PullView(op, late)

(* Variant: a run that is over is a success.                               *)
Successful_AnyConclusion(op, status) ==
    CASE op \in Check -> status = "passed"
      [] op \in Actions -> status = "completed"
      [] OTHER -> status \in PullSuccess

(* The descriptor of a finished monitor repeats the conclusion of its      *)
(* evidence.                                                               *)
Successful(op, status) ==
    CASE op \in Check -> status = "passed"
      [] op \in Actions -> status = "completed" /\ evidence[op].obs.conclusion = "success"
      [] OTHER -> status \in PullSuccess

RequiresAction(status, terminal) ==
    \/ status \in {"crashed", "stalled", "invalid"}
    \/ ~terminal /\ status \notin {"starting", "running", "cancelling"}

(* operation_snapshot                                                      *)
Snapshot(op, late) ==
    LET status == Reported(op, late)
        terminal == status \in TerminalStatus(op)
    IN [target |-> op, status |-> status, terminal |-> terminal,
        successful |-> terminal /\ Successful(op, status),
        action |-> RequiresAction(status, terminal)]

(* operation_wait_snapshot.  An unknown operation is an error.             *)
Admitted == {op \in Op : desc[op].status # "absent"}
WaitSets == WaitableSets(Admitted)
Verdict(T, mode, late) == Aggregate({Snapshot(op, late) : op \in T}, mode)

(* The wakeups that a wait announces as possible follow-ups.               *)
WakeupEnabled(T) == {op \in T : desc[op].policy # "never"}

-----------------------------------------------------------------------------
(* A wait that tells of success or failure tells what the retained events  *)
(* of the finished operations say, whichever process published them, and   *)
(* the wakeups it does not announce do not come (for pull requests         *)
(* pull_should_wake knows no "never").                                     *)
WaitTruthful ==
    \A T \in WaitSets, mode \in WAIT_MODES, late \in BOOLEAN :
        LET outcome == Ends(Verdict(T, mode, late), FALSE)
            Told == {op \in T : Terminal(op)}
        IN (\A op \in T : Clean(op)) =>
            /\ outcome = "completed" =>
                 /\ Told # {} /\ (mode = "all" => Told = T)
                 /\ \A op \in Told : event[op].status = "completed"
            /\ outcome = "unsuccessful" => \E op \in Told : event[op].status # "completed"
            /\ \A op \in T \ (WakeupEnabled(T) \cup Pull) : ~signal[op]

(* What a chat is told: by a wait, by the task summaries of a status, and  *)
(* by the observations that metrics are made from.                         *)
ReportsTrue == WaitTruthful /\ IndexTruthful

(* A wait for operations that end by themselves, however long, ends or     *)
(* asks for an operator: also where a command was launched unseen, nobody  *)
(* can judge the supervisor, or a contradiction blocks every reaping.      *)
WaitEnds ==
    []<>(LET T == {op \in Admitted : Bounded(op)}
         IN T # {} => Ends(Verdict(T, "all", TRUE), FALSE) # "sleeping")

(* All that goes on by itself in the end: operations are finished, chosen  *)
(* continuations reach the chat, and waits return (reap_monitors,          *)
(* reconcile_workstreams, wait_for_operations).                            *)
Progress == Settles /\ ContinuationsSignalled /\ WaitEnds
=============================================================================
