------------------------------ MODULE LocalCheck ------------------------------
(* Local checks (local_checks.py): a suite of commands run by a supervisor *)
(* that is either the dispatching process itself (foreground) or a         *)
(* detached one, which records each command's process so that a reaper can *)
(* stop it.                                                                *)
EXTENDS DetachedOperations

CONSTANTS
    Execution,      \* the requested execution of a check: auto, foreground, detached
    Level,          \* the verification level of its suite
    Expected,       \* the configured duration, or None
    Medians,        \* medians the history of successful runs may give, or None
    Threshold,      \* the duration above which auto detaches
    Suite           \* for each command of the suite, whether it is required

Detached(op) == desc[op].execution = "detached"

(* _prepare_check_locked: under the admission lock the check directory is  *)
(* claimed with a descriptor; a repeated identity is answered from it and  *)
(* changes nothing (_replay_check).                                        *)
StartCheck(op) ==
    /\ op \in Check \cap play
    /\ desc[op].status = "absent"
    /\ \E median \in Medians :
         LET execution == IF Execution[op] # "auto" THEN Execution[op]
                          ELSE plan_check(median, Expected[op], Level[op], Threshold)
         IN /\ desc' = [desc EXCEPT ![op] =
                [@ EXCEPT !.status = "starting", !.execution = execution,
                          !.policy = resolved_wake_policy(WakePolicy[op], execution)]]
            /\ IF execution = "foreground"
               THEN sup' = [sup EXCEPT ![op].at = "spawned"] /\ UNCHANGED starter
               ELSE starter' = [starter EXCEPT ![op] = "spawning"] /\ UNCHANGED sup
    /\ UNCHANGED <<others, launch, files, pen, child, cancel, faults>>

LaunchCheckSupervisor(op) == op \in Check /\ Spawns(op)

(* Variant: the descriptor is stamped whatever it says by then.            *)
ReadCheckSupervisor_Untested(op) ==
    /\ op \in Check
    /\ starter[op] = "recording"
    /\ Unlocked(op)
    /\ starter' = [starter EXCEPT ![op] = "stamping"]
    /\ UNCHANGED <<others, desc, launch, files, sup, pen, child, cancel, faults>>

(* _launch_prepared_check, after the spawn: under the descriptor lock the  *)
(* starter reads a descriptor that is still starting and the identity of   *)
(* the process.  An identity that cannot be read is that of a supervisor   *)
(* that has exited: the starter then publishes the failure itself.         *)
ReadCheckSupervisor(op) ==
    /\ op \in Check
    /\ starter[op] = "recording"
    /\ Unlocked(op)
    /\ IF desc[op].status # "starting"
       THEN starter' = [starter EXCEPT ![op] = "idle"] /\ UNCHANGED <<pen, faults>>
       ELSE \/ starter' = [starter EXCEPT ![op] = "stamping"] /\ UNCHANGED <<pen, faults>>
            \/ /\ ~Alive(op)
               /\ Fails("probe")
               /\ starter' = [starter EXCEPT ![op] = "failing"]
               /\ Abandons(op, "starter")
    /\ UNCHANGED <<others, desc, launch, files, sup, child, cancel>>

(* ... and writes the copy it read, with the identity.                     *)
StampCheckSupervisor(op) ==
    /\ op \in Check
    /\ starter[op] = "stamping"
    /\ desc' = [desc EXCEPT ![op] = [@ EXCEPT !.status = "starting", !.identity = TRUE]]
    /\ starter' = [starter EXCEPT ![op] = "idle"]
    /\ UNCHANGED <<others, launch, files, sup, pen, child, cancel, faults>>

-----------------------------------------------------------------------------
(* supervise_check.                                                        *)

(* The outcome is published: its writes, one at a time, are the publication*)
(* steps of DetachedOperations.                                            *)
Publishing(op, obs) ==
    /\ Begins(op, "sup", "result", obs)
    /\ sup' = [sup EXCEPT ![op].at = "publishing"]

(* Under the descriptor lock the supervisor takes a descriptor that is     *)
(* starting.  When the applicability artifact no longer matches it does    *)
(* not take it, and publishes the failure without the lock; when the suite *)
(* changed it has taken it before it publishes the failure.                *)
ClaimCheck(op) ==
    /\ op \in Check
    /\ sup[op].at = "spawned"
    /\ Unlocked(op)
    /\ \/ /\ desc[op].status # "starting"
          /\ sup' = [sup EXCEPT ![op].at = "gone"]
          /\ UNCHANGED <<desc, pen, faults>>
       \/ /\ desc[op].status = "starting"
          /\ desc' = [desc EXCEPT ![op] = [@ EXCEPT !.status = "running", !.identity = TRUE]]
          /\ \/ sup' = [sup EXCEPT ![op].at = "command"] /\ UNCHANGED <<pen, faults>>
             \/ Fails("suite") /\ Publishing(op, Seen("errored"))
       \/ /\ desc[op].status = "starting"
          /\ Fails("binding")
          /\ Abandons(op, "sup")
          /\ sup' = [sup EXCEPT ![op] = [@ EXCEPT !.at = "publishing", !.clean = FALSE]]
          /\ UNCHANGED desc
    /\ UNCHANGED <<others, launch, files, starter, child, cancel>>

(* What one command leaves: the next one, or the publication of the        *)
(* suite's outcome.                                                        *)
CommandDone(op, verdict) ==
    LET tally == overall_status(sup[op].note, Suite[op][sup[op].cmd], verdict)
    IN IF sup[op].cmd < Len(Suite[op])
       THEN /\ sup' = [sup EXCEPT ![op] = [@ EXCEPT !.at = "command", !.cmd = sup[op].cmd + 1,
                                                  !.note = tally]]
            /\ UNCHANGED pen
       ELSE /\ sup' = [sup EXCEPT ![op] = [@ EXCEPT !.at = "publishing", !.note = tally]]
            /\ Begins(op, "sup", "result", Seen(tally))

(* record_command_launch precedes the spawn, so that a reaper never takes  *)
(* a command that may just be starting for one that never did.             *)
RecordCommandLaunch(op) ==
    /\ op \in Check
    /\ sup[op].at = "command"
    /\ Detached(op) => Unlocked(op)
    /\ desc' = IF Detached(op) THEN [desc EXCEPT ![op].child = "launching"] ELSE desc
    /\ sup' = [sup EXCEPT ![op].at = "spawn"]
    /\ UNCHANGED <<others, launch, files, starter, pen, child, cancel, faults>>

SpawnCommand(op) ==
    /\ op \in Check
    /\ sup[op].at = "spawn"
    /\ \/ /\ child' = [child EXCEPT ![op] = TRUE]
          /\ sup' = [sup EXCEPT ![op].at = IF Detached(op) THEN "record" ELSE "wait"]
          /\ UNCHANGED <<desc, pen, faults>>
       \/ /\ Fails("command")
          /\ desc' = [desc EXCEPT ![op].child = "none"]
          /\ CommandDone(op, "errored")
          /\ UNCHANGED child
    /\ UNCHANGED <<others, launch, files, starter, cancel>>

(* record_active_command; when it raises, the command is terminated and    *)
(* counts as an error, and its launch record stays.                        *)
RecordActiveCommand(op) ==
    /\ op \in Check
    /\ sup[op].at = "record"
    /\ Unlocked(op)
    /\ \/ /\ desc' = [desc EXCEPT ![op].child = "active"]
          /\ sup' = [sup EXCEPT ![op].at = "wait"]
          /\ UNCHANGED <<pen, child, faults>>
       \/ /\ Fails("command")
          /\ child' = [child EXCEPT ![op] = FALSE]
          /\ CommandDone(op, "errored")
          /\ UNCHANGED desc
    /\ UNCHANGED <<others, launch, files, starter, cancel>>

(* The command exits or is terminated at its timeout, which counts as a    *)
(* failure.                                                                *)
CommandEnds(op) ==
    /\ op \in Check
    /\ sup[op].at = "wait"
    /\ child' = [child EXCEPT ![op] = FALSE]
    /\ \E verdict \in {"passed", "failed"} :
         IF Detached(op)
         THEN sup' = [sup EXCEPT ![op].at = IF verdict = "passed" THEN "clear" ELSE "clear failed"]
              /\ UNCHANGED pen
         ELSE CommandDone(op, verdict)
    /\ UNCHANGED <<others, desc, launch, files, starter, cancel, faults>>

ClearActiveCommand(op) ==
    /\ op \in Check
    /\ sup[op].at \in {"clear", "clear failed"}
    /\ Unlocked(op)
    /\ desc' = [desc EXCEPT ![op].child = "none"]
    /\ CommandDone(op, IF sup[op].at = "clear" THEN "passed" ELSE "failed")
    /\ UNCHANGED <<others, launch, files, starter, child, cancel, faults>>

-----------------------------------------------------------------------------
(* reap_checks, for one check, under its descriptor lock.                  *)

(* Variant: a command that may just be starting is ignored.                *)
ReapableCheck_IgnoresLaunching(op) ==
    /\ Active(op)
    /\ SupervisorState(op) = "gone"

ReapableCheck(op) ==
    /\ Active(op)
    /\ SupervisorState(op) = "gone"
    /\ desc[op].child # "launching"

(* A recorded command that is alive is stopped first; if that cannot be    *)
(* confirmed, or the state of its group is not known, nothing happens.     *)
ReapCheck(op) ==
    /\ op \in Check
    /\ ReapableCheck(op)
    /\ Unlocked(op)
    /\ Reaps(op)
    /\ desc' = [desc EXCEPT ![op].child = "none"]
    /\ child' = IF desc[op].child = "active" THEN [child EXCEPT ![op] = FALSE] ELSE child
    /\ UNCHANGED <<others, launch, files, starter, sup, cancel, faults>>

(* check_status: a foreground check that runs is judged by its descriptor. *)
CheckView(op, late) ==
    IF Active(op) /\ SupervisorState(op) = "gone" THEN "crashed"
    ELSE IF desc[op].status = "starting" /\ late THEN "stalled"
    ELSE desc[op].status
=============================================================================
