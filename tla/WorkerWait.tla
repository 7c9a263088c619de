------------------------------ MODULE WorkerWait ------------------------------
(* Waiting for worker tasks (worker_wait_snapshot, worker_wait_health and  *)
(* the group waits of workers.py).  A look at a task reads task.json, then *)
(* result.json, then the lease and the process table, with any steps of    *)
(* the task in between.  The lease and the process are one step: a lease   *)
(* never changes its supervisor, and a dead process stays dead.  "late"    *)
(* says whether the heartbeat, or the finalization, is older than the      *)
(* stale threshold of the wait.                                            *)
EXTENDS WorkerTask, WaitVerdicts

\* load_terminal_result, as the look has read it: atomic_json leaves no torn file.
HasResult(t) == look[t].result # "none"
SaysFinished(t) == look[t].status \in TerminalStatuses

\* Variant: a supervisor that does not renew its lease is taken for dead.
SupervisorGone_Stale(t) ==
  lease[t].state # "none" /\ (lease[t].stale \/ ~SupervisorLives(t))

\* A lease names the supervisor, also after its release.
SupervisorGone(t) == lease[t].state # "none" /\ ~SupervisorLives(t)

\* Variant: the result that was read does not matter.
Health_ResultIgnored(t, late) ==
  IF ~HasResult(t) /\ SaysFinished(t) THEN "terminal_result_unreadable"
  ELSE IF look[t].status \notin Active THEN "none"
  ELSE IF SupervisorGone(t) THEN "supervisor_dead"
  ELSE IF late THEN "heartbeat_stale" ELSE "none"

\* worker_wait_health: a task with a result is being finalized, whatever its process
\* looks like.
Health(t, late) ==
  IF ~HasResult(t) /\ SaysFinished(t) THEN "terminal_result_unreadable"
  ELSE IF look[t].status \notin Active THEN "none"
  ELSE IF ~HasResult(t) /\ SupervisorGone(t) THEN "supervisor_dead"
  ELSE IF late THEN "heartbeat_stale" ELSE "none"

\* Variant: the result alone makes a task terminal.
WaitTerminal_ResultOnly(t) == HasResult(t)

WaitTerminal(t) == HasResult(t) /\ SaysFinished(t)

WaitSnapshot(t, late) ==
  LET terminal == WaitTerminal(t)
      told == IF terminal THEN look[t].result
              ELSE IF HasResult(t) THEN "finalizing" ELSE look[t].status
  IN [target |-> t, status |-> told, terminal |-> terminal,
      successful |-> terminal /\ told = "completed", action |-> Health(t, late) # "none"]

\* The tasks whose two files a look has read.
Looked == {t \in Task : look[t].at = "health"}
GroupVerdict(T, mode, late) == Aggregate({WaitSnapshot(t, late) : t \in T}, mode)

\* wait_for_worker_tasks: one look of its loop.
WaitForTasks(T, mode, late, pastDeadline) == Ends(GroupVerdict(T, mode, late), pastDeadline)

\* wait_for_worker_task: a terminal task is told before anything about its health.
WaitForTask(t, late, pastDeadline) ==
  LET snapshot == WaitSnapshot(t, late)
  IN IF snapshot.terminal THEN snapshot.status
     ELSE IF snapshot.action THEN "action_required"
     ELSE IF pastDeadline THEN "timed_out" ELSE "sleeping"

-----------------------------------------------------------------------------
\* A task that was never dispatched is an error.
LookDescriptor(t) ==
  /\ look[t].at = "idle"
  /\ status[t] \notin {"none", "created"}
  /\ look' = [look EXCEPT ![t] = [at |-> "result", status |-> status[t], result |-> "none"]]
  /\ UNCHANGED <<taskVars, dead>>

LookResult(t) ==
  /\ look[t].at = "result"
  /\ look' = [look EXCEPT ![t].at = "health", ![t].result = result[t]]
  /\ UNCHANGED <<taskVars, dead>>

\* The verdict is told; the next look starts from nothing.
LookHealth(t) ==
  /\ look[t].at = "health"
  /\ dead' = IF Health(t, FALSE) = "supervisor_dead" /\ dead[t] < 2
             THEN [dead EXCEPT ![t] = @ + 1] ELSE dead
  /\ look' = [look EXCEPT ![t] = NoLook]
  /\ UNCHANGED taskVars

Looks(t) == LookDescriptor(t) \/ LookResult(t) \/ LookHealth(t)

WaitNext == Next \/ \E t \in Task : Looks(t)

WaitSpec == Init /\ [][WaitNext]_vars

-----------------------------------------------------------------------------
\* A wait that tells of success or failure does so from results whose event is written
\* and whose signal is, too, if the policy asks for it of that result: the chat that
\* reads on finds what woke it, however long ago the wait read each file
\* (wait_for_worker_task, wait_for_worker_tasks).
WaitTruthful ==
  LET over == {t \in Looked : event[t] # "none" /\ (Wakes(t, result[t]) => t \in signal)}
  IN \A late \in BOOLEAN :
       /\ \A t \in Looked : WaitForTask(t, late, FALSE) \in TerminalStatuses
             => t \in over /\ event[t] = WaitForTask(t, late, FALSE)
       /\ \A T \in WaitableSets(Looked), mode \in WAIT_MODES :
            LET told == WaitForTasks(T, mode, late, FALSE)
            IN /\ told = "completed" =>
                    /\ \E t \in T \cap over : event[t] = "completed"
                    /\ mode = "all" => \A t \in T : t \in over /\ event[t] = "completed"
               /\ told = "unsuccessful" => \E t \in T \cap over : event[t] # "completed"

WaitTypeOK ==
  /\ look \in [Task -> [at : {"idle", "result", "health"},
                        status : {"none", "queued"} \cup Active \cup TerminalStatuses,
                        result : {"none"} \cup TerminalStatuses]]
  /\ dead \in [Task -> 0..2]

\* What the files of a task tell in every state, to whoever reads them.
TaskConsistent == TypeOK /\ WaitTypeOK /\ TerminalAgrees /\ WaitTruthful

\* worker_wait_health guards against the dead supervisor that "is a false alarm": one
\* that published its result and exited after the wait read an older file.  It covers a
\* result the look has seen; a result written between the reading of result.json and the
\* probe still gives a false alarm.  What a verdict of death is worth: nothing but a
\* reaper's failure is published after it, and a later look that says so again is right,
\* such a task has not succeeded and never does.
DeathStands ==
  [][\A t \in Task :
       /\ dead[t] > 0 => result'[t] \in {result[t], "failed"}
       /\ dead[t] = 1 /\ dead'[t] = 2 => result[t] \in {"none", "failed"}]_vars

\* What was published or told stands.
VerdictsStand == RecordsFinal /\ DeathStands
===============================================================================
