--------------------------- MODULE ResourceAuthority ---------------------------
(***************************************************************************)
(* The resource authority of resource_service.py and its runners           *)
(* (resource_runner.py), composed with the ledger they share.              *)
(*                                                                         *)
(* Actors: the service thread, whose tick reconciles, schedules and        *)
(* launches under one lock; its clients, excluded by that lock; one runner *)
(* process per launched stage, which admits itself with the token it reads *)
(* from its pipe; the contained commands of a runner; and an administrator *)
(* who recovers quarantined stages.  Service, runners and commands crash   *)
(* independently; only the ledger survives.                                *)
(*                                                                         *)
(* Abstracted: a stage has one work command and at most one cleanup        *)
(* command; a probe is the choice of the leaves it clears; annotate writes *)
(* evidence only.  A rolled-back pass is a pass that did not begin, so a   *)
(* crash inside one is a crash before it.                                  *)
(***************************************************************************)
EXTENDS ResourceLedger

CONSTANTS
  NoStage,     \* no stage is being launched or recovered
  HasCleanup,  \* stages with cleanup commands
  ProbeLeaf,   \* leaves whose release is "probe"
  Outages,     \* sets of projects that may be unavailable at a tick
  MaxFaults    \* bound on crashes, failed spawns and unreadable identities

ASSUME NoStageAssumption == NoStage \notin Stage
ASSUME HasCleanupAssumption == HasCleanup \subseteq Stage
ASSUME ProbeLeafAssumption == ProbeLeaf \subseteq Leaf
ASSUME OutagesAssumption == Outages \subseteq SUBSET Project
ASSUME MaxFaultsAssumption == MaxFaults \in Nat
ASSUME OutcomesAssumption == {"passed", "failed", "cancelled"} \subseteq RunnerOutcome

VARIABLES
  service,   \* "up" or "down"
  tick,      \* where the service thread is in its tick
  children,  \* stages whose runner this service instance spawned
  attached,  \* stages with a recorded supervisor_identity
  runner,    \* [Stage -> the runner process of the stage]
  command,   \* stages that have live contained command processes
  admin,     \* the recovery being recorded, or NoRecovery
  faults

serviceVars == <<service, tick, children>>
envVars == <<admin, faults>>
avars == <<vars, serviceVars, attached, runner, command, envVars>>

IdleTick == [at |-> "idle", scan |-> {}, grants |-> {}, current |-> NoStage]
NoRunner == [at |-> "none", verdict |-> "passed", started |-> FALSE, quiet |-> TRUE]
NoRecovery == [stage |-> NoStage, outcome |-> "none"]

Exited(s) == runner[s].at \in {"none", "exited"}
At(s, place) == runner[s].at = place
Goto(s, place) == runner' = [runner EXCEPT ![s].at = place]
Exit(s) == runner' = [runner EXCEPT ![s] = [NoRunner EXCEPT !.at = "exited"]]
Fault == faults < MaxFaults /\ faults' = faults + 1

(***************************************************************************)
(* Clients: submit, cancel and subscribe calls, which take the tick's lock. *)
(***************************************************************************)
Unlocked == service = "up" /\ tick.at = "idle"

ClientCall ==
  /\ Unlocked
  /\ \/ \E r \in Request, U \in SUBSET Subscriber :
          Cardinality(U) <= 1 /\ (U # {} => MaxGeneration[r] > 0) /\ Submit(r, U)
     \/ \E r \in Request : Cancel(r)
     \/ \E r \in Request, u \in Subscriber : Subscribe(r, u) \/ Unsubscribe(r, u)
  /\ UNCHANGED <<serviceVars, attached, runner, command, envVars>>

(***************************************************************************)
(* tick, reconcile: owners whose supervisor is not provably alive become   *)
(* recovery_required.  The scan is a snapshot; the ledger is written later. *)
(***************************************************************************)
TickBegin ==
  /\ Unlocked
  /\ tick' = [tick EXCEPT !.at = "reconcile",
                          !.scan = {s \in Owners : state[s] # "recovery_required"}]
  /\ UNCHANGED <<vars, service, children, attached, runner, command, envVars>>

Scanned(s) == tick' = [tick EXCEPT !.scan = @ \ {s}]

\* Mutant: every spawned child counts as a pending launch.
LaunchPending_AnyChild(s) == s \in children

LaunchPending(s) == s \in children /\ state[s] = "granted"
SupervisorAlive(s) == s \in attached /\ ~Exited(s)

ReconcileAlive(s) ==
  /\ s \in tick.scan
  /\ LaunchPending(s) \/ SupervisorAlive(s)
  /\ Scanned(s)
  /\ UNCHANGED <<vars, service, children, attached, runner, command, envVars>>

\* The except branch: the runner committed its completion after the snapshot.
ReconcileUncertain(s) ==
  /\ s \in tick.scan
  /\ ~LaunchPending(s)
  /\ \/ ~SupervisorAlive(s) /\ UNCHANGED faults
     \/ SupervisorAlive(s) /\ Fault
  /\ \/ Finish(s, epoch[s], "failed", {})
     \/ state[s] \notin Owning /\ UNCHANGED vars
  /\ Scanned(s)
  /\ UNCHANGED <<service, children, attached, runner, command, admin>>

ReconcileDone ==
  /\ tick.at = "reconcile"
  /\ tick.scan = {}
  /\ tick' = [tick EXCEPT !.at = "schedule"]
  /\ UNCHANGED <<vars, service, children, attached, runner, command, envVars>>

TickSchedule ==
  \/ /\ tick.at = "schedule"
     /\ \E unavailable \in Outages : ScheduleBegin(unavailable)
     /\ tick' = [tick EXCEPT !.at = "pass"]
     /\ UNCHANGED <<service, children, attached, runner, command, envVars>>
  \/ /\ tick.at = "pass"
     /\ \/ \E s \in Stage : Grant(s) /\ tick' = [tick EXCEPT !.grants = @ \cup {s}]
        \/ \E s \in Stage : Protect(s) /\ UNCHANGED tick
        \/ ScheduleCommit /\ tick' = [tick EXCEPT !.at = "launch"]
     /\ UNCHANGED <<service, children, attached, runner, command, envVars>>

(***************************************************************************)
(* launch: spawn, attach the identity, write the token, close the pipe.    *)
(***************************************************************************)
Launched(s) == tick' = [tick EXCEPT !.at = "launch", !.grants = @ \ {s},
                                    !.current = NoStage]

SpawnFails(s) ==
  /\ tick.at = "launch"
  /\ s \in tick.grants
  /\ Fault
  /\ Finish(s, epoch[s], "failed", DOMAIN allocation[s])
  /\ Launched(s)
  /\ UNCHANGED <<service, children, attached, runner, command, admin>>

Spawn(s) ==
  /\ tick.at = "launch"
  /\ s \in tick.grants
  /\ Goto(s, "barrier")
  /\ children' = children \cup {s}
  /\ tick' = [tick EXCEPT !.at = "attach", !.current = s]
  /\ UNCHANGED <<vars, service, attached, command, envVars>>

AttachIdentity ==
  LET s == tick.current IN
    /\ tick.at = "attach"
    /\ Attach(s, epoch[s])
    /\ attached' = attached \cup {s}
    /\ tick' = [tick EXCEPT !.at = "send"]
    /\ UNCHANGED <<service, children, runner, command, envVars>>

SendToken ==
  LET s == tick.current IN
    /\ tick.at = "send"
    /\ At(s, "barrier")
    /\ Goto(s, "token")
    /\ Launched(s)
    /\ UNCHANGED <<vars, service, children, attached, command, envVars>>

\* No identity, or a broken pipe: the pipe is closed without a token.
LaunchUncertain ==
  LET s == tick.current IN
    /\ \/ tick.at = "attach" /\ Fault
       \/ tick.at = "send" /\ Exited(s) /\ UNCHANGED faults
    /\ tick' = [tick EXCEPT !.at = "uncertain"]
    /\ runner' = [runner EXCEPT ![s].at = IF @ = "barrier" THEN "eof" ELSE @]
    /\ UNCHANGED <<vars, service, children, attached, command, admin>>

QuarantineLaunch ==
  LET s == tick.current IN
    /\ tick.at = "uncertain"
    /\ Finish(s, epoch[s], "failed", {})
    /\ Launched(s)
    /\ UNCHANGED <<service, children, attached, runner, command, envVars>>

TickEnd ==
  /\ tick.at = "launch"
  /\ tick.grants = {}
  /\ tick' = IdleTick
  /\ UNCHANGED <<vars, service, children, attached, runner, command, envVars>>

\* A crash closes the write end of the pipe of a runner still at the barrier.
ServiceCrash ==
  /\ service = "up"
  /\ Idle
  /\ Fault
  /\ service' = "down"
  /\ tick' = IdleTick
  /\ children' = {}
  /\ runner' = [s \in Stage |-> IF At(s, "barrier")
                                THEN [runner[s] EXCEPT !.at = "eof"] ELSE runner[s]]
  /\ UNCHANGED <<vars, attached, command, admin>>

ServiceStart ==
  /\ service = "down"
  /\ service' = "up"
  /\ UNCHANGED <<vars, tick, children, attached, runner, command, envVars>>

(***************************************************************************)
(* The runner: execute and run_command.                                    *)
(***************************************************************************)
ReadEof(s) ==
  /\ At(s, "eof")
  /\ Idle
  /\ \/ s \in attached /\ AbortUnlaunched(s, epoch[s])
     \/ ~(s \in attached /\ state[s] = "launching") /\ UNCHANGED vars
  /\ Exit(s)
  /\ UNCHANGED <<serviceVars, attached, command, envVars>>

ReadToken(s) ==
  /\ At(s, "token")
  /\ Idle
  /\ \/ Admit(s) /\ Goto(s, "admitted")
     \/ ~Admissible(s) /\ UNCHANGED vars /\ Goto(s, "rejected")
  /\ UNCHANGED <<serviceVars, attached, command, envVars>>

Rejected(s) ==
  /\ At(s, "rejected")
  /\ Idle
  /\ \/ AbortCancelled(s, epoch[s])
     \/ /\ ~(state[s] = "launching" /\ s \in cancelRequested /\ s \in launchToken)
        /\ UNCHANGED vars
  /\ Exit(s)
  /\ UNCHANGED <<serviceVars, attached, command, envVars>>

InputsChanged(s) ==
  /\ At(s, "admitted")
  /\ "invalidated" \in RunnerOutcome
  /\ runner' = [runner EXCEPT ![s].at = "wrapup", ![s].verdict = "invalidated"]
  /\ UNCHANGED <<vars, serviceVars, attached, command, envVars>>

StartWork(s) ==
  /\ At(s, "admitted")
  /\ IF s \in cancelRequested
     THEN /\ runner' = [runner EXCEPT ![s].at = "cleanup", ![s].verdict = "cancelled"]
          /\ UNCHANGED command
     ELSE /\ runner' = [runner EXCEPT ![s].at = "work", ![s].started = TRUE]
          /\ command' = command \cup {s}
  /\ UNCHANGED <<vars, serviceVars, attached, envVars>>

\* terminate_worker sweeps the process group; a sweep that cannot prove the group
\* gone leaves live processes and ends the loop.
Sweep(s, next, verdict) ==
  \/ /\ command' = command \ {s}
     /\ runner' = [runner EXCEPT ![s].at = next, ![s].verdict = verdict]
     /\ UNCHANGED faults
  \/ /\ Fault
     /\ UNCHANGED command
     /\ runner' = [runner EXCEPT ![s].at = "wrapup", ![s].verdict = verdict,
                                 ![s].quiet = FALSE]

WorkEnds(s) ==
  /\ At(s, "work")
  /\ \E verdict \in {"passed", "failed"} : Sweep(s, "cleanup", verdict)
  /\ UNCHANGED <<vars, serviceVars, attached, admin>>

WorkRevoked(s) ==
  /\ At(s, "work")
  /\ Idle
  /\ state[s] # "running" \/ s \in cancelRequested
  /\ Sweep(s, "cleanup", "cancelled")
  /\ UNCHANGED <<vars, serviceVars, attached, admin>>

StartCleanup(s) ==
  /\ At(s, "cleanup")
  /\ IF s \in HasCleanup
     THEN /\ runner' = [runner EXCEPT ![s].at = "cleaning", ![s].started = TRUE]
          /\ command' = command \cup {s}
     ELSE Goto(s, "wrapup") /\ UNCHANGED command
  /\ UNCHANGED <<vars, serviceVars, attached, envVars>>

\* A cleanup command is stopped only when the stage is no longer running.
CleanupEnds(s) ==
  /\ At(s, "cleaning")
  /\ Idle
  /\ \/ \E verdict \in {runner[s].verdict, "failed"} : Sweep(s, "wrapup", verdict)
     \/ state[s] # "running" /\ Sweep(s, "wrapup", "cancelled")
  /\ UNCHANGED <<vars, serviceVars, attached, admin>>

\* Process leaves once quiescent, probe leaves once their probe passed (a probe is
\* stopped when the stage is not running), coupled leaves together or not at all.
\* Mutant: the end of the work clears its leaves, whatever its group still runs.
Cleared_OnExit(s) ==
  {DOMAIN allocation[s] \ P : P \in SUBSET (ProbeLeaf \cap DOMAIN allocation[s])}

Cleared(s) ==
  LET mine == DOMAIN allocation[s]
      sure == IF runner[s].started THEN mine \ ProbeLeaf ELSE mine
      probes == IF state[s] = "running" THEN mine \ sure ELSE {}
      uncoupled(rel) == {l \in rel : Coupled[l] \cap mine \subseteq rel}
  IN  IF runner[s].quiet THEN {uncoupled(sure \cup P) : P \in SUBSET probes}
      ELSE {{}}

WrapUp(s) ==
  /\ At(s, "wrapup")
  /\ Idle
  /\ \/ \E rel \in Cleared(s) : Finish(s, epoch[s], runner[s].verdict, rel)
     \/ state[s] \notin Owning /\ UNCHANGED vars
  /\ Exit(s)
  /\ UNCHANGED <<serviceVars, attached, command, envVars>>

RunnerCrash(s) ==
  /\ ~Exited(s)
  /\ Fault
  /\ Exit(s)
  /\ UNCHANGED <<vars, serviceVars, attached, command, admin>>

OrphansExit(s) ==
  /\ s \in command
  /\ Exited(s)
  /\ command' = command \ {s}
  /\ UNCHANGED <<vars, serviceVars, attached, runner, envVars>>

(***************************************************************************)
(* resource recover: the administrator has assessed quiescence; `recover`  *)
(* reads the stage first and releases in a later transaction.              *)
(***************************************************************************)
ReadRecovery(s) ==
  /\ admin = NoRecovery
  /\ Idle
  /\ state[s] = "recovery_required"
  /\ Exited(s) /\ s \notin command
  /\ admin' = [stage |-> s, outcome |-> RecordedOutcome(s)]
  /\ UNCHANGED <<vars, serviceVars, attached, runner, command, faults>>

CommitRecovery ==
  LET s == admin.stage IN
    /\ admin # NoRecovery
    /\ Idle
    /\ \/ \E rel \in SUBSET DOMAIN allocation[s] \ {{}} :
            Finish(s, epoch[s], admin.outcome, rel)
       \/ state[s] \notin Owning /\ UNCHANGED vars
    /\ admin' = NoRecovery
    /\ UNCHANGED <<serviceVars, attached, runner, command, faults>>

-----------------------------------------------------------------------------
AuthorityInit ==
  /\ Init
  /\ service = "up"
  /\ tick = IdleTick
  /\ children = {}
  /\ attached = {}
  /\ runner = [s \in Stage |-> NoRunner]
  /\ command = {}
  /\ admin = NoRecovery
  /\ faults = 0

ReconcileStep == \E s \in Stage : ReconcileAlive(s) \/ ReconcileUncertain(s)
LaunchStep ==
  \/ \E s \in Stage : Spawn(s)
  \/ AttachIdentity \/ SendToken \/ LaunchUncertain \/ QuarantineLaunch \/ TickEnd
TickStep == ReconcileStep \/ ReconcileDone \/ TickSchedule \/ LaunchStep

RunnerStep(s) ==
  \/ ReadEof(s) \/ ReadToken(s) \/ Rejected(s) \/ InputsChanged(s) \/ StartWork(s)
  \/ WorkEnds(s) \/ WorkRevoked(s) \/ StartCleanup(s) \/ CleanupEnds(s) \/ WrapUp(s)

AuthorityNext ==
  \/ ClientCall
  \/ TickBegin \/ TickStep \/ ServiceCrash \/ ServiceStart
  \/ \E s \in Stage :
       \/ SpawnFails(s)
       \/ RunnerStep(s) \/ RunnerCrash(s) \/ OrphansExit(s)
       \/ ReadRecovery(s)
  \/ CommitRecovery

AuthoritySpec == AuthorityInit /\ [][AuthorityNext]_avars

\* serve ticks for ever and its owner restarts it; a command ends or is stopped at
\* its timeout.  Strong fairness for a runner: it waits up to ten seconds for the
\* write lock, which the tick holds for one pass at a time.  Nothing is assumed of
\* clients, cleanup of orphans or recovery.
Fairness ==
  /\ WF_avars(TickBegin) /\ WF_avars(TickStep) /\ WF_avars(ServiceStart)
  /\ \A s \in Stage : SF_avars(RunnerStep(s))

LiveSpec == AuthoritySpec /\ Fairness

-----------------------------------------------------------------------------
\* Live processes of a stage run only while the stage still owns every leaf it was
\* granted, if it needs any: no crash, reconciliation, partial release or recovery frees
\* a leaf under a process that may still use it (_finish, execute, reconcile, recover).
LiveWorkOwns ==
  \A s \in command :
    /\ allocation[s] \in Options[s]
    /\ allocation[s] # EmptyScope => state[s] \in Owning

\* A stage cancelled before its runner was admitted never executes user code: the
\* token is refused however late the runner reads it (admit, abort_unadmitted).
CancelledBeforeAdmission ==
  \A s \in Stage :
    [](s \in cancelRequested /\ state[s] \in {"granted", "launching"}
         => [](s \notin command))

\* A granted stage does not hold its leaves as granted, launching or running for
\* ever: it ends, or is quarantined for a recovery, whatever crashes.
GrantsResolve ==
  \A s \in Stage :
    state[s] \in {"granted", "launching", "running"}
      ~> state[s] \in Terminal \cup {"recovery_required"}

\* docs/resource-coordination.md: "Successful commands awaiting quiescence keep
\* dependent stages waiting."  Once the only dependency of a stage is quarantined
\* with a passed outcome, the stage is never skipped as the dependant of a failure.
SuccessKeepsDependantsWaiting ==
  \A s, p \in Stage :
    After[s] = {p} =>
      [](state[p] = "recovery_required" /\ outcome[p] = "passed"
           => [](state[s] # "skipped"))
===============================================================================
