------------------------ MODULE ResourceAuthorityProofs ------------------------
(***************************************************************************)
(* What holds of the authority, its runners and the commands they contain  *)
(* for every registry, plan and number of faults.  Every step of theirs is *)
(* a transaction of the ledger or leaves it alone, so all that is proved   *)
(* of the ledger holds here too; what the processes do outside of it is    *)
(* what is proved here.                                                    *)
(***************************************************************************)
EXTENDS ResourceAuthority, ResourceLedgerProofs

USE DEF States, Owning, Terminal

TickPlaces == {"idle", "reconcile", "schedule", "pass", "launch", "attach", "send", "uncertain"}
RunnerPlaces ==
  {"none", "barrier", "eof", "token", "rejected", "admitted", "work", "cleanup", "cleaning",
   "wrapup", "exited"}
RunnerRecords ==
  [at : RunnerPlaces, verdict : RunnerOutcome, started : BOOLEAN, quiet : BOOLEAN]

AuthorityTyped ==
  /\ tick \in [at : TickPlaces, scan : SUBSET Stage, grants : SUBSET Stage,
               current : Stage \cup {NoStage}]
  /\ runner \in [Stage -> RunnerRecords]
  /\ command \subseteq Stage
  /\ admin \in [stage : Stage \cup {NoStage}, outcome : {"none"} \cup RunnerOutcome]
  /\ \A s \in Stage : outcome[s] \in {"none"} \cup RunnerOutcome

\* A tick launches what it granted itself; until it does, nobody else moves the stage.
Handling == {"attach", "send", "uncertain"}

TickFollows ==
  /\ tick.at \in Handling <=> tick.current # NoStage
  /\ tick.at # "reconcile" => tick.scan = {}
  /\ tick.at \in {"idle", "reconcile", "schedule"} => tick.grants = {}
  /\ \A s \in tick.grants : s # tick.current => state[s] = "granted" /\ runner[s].at = "none"

\* Whoever has been admitted, or has live processes, holds what it was granted.  Only an
\* exited runner, or one that could not stop its group, leaves processes behind.
Executing == {"admitted", "work", "cleanup", "cleaning", "wrapup"}
Working(s) == runner[s].at \in Executing \/ s \in command

RunnerFollows(s) ==
  /\ runner[s].at # "none" => state[s] \notin {"absent", "waiting"}
  /\ s \in command => \/ runner[s].at \in {"work", "cleaning", "exited"}
                      \/ runner[s].at = "wrapup" /\ ~runner[s].quiet
  /\ state[s] \in {"granted", "launching"} => allocation[s] \in Options[s]
  /\ Working(s) => /\ state[s] \notin {"absent", "waiting", "granted", "launching"}
                   /\ allocation[s] \in Options[s]
                   /\ allocation[s] # EmptyScope => state[s] \in Owning

\* A recovery is of a stage whose processes are gone for good.
Gone(s) ==
  Exited(s) /\ s \notin command /\ state[s] \in {"recovery_required"} \cup Terminal

AdminFollows ==
  admin # NoRecovery =>
    admin.stage \in Stage /\ admin.outcome # "none" /\ Gone(admin.stage)

AuthorityInv ==
  /\ LedgerInv
  /\ AuthorityTyped
  /\ TickFollows
  /\ \A s \in Stage : RunnerFollows(s)
  /\ AdminFollows

-----------------------------------------------------------------------------
(***************************************************************************)
(* What the transactions of the ledger do to a stage.                      *)
(***************************************************************************)
\* A stage without leaves may enter the queue or leave it; any other stays as it is.
Drifts(t) ==
  /\ allocation'[t] = allocation[t]
  /\ \/ state'[t] = state[t]
     \/ state[t] = "absent" /\ state'[t] = "waiting"
     \/ state[t] = "waiting" /\ state'[t] \in Terminal

Stays(t) == state'[t] = state[t] /\ allocation'[t] = allocation[t]

\* Calls of clients, and what a pass does beside its grants.
LEMMA ClientDrifts ==
  ASSUME TypeOK, ClientCall
  PROVE  /\ \A t \in Stage : Drifts(t)
         /\ cancelRequested \subseteq cancelRequested' /\ outcome' = outcome
<1> USE DEF TypeOK, owned, Drifts
<1>1. ASSUME NEW r \in Request, NEW U \in SUBSET Subscriber, Submit(r, U)
      PROVE  /\ \A t \in Stage : Drifts(t)
             /\ cancelRequested \subseteq cancelRequested' /\ outcome' = outcome
  BY <1>1 DEF Submit, Submitted
<1>2. ASSUME NEW r \in Request, Cancel(r)
      PROVE  /\ \A t \in Stage : Drifts(t)
             /\ cancelRequested \subseteq cancelRequested' /\ outcome' = outcome
  BY <1>2 DEF Cancel, Waiting
<1>3. ASSUME NEW r \in Request, NEW u \in Subscriber, Subscribe(r, u) \/ Unsubscribe(r, u)
      PROVE  /\ \A t \in Stage : Drifts(t)
             /\ cancelRequested \subseteq cancelRequested' /\ outcome' = outcome
  BY <1>3 DEF Subscribe, Unsubscribe
<1> QED BY <1>1, <1>2, <1>3 DEF ClientCall

LEMMA PassDrifts ==
  ASSUME TypeOK,
         (\E unavailable \in Outages : ScheduleBegin(unavailable))
           \/ (\E s \in Stage : Protect(s)) \/ ScheduleCommit
  PROVE  /\ \A t \in Stage : Drifts(t)
         /\ cancelRequested' = cancelRequested /\ outcome' = outcome
<1> USE DEF TypeOK, owned, Drifts
<1>1. ASSUME NEW unavailable \in Outages, ScheduleBegin(unavailable)
      PROVE  /\ \A t \in Stage : Drifts(t)
             /\ cancelRequested' = cancelRequested /\ outcome' = outcome
  BY <1>1 DEF ScheduleBegin, Waiting
<1>2. ASSUME NEW s \in Stage, Protect(s)
      PROVE  /\ \A t \in Stage : Drifts(t)
             /\ cancelRequested' = cancelRequested /\ outcome' = outcome
  BY <1>2 DEF Protect
<1>3. CASE ScheduleCommit
  BY <1>3 DEF ScheduleCommit
<1> QED BY <1>1, <1>2, <1>3

LEMMA GrantEffect ==
  ASSUME LedgerInv, NEW s \in Stage, Grant(s)
  PROVE  /\ state[s] = "waiting" /\ state'[s] = "granted" /\ allocation'[s] \in Options[s]
         /\ \A t \in Stage \ {s} : Stays(t)
         /\ cancelRequested' = cancelRequested /\ outcome' = outcome
BY DEF LedgerInv, TypeOK, PassReady, Grant, Oldest, Feasible, Stays

LEMMA AttachEffect ==
  ASSUME TypeOK, NEW s \in Stage, Attach(s, epoch[s])
  PROVE  /\ state[s] = "granted" /\ state'[s] = "launching" /\ allocation' = allocation
         /\ \A t \in Stage \ {s} : Stays(t)
         /\ cancelRequested' = cancelRequested /\ outcome' = outcome
BY DEF TypeOK, Attach, Stays, owned

LEMMA AdmitEffect ==
  ASSUME TypeOK, NEW s \in Stage, Admit(s)
  PROVE  /\ state[s] = "launching" /\ s \notin cancelRequested
         /\ state'[s] = "running" /\ allocation' = allocation
         /\ \A t \in Stage \ {s} : Stays(t)
         /\ cancelRequested' = cancelRequested /\ outcome' = outcome
BY DEF TypeOK, Admit, Admissible, Stays, owned

\* _finish: the stage ends when it has nothing left, and is quarantined otherwise.
LEMMA FinishEffects ==
  ASSUME TypeOK, NEW s \in Stage, NEW result \in Terminal, NEW rel,
         Finish(s, epoch[s], result, rel)
  PROVE  /\ state[s] \in Owning
         /\ state'[s] \in {"recovery_required", result}
         /\ outcome'[s] = result
         /\ rel = {} => /\ allocation'[s] = allocation[s]
                        /\ allocation[s] # EmptyScope => state'[s] = "recovery_required"
         /\ \A t \in Stage \ {s} : Stays(t) /\ outcome'[t] = outcome[t]
         /\ cancelRequested' = cancelRequested
<1>1. PICK L \in SUBSET Leaf : allocation[s] \in [L -> Claim]
  BY DEF TypeOK, Scope
<1>2. rel = {} => Restrict(allocation[s], DOMAIN allocation[s] \ rel) = allocation[s]
  BY <1>1 DEF Restrict
<1>3. DOMAIN allocation[s] = {} => allocation[s] = EmptyScope
  BY <1>1 DEF EmptyScope
<1> QED BY <1>2, <1>3 DEF TypeOK, Finish, FinishEnabled, FinishEffect, EndState, Stays

-----------------------------------------------------------------------------
(***************************************************************************)
(* Every step of the composition is a transaction of the ledger or leaves  *)
(* the ledger alone.                                                       *)
(***************************************************************************)
\* Finish, as the processes call it, is a call the ledger knows.
LEMMA FinishIsNext ==
  ASSUME TypeOK, NEW s \in Stage, NEW result \in RunnerOutcome, NEW rel,
         Finish(s, epoch[s], result, rel)
  PROVE  Next
<1>1. rel \in SUBSET Leaf
  BY DEF TypeOK, Scope, Finish, FinishEnabled
<1> QED BY <1>1 DEF Next

LEMMA LedgerCalls ==
  ASSUME AuthorityInv, AuthorityNext
  PROVE  [Next]_vars
<1>t. TypeOK /\ AuthorityTyped
  BY DEF AuthorityInv, LedgerInv
<1>v. /\ {"passed", "failed", "cancelled"} \subseteq RunnerOutcome
      /\ \A s \in Stage : runner[s].verdict \in RunnerOutcome
  BY <1>t, OutcomesAssumption DEF AuthorityTyped, RunnerRecords
<1>c. /\ tick.current \in Stage \cup {NoStage}
      /\ tick.at \in Handling => tick.current \in Stage
  BY <1>t DEF AuthorityInv, AuthorityTyped, TickFollows
<1>1. CASE ClientCall
  BY <1>1 DEF ClientCall, Next
<1>2. CASE TickBegin \/ ReconcileDone \/ SendToken \/ LaunchUncertain \/ TickEnd
             \/ ServiceCrash \/ ServiceStart
  BY <1>2 DEF TickBegin, ReconcileDone, SendToken, LaunchUncertain, TickEnd, ServiceCrash,
              ServiceStart
<1>3. CASE ReconcileStep
  BY <1>3, <1>t, <1>v, FinishIsNext DEF ReconcileStep, ReconcileAlive, ReconcileUncertain
<1>4. CASE TickSchedule
  <2>1. Outages \subseteq SUBSET Project
    BY OutagesAssumption
  <2> QED BY <1>4, <2>1 DEF TickSchedule, Next
<1>5. CASE AttachIdentity
  BY <1>5, <1>c DEF AttachIdentity, Handling, Next
<1>6. CASE QuarantineLaunch
  BY <1>6, <1>c, <1>t, <1>v, FinishIsNext DEF QuarantineLaunch, Handling
<1>7. ASSUME NEW s \in Stage, SpawnFails(s)
      PROVE  [Next]_vars
  BY <1>7, <1>t, <1>v, FinishIsNext DEF SpawnFails
<1>8. ASSUME NEW s \in Stage,
             Spawn(s) \/ InputsChanged(s) \/ StartWork(s) \/ WorkEnds(s) \/ WorkRevoked(s)
               \/ StartCleanup(s) \/ CleanupEnds(s) \/ RunnerCrash(s) \/ OrphansExit(s)
               \/ ReadRecovery(s)
      PROVE  [Next]_vars
  BY <1>8 DEF Spawn, InputsChanged, StartWork, WorkEnds, WorkRevoked, StartCleanup, CleanupEnds,
              RunnerCrash, OrphansExit, ReadRecovery
<1>9. ASSUME NEW s \in Stage, ReadEof(s) \/ ReadToken(s) \/ Rejected(s)
      PROVE  [Next]_vars
  BY <1>9 DEF ReadEof, ReadToken, Rejected, Next
<1>10. ASSUME NEW s \in Stage, WrapUp(s)
       PROVE  [Next]_vars
  BY <1>10, <1>t, <1>v, FinishIsNext DEF WrapUp
<1>11. CASE CommitRecovery
  <2>1. admin.stage \in Stage /\ admin.outcome \in RunnerOutcome
    BY <1>11, <1>t DEF CommitRecovery, AuthorityInv, AdminFollows, AuthorityTyped
  <2> QED BY <1>11, <2>1, <1>t, FinishIsNext DEF CommitRecovery
<1> QED
  BY <1>1, <1>2, <1>3, <1>4, <1>5, <1>6, <1>7, <1>8, <1>9, <1>10, <1>11
  DEF AuthorityNext, TickStep, LaunchStep, RunnerStep

-----------------------------------------------------------------------------
(***************************************************************************)
(* Types: what the processes remember.                                     *)
(***************************************************************************)
\* A runner moves on, alone.
LEMMA RunnerTyped ==
  ASSUME AuthorityTyped, NEW s \in Stage, NEW r \in RunnerRecords,
         runner' = [runner EXCEPT ![s] = r]
  PROVE  /\ runner' \in [Stage -> RunnerRecords]
         /\ runner'[s] = r
         /\ \A t \in Stage \ {s} : runner'[t] = runner[t]
BY DEF AuthorityTyped

LEMMA GotoEffect ==
  ASSUME AuthorityTyped, NEW s \in Stage, NEW place \in RunnerPlaces, Goto(s, place)
  PROVE  /\ runner' \in [Stage -> RunnerRecords]
         /\ runner'[s].at = place /\ runner'[s].quiet = runner[s].quiet
         /\ \A t \in Stage \ {s} : runner'[t] = runner[t]
<1>1. [runner[s] EXCEPT !.at = place] \in RunnerRecords
  BY DEF AuthorityTyped, RunnerRecords
<1>2. runner' = [runner EXCEPT ![s] = [runner[s] EXCEPT !.at = place]]
  BY DEF Goto
<1>3. runner[s] \in RunnerRecords
  BY DEF AuthorityTyped
<1> QED BY <1>1, <1>2, <1>3, RunnerTyped DEF RunnerRecords

LEMMA ExitEffect ==
  ASSUME AuthorityTyped, NEW s \in Stage, Exit(s)
  PROVE  /\ runner' \in [Stage -> RunnerRecords]
         /\ runner'[s].at = "exited"
         /\ \A t \in Stage \ {s} : runner'[t] = runner[t]
<1>1. [NoRunner EXCEPT !.at = "exited"] \in RunnerRecords
  BY OutcomesAssumption DEF NoRunner, RunnerRecords, RunnerPlaces
<1>2. runner' = [runner EXCEPT ![s] = [NoRunner EXCEPT !.at = "exited"]]
  BY DEF Exit
<1>3. [NoRunner EXCEPT !.at = "exited"].at = "exited"
  BY DEF NoRunner
<1> QED BY <1>1, <1>2, <1>3, RunnerTyped

\* A sweep that succeeds leaves no process, one that fails marks the runner.
LEMMA SweepEffect ==
  ASSUME AuthorityTyped, NEW s \in Stage, NEW next \in {"cleanup", "wrapup"},
         NEW verdict \in RunnerOutcome, Sweep(s, next, verdict)
  PROVE  /\ runner' \in [Stage -> RunnerRecords]
         /\ \/ runner'[s].at = next /\ command' = command \ {s}
            \/ runner'[s].at = "wrapup" /\ ~runner'[s].quiet /\ command' = command
         /\ \A t \in Stage \ {s} : runner'[t] = runner[t]
<1> DEFINE swept == [runner[s] EXCEPT !.at = next, !.verdict = verdict]
           loud == [runner[s] EXCEPT !.at = "wrapup", !.verdict = verdict, !.quiet = FALSE]
<1>1. swept \in RunnerRecords /\ loud \in RunnerRecords
  BY DEF AuthorityTyped, RunnerRecords, RunnerPlaces
<1>2. swept.at = next /\ loud.at = "wrapup" /\ ~loud.quiet
  BY DEF AuthorityTyped, RunnerRecords
<1>3. \/ command' = command \ {s} /\ runner' = [runner EXCEPT ![s] = swept]
      \/ command' = command /\ runner' = [runner EXCEPT ![s] = loud]
  BY DEF Sweep
<1> HIDE DEF swept, loud
<1> QED BY <1>1, <1>2, <1>3, RunnerTyped

\* The token never comes: runners at the barrier read the end of the pipe.
LEMMA BarrierEffect ==
  ASSUME AuthorityTyped, LaunchUncertain \/ ServiceCrash, tick.current \in Stage \/ ServiceCrash
  PROVE  /\ runner' \in [Stage -> RunnerRecords]
         /\ \A t \in Stage :
              \/ runner'[t] = runner[t]
              \/ runner[t].at = "barrier" /\ runner'[t].at = "eof"
<1>1. ASSUME NEW r \in RunnerRecords
      PROVE  [r EXCEPT !.at = "eof"] \in RunnerRecords /\ [r EXCEPT !.at = "eof"].at = "eof"
  BY DEF RunnerRecords, RunnerPlaces
<1>2. CASE ServiceCrash
  BY <1>1, <1>2 DEF ServiceCrash, AuthorityTyped, At
<1>3. ASSUME LaunchUncertain, NEW s \in Stage, s = tick.current
      PROVE  /\ runner' \in [Stage -> RunnerRecords]
             /\ \A t \in Stage :
                  \/ runner'[t] = runner[t]
                  \/ runner[t].at = "barrier" /\ runner'[t].at = "eof"
  <2>1. runner' = [runner EXCEPT ![s].at = IF runner[s].at = "barrier" THEN "eof"
                                                                       ELSE runner[s].at]
    BY <1>3 DEF LaunchUncertain
  <2>2. CASE runner[s].at = "barrier"
    <3>1. runner' = [runner EXCEPT ![s] = [runner[s] EXCEPT !.at = "eof"]]
      BY <2>1, <2>2
    <3>2. runner[s] \in RunnerRecords
      BY DEF AuthorityTyped
    <3> QED BY <2>2, <3>1, <3>2, <1>1, RunnerTyped
  <2>3. CASE runner[s].at # "barrier"
    <3>1. runner' = runner
      BY <2>1, <2>3 DEF AuthorityTyped, RunnerRecords
    <3> QED BY <3>1 DEF AuthorityTyped
  <2> QED BY <2>2, <2>3
<1> QED BY <1>2, <1>3

\* Outcomes in the ledger are those the processes report.
LEMMA OutcomesStep ==
  ASSUME AuthorityInv, AuthorityNext, NEW t \in Stage
  PROVE  outcome'[t] \in {"none"} \cup RunnerOutcome
<1>t. TypeOK /\ AuthorityTyped /\ LedgerInv
  BY DEF AuthorityInv, LedgerInv
<1>v. /\ {"passed", "failed", "cancelled"} \subseteq RunnerOutcome
      /\ RunnerOutcome \subseteq Terminal
      /\ \A s \in Stage : runner[s].verdict \in RunnerOutcome
      /\ outcome[t] \in {"none"} \cup RunnerOutcome
  BY <1>t, OutcomesAssumption, RunnerOutcomeAssumption DEF AuthorityTyped, RunnerRecords
<1>c. /\ tick.current \in Stage \cup {NoStage}
      /\ tick.at \in Handling => tick.current \in Stage
  BY <1>t DEF AuthorityInv, AuthorityTyped, TickFollows
<1>u. outcome' = outcome => outcome'[t] \in {"none"} \cup RunnerOutcome
  BY <1>v
<1>f. ASSUME NEW s \in Stage, NEW result \in RunnerOutcome, NEW rel,
             Finish(s, epoch[s], result, rel)
      PROVE  outcome'[t] \in {"none"} \cup RunnerOutcome
  <2>1. TypeOK /\ result \in Terminal
    BY <1>t, <1>v
  <2>2. outcome'[s] = result /\ \A u \in Stage \ {s} : outcome'[u] = outcome[u]
    BY <1>f, <2>1, FinishEffects
  <2>3. outcome[t] \in {"none"} \cup RunnerOutcome
    BY <1>v
  <2> QED BY <2>2, <2>3
<1>1. CASE ClientCall
  BY <1>1, <1>t, <1>u, ClientDrifts
<1>2. CASE TickBegin \/ ReconcileDone \/ SendToken \/ LaunchUncertain \/ TickEnd
             \/ ServiceCrash \/ ServiceStart
  BY <1>2, <1>u DEF TickBegin, ReconcileDone, SendToken, LaunchUncertain, TickEnd, ServiceCrash,
              ServiceStart, vars, owned
<1>3. CASE ReconcileStep
  BY <1>3, <1>u, <1>v, <1>f DEF ReconcileStep, ReconcileAlive, ReconcileUncertain, vars, owned
<1>4. CASE TickSchedule
  BY <1>4, <1>t, <1>u, PassDrifts, GrantEffect DEF TickSchedule
<1>5. CASE AttachIdentity
  BY <1>5, <1>c, <1>t, <1>u, AttachEffect DEF AttachIdentity, Handling
<1>6. CASE QuarantineLaunch
  BY <1>6, <1>c, <1>f, <1>v DEF QuarantineLaunch, Handling
<1>7. ASSUME NEW s \in Stage, SpawnFails(s)
      PROVE  outcome'[t] \in {"none"} \cup RunnerOutcome
  BY <1>7, <1>v, <1>f DEF SpawnFails
<1>8. ASSUME NEW s \in Stage,
             Spawn(s) \/ InputsChanged(s) \/ StartWork(s) \/ WorkEnds(s) \/ WorkRevoked(s)
               \/ StartCleanup(s) \/ CleanupEnds(s) \/ RunnerCrash(s) \/ OrphansExit(s)
               \/ ReadRecovery(s)
      PROVE  outcome'[t] \in {"none"} \cup RunnerOutcome
  BY <1>8, <1>u DEF Spawn, InputsChanged, StartWork, WorkEnds, WorkRevoked, StartCleanup,
              CleanupEnds, RunnerCrash, OrphansExit, ReadRecovery, vars, owned
<1>9. ASSUME NEW s \in Stage, ReadEof(s) \/ ReadToken(s) \/ Rejected(s)
      PROVE  outcome'[t] \in {"none"} \cup RunnerOutcome
  BY <1>9, <1>t, <1>u, <1>v, <1>f, AdmitEffect
  DEF ReadEof, ReadToken, Rejected, AbortUnlaunched, AbortCancelled, vars, owned
<1>10. ASSUME NEW s \in Stage, WrapUp(s)
       PROVE  outcome'[t] \in {"none"} \cup RunnerOutcome
  BY <1>10, <1>u, <1>v, <1>f DEF WrapUp, vars, owned
<1>11. CASE CommitRecovery
  <2>1. admin.stage \in Stage /\ admin.outcome \in RunnerOutcome
    BY <1>11, <1>t DEF CommitRecovery, AuthorityInv, AdminFollows, AuthorityTyped
  <2> QED BY <1>11, <2>1, <1>u, <1>f DEF CommitRecovery, vars, owned
<1> QED
  BY <1>1, <1>2, <1>3, <1>4, <1>5, <1>6, <1>7, <1>8, <1>9, <1>10, <1>11
  DEF AuthorityNext, TickStep, LaunchStep, RunnerStep

Remembered ==
  /\ tick \in [at : TickPlaces, scan : SUBSET Stage, grants : SUBSET Stage,
               current : Stage \cup {NoStage}]
  /\ runner \in [Stage -> RunnerRecords]
  /\ command \subseteq Stage
  /\ admin \in [stage : Stage \cup {NoStage}, outcome : {"none"} \cup RunnerOutcome]

LEMMA RememberedStep ==
  ASSUME AuthorityInv, AuthorityNext
  PROVE  Remembered'
<1>t. AuthorityTyped /\ Remembered
  BY DEF AuthorityInv, AuthorityTyped, Remembered
<1>v. /\ {"passed", "failed", "cancelled"} \subseteq RunnerOutcome
      /\ \A s \in Stage : runner[s].verdict \in RunnerOutcome /\ runner[s] \in RunnerRecords
      /\ \A s \in Stage : outcome[s] \in {"none"} \cup RunnerOutcome
  BY <1>t, OutcomesAssumption DEF AuthorityTyped, RunnerRecords
<1>c. /\ tick.current \in Stage \cup {NoStage}
      /\ tick.at \in Handling => tick.current \in Stage
  BY <1>t DEF AuthorityInv, AuthorityTyped, TickFollows
<1> USE <1>t, <1>v, <1>c DEF Remembered, serviceVars, envVars, TickPlaces
<1>1. CASE ClientCall
  BY <1>1 DEF ClientCall
<1>2. CASE TickBegin
  BY <1>2 DEF TickBegin, Owners
<1>3. CASE ReconcileStep
  BY <1>3 DEF ReconcileStep, ReconcileAlive, ReconcileUncertain, Scanned
<1>4. CASE ReconcileDone
  BY <1>4 DEF ReconcileDone
<1>5. CASE TickSchedule
  BY <1>5 DEF TickSchedule
<1>6. ASSUME NEW s \in Stage, SpawnFails(s)
      PROVE  Remembered'
  BY <1>6 DEF SpawnFails, Launched
<1>7. ASSUME NEW s \in Stage, Spawn(s)
      PROVE  Remembered'
  BY <1>7, GotoEffect DEF Spawn, RunnerPlaces
<1>8. CASE AttachIdentity
  BY <1>8 DEF AttachIdentity
<1>9. CASE SendToken
  BY <1>9, GotoEffect DEF SendToken, RunnerPlaces, Launched, Handling
<1>10. CASE LaunchUncertain
  BY <1>10, BarrierEffect DEF LaunchUncertain, Handling
<1>11. CASE QuarantineLaunch
  BY <1>11 DEF QuarantineLaunch, Launched
<1>12. CASE TickEnd
  BY <1>12 DEF TickEnd, IdleTick
<1>13. CASE ServiceCrash
  BY <1>13, BarrierEffect DEF ServiceCrash, IdleTick
<1>14. CASE ServiceStart
  BY <1>14 DEF ServiceStart
<1>15. ASSUME NEW s \in Stage, ReadEof(s) \/ Rejected(s) \/ WrapUp(s) \/ RunnerCrash(s)
       PROVE  Remembered'
  BY <1>15, ExitEffect DEF ReadEof, Rejected, WrapUp, RunnerCrash
<1>16. ASSUME NEW s \in Stage, ReadToken(s)
       PROVE  Remembered'
  BY <1>16, GotoEffect DEF ReadToken, RunnerPlaces
<1>17. ASSUME NEW s \in Stage, InputsChanged(s)
       PROVE  Remembered'
  <2>1. [runner[s] EXCEPT !.at = "wrapup", !.verdict = "invalidated"] \in RunnerRecords
    <3>1. runner[s] \in RunnerRecords /\ "invalidated" \in RunnerOutcome
      BY <1>17, OutcomesAssumption DEF InputsChanged
    <3> QED BY ONLY <3>1 DEF RunnerRecords, RunnerPlaces
  <2>2. runner' = [runner EXCEPT ![s] = [runner[s] EXCEPT !.at = "wrapup",
                                                        !.verdict = "invalidated"]]
    BY <1>17 DEF InputsChanged
  <2>3. runner' \in [Stage -> RunnerRecords]
    BY <2>1, <2>2, RunnerTyped
  <2>4. UNCHANGED <<tick, command, admin>>
    BY <1>17 DEF InputsChanged
  <2> QED BY <2>3, <2>4
<1>18. ASSUME NEW s \in Stage, StartWork(s)
       PROVE  Remembered'
  <2>1. /\ [runner[s] EXCEPT !.at = "cleanup", !.verdict = "cancelled"] \in RunnerRecords
        /\ [runner[s] EXCEPT !.at = "work", !.started = TRUE] \in RunnerRecords
    <3>1. runner[s] \in RunnerRecords /\ "cancelled" \in RunnerOutcome
      OBVIOUS
    <3> QED BY ONLY <3>1 DEF RunnerRecords, RunnerPlaces
  <2>2. \/ runner' = [runner EXCEPT ![s] = [runner[s] EXCEPT !.at = "cleanup",
                                                           !.verdict = "cancelled"]]
        \/ runner' = [runner EXCEPT ![s] = [runner[s] EXCEPT !.at = "work", !.started = TRUE]]
    BY <1>18 DEF StartWork
  <2>3. runner' \in [Stage -> RunnerRecords]
    BY <2>1, <2>2, RunnerTyped
  <2>4. UNCHANGED <<tick, admin>> /\ command' \subseteq Stage
    BY <1>18 DEF StartWork
  <2> QED BY <2>3, <2>4
<1>19. ASSUME NEW s \in Stage, WorkEnds(s)
       PROVE  Remembered'
  BY <1>19, SweepEffect DEF WorkEnds
<1>20. ASSUME NEW s \in Stage, WorkRevoked(s)
       PROVE  Remembered'
  BY <1>20, SweepEffect DEF WorkRevoked
<1>21. ASSUME NEW s \in Stage, StartCleanup(s)
       PROVE  Remembered'
  BY <1>21, GotoEffect DEF StartCleanup, RunnerRecords, RunnerPlaces
<1>22. ASSUME NEW s \in Stage, CleanupEnds(s)
       PROVE  Remembered'
  BY <1>22, SweepEffect DEF CleanupEnds
<1>23. ASSUME NEW s \in Stage, OrphansExit(s)
       PROVE  Remembered'
  BY <1>23 DEF OrphansExit
<1>24. ASSUME NEW s \in Stage, ReadRecovery(s)
       PROVE  Remembered'
  BY <1>24 DEF ReadRecovery, RecordedOutcome
<1>25. CASE CommitRecovery
  BY <1>25 DEF CommitRecovery, NoRecovery
<1> QED
  BY <1>1, <1>2, <1>3, <1>4, <1>5, <1>6, <1>7, <1>8, <1>9, <1>10, <1>11, <1>12, <1>13, <1>14,
     <1>15, <1>16, <1>17, <1>18, <1>19, <1>20, <1>21, <1>22, <1>23, <1>24, <1>25
  DEF AuthorityNext, TickStep, LaunchStep, RunnerStep

-----------------------------------------------------------------------------
(***************************************************************************)
(* Runners and their commands.                                             *)
(***************************************************************************)
\* Nothing happens to the processes of a stage, and its leaves stay.
LEMMA DriftKeeps ==
  ASSUME NEW t \in Stage, RunnerFollows(t), Drifts(t) \/ Stays(t), runner'[t] = runner[t],
         t \in command' <=> t \in command
  PROVE  RunnerFollows(t)'
BY DEF RunnerFollows, Working, Executing, Drifts, Stays

\* A completion that releases nothing leaves live processes what they hold.
LEMMA QuarantineKeeps ==
  ASSUME TypeOK, NEW t \in Stage, RunnerFollows(t), NEW s \in Stage, NEW result \in Terminal,
         Finish(s, epoch[s], result, {}), runner'[t] = runner[t],
         t \in command' <=> t \in command
  PROVE  RunnerFollows(t)'
<1>1. CASE s # t
  BY <1>1, FinishEffects, DriftKeeps
<1>2. CASE s = t
  <2>1. /\ state[t] \in Owning /\ state'[t] \in {"recovery_required", result}
        /\ allocation'[t] = allocation[t]
        /\ allocation[t] # EmptyScope => state'[t] = "recovery_required"
    BY <1>2, FinishEffects
  <2> QED BY <2>1 DEF RunnerFollows, Working, Executing
<1> QED BY <1>1, <1>2

\* A completion may release everything once the processes are gone.
LEMMA FinishKeeps ==
  ASSUME TypeOK, NEW t \in Stage, RunnerFollows(t), NEW s \in Stage, NEW result \in Terminal,
         NEW rel, Finish(s, epoch[s], result, rel),
         s # t => runner'[t] = runner[t],
         s = t => runner'[t].at \notin Executing /\ t \notin command,
         t \in command' <=> t \in command
  PROVE  RunnerFollows(t)'
<1>1. CASE s # t
  BY <1>1, FinishEffects, DriftKeeps
<1>2. CASE s = t
  <2>1. state[t] \in Owning /\ state'[t] \in {"recovery_required", result}
    BY <1>2, FinishEffects
  <2> QED BY <1>2, <2>1 DEF RunnerFollows, Working
<1> QED BY <1>1, <1>2

\* Nothing but the processes of s changes.
LEMMA ProcessKeeps ==
  ASSUME NEW t \in Stage, RunnerFollows(t), NEW s \in Stage, UNCHANGED vars,
         \A u \in Stage \ {s} : runner'[u] = runner[u] /\ (u \in command' <=> u \in command),
         s = t => /\ runner'[t].at # "none" => runner[t].at # "none"
                  /\ Working(t)' => Working(t)
                  /\ t \in command' => \/ runner'[t].at \in {"work", "cleaning", "exited"}
                                       \/ runner'[t].at = "wrapup" /\ ~runner'[t].quiet
  PROVE  RunnerFollows(t)'
<1>1. state' = state /\ allocation' = allocation
  BY DEF vars, owned
<1>2. CASE s # t
  BY <1>1, <1>2, DriftKeeps DEF Stays
<1>3. CASE s = t
  BY <1>1, <1>3 DEF RunnerFollows
<1> QED BY <1>2, <1>3

LEMMA RunnerFollowsStep ==
  ASSUME AuthorityInv, AuthorityNext, NEW t \in Stage
  PROVE  RunnerFollows(t)'
<1>t. TypeOK /\ AuthorityTyped /\ LedgerInv /\ RunnerFollows(t) /\ TickFollows /\ AdminFollows
  BY DEF AuthorityInv, LedgerInv
<1>v. /\ {"passed", "failed", "cancelled"} \subseteq RunnerOutcome
      /\ RunnerOutcome \subseteq Terminal
      /\ \A s \in Stage : runner[s].verdict \in RunnerOutcome /\ runner[s] \in RunnerRecords
  BY <1>t, OutcomesAssumption, RunnerOutcomeAssumption DEF AuthorityTyped, RunnerRecords
<1>c. /\ tick.current \in Stage \cup {NoStage}
      /\ tick.at \in Handling => tick.current \in Stage
      /\ tick.at = "launch" => \A s \in tick.grants : state[s] = "granted" /\ runner[s].at = "none"
  BY <1>t, NoStageAssumption DEF AuthorityTyped, TickFollows, Handling
<1>n. \A s \in Stage : RunnerFollows(s)
  BY DEF AuthorityInv
<1>p. ASSUME UNCHANGED <<state, allocation, runner, command>>
      PROVE  RunnerFollows(t)'
  BY <1>p, <1>t, DriftKeeps DEF Stays
<1>1. CASE ClientCall
  BY <1>1, <1>t, ClientDrifts, DriftKeeps DEF ClientCall
<1>2. CASE TickBegin \/ ReconcileDone \/ TickEnd \/ ServiceStart
  BY <1>2, <1>p DEF TickBegin, ReconcileDone, TickEnd, ServiceStart, vars, owned
<1>3. CASE ReconcileStep
  BY <1>3, <1>t, <1>v, <1>p, QuarantineKeeps
  DEF ReconcileStep, ReconcileAlive, ReconcileUncertain, vars, owned
<1>4. CASE TickSchedule
  <2>1. UNCHANGED <<runner, command>>
    BY <1>4 DEF TickSchedule
  <2>2. ASSUME NEW s \in Stage, Grant(s)
        PROVE  RunnerFollows(t)'
    <3>1. CASE s = t
      BY <1>t, <2>1, <2>2, <3>1, GrantEffect DEF RunnerFollows, Working, Executing
    <3>2. CASE s # t
      BY <1>t, <2>1, <2>2, <3>2, GrantEffect, DriftKeeps
    <3> QED BY <3>1, <3>2
  <2> QED BY <1>4, <1>t, <2>1, <2>2, PassDrifts, DriftKeeps DEF TickSchedule
<1>5. ASSUME NEW s \in Stage, SpawnFails(s)
      PROVE  RunnerFollows(t)'
  <2>1. runner[s].at = "none" /\ s \notin command
    BY <1>5, <1>c, <1>n DEF SpawnFails, RunnerFollows
  <2> QED BY <1>5, <1>t, <1>v, <2>1, FinishKeeps DEF SpawnFails, Executing
<1>6. ASSUME NEW s \in Stage, Spawn(s)
      PROVE  RunnerFollows(t)'
  <2>1. runner[s].at = "none" /\ s \notin command /\ state[s] = "granted"
    BY <1>6, <1>c, <1>n DEF Spawn, RunnerFollows
  <2>2. runner'[s].at = "barrier" /\ \A u \in Stage \ {s} : runner'[u] = runner[u]
    BY <1>6, <1>t, GotoEffect DEF Spawn, RunnerPlaces
  <2>3. state' = state /\ allocation' = allocation /\ command' = command
    BY <1>6 DEF Spawn, vars, owned
  <2> QED BY <1>t, <2>1, <2>2, <2>3 DEF RunnerFollows, Working, Executing
<1>7. CASE AttachIdentity
  <2>1. PICK s \in Stage : Attach(s, epoch[s])
    BY <1>7, <1>c DEF AttachIdentity, Handling
  <2>2. UNCHANGED <<runner, command>>
    BY <1>7 DEF AttachIdentity
  <2> QED BY <1>t, <2>1, <2>2, AttachEffect DEF RunnerFollows, Working, Stays
<1>8. CASE SendToken
  <2> DEFINE s == tick.current
  <2>1. /\ s \in Stage /\ At(s, "barrier") /\ Goto(s, "token")
        /\ UNCHANGED <<vars, command>>
    BY <1>8, <1>c DEF SendToken, Handling
  <2> HIDE DEF s
  <2>2. runner[s].at = "barrier"
    BY <2>1 DEF At
  <2>3. runner'[s].at = "token" /\ \A u \in Stage \ {s} : runner'[u] = runner[u]
    BY <1>t, <2>1, GotoEffect DEF RunnerPlaces
  <2>4. s \notin command
    BY <1>n, <2>1, <2>2 DEF RunnerFollows
  <2> QED BY <1>t, <2>1, <2>2, <2>3, <2>4, ProcessKeeps DEF Working, Executing
<1>9. CASE LaunchUncertain \/ ServiceCrash
  <2>1. \/ runner'[t] = runner[t]
        \/ runner[t].at = "barrier" /\ runner'[t].at = "eof"
    BY <1>9, <1>t, <1>c, BarrierEffect, NoStageAssumption DEF LaunchUncertain, Handling
  <2>2. UNCHANGED <<state, allocation, command>>
    BY <1>9 DEF LaunchUncertain, ServiceCrash, vars, owned
  <2> QED BY <1>t, <2>1, <2>2 DEF RunnerFollows, Working, Executing
<1>10. CASE QuarantineLaunch
  BY <1>10, <1>c, <1>t, <1>v, QuarantineKeeps DEF QuarantineLaunch, Handling
<1>11. ASSUME NEW s \in Stage, ReadEof(s) \/ Rejected(s)
       PROVE  RunnerFollows(t)'
  <2>1. runner[s].at \in {"eof", "rejected"} /\ Exit(s) /\ command' = command
    BY <1>11 DEF ReadEof, Rejected, At
  <2>2. s \notin command
    BY <1>n, <2>1 DEF RunnerFollows
  <2>3. runner'[s].at = "exited" /\ \A u \in Stage \ {s} : runner'[u] = runner[u]
    BY <1>t, <2>1, ExitEffect
  <2>4. CASE UNCHANGED vars
    BY <1>t, <2>1, <2>2, <2>3, <2>4, ProcessKeeps DEF Working, Executing
  <2>5. CASE AbortUnlaunched(s, epoch[s]) \/ AbortCancelled(s, epoch[s])
    BY <1>t, <1>v, <2>1, <2>2, <2>3, <2>5, FinishKeeps
    DEF AbortUnlaunched, AbortCancelled, Executing
  <2> QED BY <1>11, <2>4, <2>5 DEF ReadEof, Rejected
<1>12. ASSUME NEW s \in Stage, ReadToken(s)
       PROVE  RunnerFollows(t)'
  <2>1. runner[s].at = "token" /\ s \notin command /\ command' = command
    BY <1>12, <1>n DEF ReadToken, At, RunnerFollows
  <2>2. CASE Admit(s) /\ Goto(s, "admitted")
    <3>1. runner'[s].at = "admitted" /\ \A u \in Stage \ {s} : runner'[u] = runner[u]
      BY <1>t, <2>2, GotoEffect DEF RunnerPlaces
    <3>2. CASE s = t
      BY <1>t, <2>1, <2>2, <3>1, <3>2, AdmitEffect DEF RunnerFollows, Working, Executing
    <3>3. CASE s # t
      BY <1>t, <2>1, <2>2, <3>1, <3>3, AdmitEffect, DriftKeeps
    <3> QED BY <3>2, <3>3
  <2>3. CASE UNCHANGED vars /\ Goto(s, "rejected")
    <3>1. runner'[s].at = "rejected" /\ \A u \in Stage \ {s} : runner'[u] = runner[u]
      BY <1>t, <2>3, GotoEffect DEF RunnerPlaces
    <3> QED BY <1>t, <2>1, <2>3, <3>1, ProcessKeeps DEF Working, Executing
  <2> QED BY <1>12, <2>2, <2>3 DEF ReadToken
<1>13. ASSUME NEW s \in Stage, InputsChanged(s)
       PROVE  RunnerFollows(t)'
  <2>1. runner[s].at = "admitted" /\ s \notin command /\ UNCHANGED <<vars, command>>
    BY <1>13, <1>n DEF InputsChanged, At, RunnerFollows
  <2>2. runner'[s].at = "wrapup" /\ \A u \in Stage \ {s} : runner'[u] = runner[u]
    BY <1>13, <1>v, <1>t DEF InputsChanged, AuthorityTyped, RunnerRecords
  <2> QED BY <1>t, <2>1, <2>2, ProcessKeeps DEF Working, Executing
<1>14. ASSUME NEW s \in Stage, StartWork(s)
       PROVE  RunnerFollows(t)'
  <2>1. runner[s].at = "admitted" /\ s \notin command /\ UNCHANGED vars
    BY <1>14, <1>n DEF StartWork, At, RunnerFollows
  <2>2. /\ \/ runner'[s].at = "cleanup" /\ command' = command
           \/ runner'[s].at = "work" /\ command' = command \cup {s}
        /\ \A u \in Stage \ {s} : runner'[u] = runner[u]
    BY <1>14, <1>v, <1>t DEF StartWork, AuthorityTyped, RunnerRecords
  <2> QED BY <1>t, <2>1, <2>2, ProcessKeeps DEF Working, Executing
<1>15. ASSUME NEW s \in Stage, WorkEnds(s) \/ WorkRevoked(s) \/ CleanupEnds(s)
       PROVE  RunnerFollows(t)'
  <2>1. runner[s].at \in {"work", "cleaning"} /\ UNCHANGED vars
    BY <1>15 DEF WorkEnds, WorkRevoked, CleanupEnds, At
  <2>2. /\ \/ runner'[s].at \in {"cleanup", "wrapup"} /\ command' = command \ {s}
           \/ runner'[s].at = "wrapup" /\ ~runner'[s].quiet /\ command' = command
        /\ \A u \in Stage \ {s} : runner'[u] = runner[u]
    BY <1>15, <1>v, <1>t, SweepEffect DEF WorkEnds, WorkRevoked, CleanupEnds
  <2> QED BY <1>t, <2>1, <2>2, ProcessKeeps DEF Working, Executing
<1>16. ASSUME NEW s \in Stage, StartCleanup(s)
       PROVE  RunnerFollows(t)'
  <2>1. runner[s].at = "cleanup" /\ s \notin command /\ UNCHANGED vars
    BY <1>16, <1>n DEF StartCleanup, At, RunnerFollows
  <2>2. /\ \/ runner'[s].at = "cleaning" /\ command' = command \cup {s}
           \/ runner'[s].at = "wrapup" /\ command' = command
        /\ \A u \in Stage \ {s} : runner'[u] = runner[u]
    BY <1>16, <1>v, <1>t DEF StartCleanup, Goto, AuthorityTyped, RunnerRecords
  <2> QED BY <1>t, <2>1, <2>2, ProcessKeeps DEF Working, Executing
<1>17. ASSUME NEW s \in Stage, WrapUp(s)
       PROVE  RunnerFollows(t)'
  <2>1. runner[s].at = "wrapup" /\ Exit(s) /\ command' = command
    BY <1>17 DEF WrapUp, At
  <2>2. runner'[s].at = "exited" /\ \A u \in Stage \ {s} : runner'[u] = runner[u]
    BY <1>t, <2>1, ExitEffect
  <2>3. CASE UNCHANGED vars
    BY <1>t, <2>1, <2>2, <2>3, ProcessKeeps DEF Working, Executing
  <2>4. ASSUME NEW rel \in Cleared(s), Finish(s, epoch[s], runner[s].verdict, rel)
        PROVE  RunnerFollows(t)'
    <3>1. CASE runner[s].quiet
      <4>1. runner[s].verdict \in Terminal /\ s \notin command
        BY <1>v, <1>n, <2>1, <3>1 DEF RunnerFollows
      <4>2. s = t => runner'[t].at \notin Executing /\ t \notin command
        BY <2>2, <4>1 DEF Executing
      <4>3. TypeOK /\ RunnerFollows(t)
        BY <1>t
      <4> QED BY <2>1, <2>2, <2>4, <4>1, <4>2, <4>3, FinishKeeps
    <3>2. CASE ~runner[s].quiet
      <4>1. rel = {}
        BY <2>4, <3>2 DEF Cleared
      <4>2. CASE s # t
        BY <1>t, <1>v, <2>1, <2>2, <2>4, <4>1, <4>2, QuarantineKeeps
      <4>3. CASE s = t
        <5>1. /\ state'[t] \in {"recovery_required"} \cup Terminal
              /\ allocation'[t] = allocation[t]
              /\ allocation[t] # EmptyScope => state'[t] = "recovery_required"
          BY <1>t, <1>v, <2>4, <4>1, <4>3, FinishEffects
        <5> QED BY <1>t, <2>1, <2>2, <4>3, <5>1 DEF RunnerFollows, Working, Executing
      <4> QED BY <4>2, <4>3
    <3> QED BY <3>1, <3>2
  <2> QED BY <1>17, <2>3, <2>4 DEF WrapUp
<1>18. ASSUME NEW s \in Stage, RunnerCrash(s)
       PROVE  RunnerFollows(t)'
  <2>1. runner[s].at # "none" /\ Exit(s) /\ UNCHANGED <<vars, command>>
    BY <1>18 DEF RunnerCrash, Exited
  <2>2. runner'[s].at = "exited" /\ \A u \in Stage \ {s} : runner'[u] = runner[u]
    BY <1>t, <2>1, ExitEffect
  <2> QED BY <1>t, <2>1, <2>2, ProcessKeeps DEF Working, Executing
<1>19. ASSUME NEW s \in Stage, OrphansExit(s)
       PROVE  RunnerFollows(t)'
  BY <1>19, <1>t, ProcessKeeps DEF OrphansExit, Working, RunnerFollows
<1>20. ASSUME NEW s \in Stage, ReadRecovery(s)
       PROVE  RunnerFollows(t)'
  BY <1>20, <1>p DEF ReadRecovery, vars, owned
<1>21. CASE CommitRecovery
  <2>1. /\ admin.stage \in Stage /\ admin.outcome \in RunnerOutcome
        /\ runner[admin.stage].at \notin Executing /\ admin.stage \notin command
        /\ UNCHANGED <<runner, command>>
    BY <1>21, <1>t DEF CommitRecovery, AdminFollows, Gone, AuthorityTyped, Exited, Executing
  <2> QED BY <1>21, <1>t, <1>v, <1>p, <2>1, FinishKeeps DEF CommitRecovery, vars, owned
<1> QED
  BY <1>1, <1>2, <1>3, <1>4, <1>5, <1>6, <1>7, <1>8, <1>9, <1>10, <1>11, <1>12, <1>13, <1>14,
     <1>15, <1>16, <1>17, <1>18, <1>19, <1>20, <1>21
  DEF AuthorityNext, TickStep, LaunchStep, RunnerStep

-----------------------------------------------------------------------------
(***************************************************************************)
(* The tick and the administrator.                                         *)
(***************************************************************************)
TickShape ==
  /\ tick.at \in Handling <=> tick.current # NoStage
  /\ tick.at # "reconcile" => tick.scan = {}
  /\ tick.at \in {"idle", "reconcile", "schedule"} => tick.grants = {}

LEMMA TickShapeStep ==
  ASSUME AuthorityInv, AuthorityNext
  PROVE  TickShape'
<1>t. /\ tick \in [at : TickPlaces, scan : SUBSET Stage, grants : SUBSET Stage,
                   current : Stage \cup {NoStage}]
      /\ NoStage \notin Stage /\ TickShape
  BY NoStageAssumption DEF AuthorityInv, AuthorityTyped, TickFollows, TickShape
<1> USE <1>t DEF TickShape, Handling, Launched, Scanned
<1>1. CASE ClientCall \/ ServiceStart \/ CommitRecovery
  BY <1>1 DEF ClientCall, ServiceStart, CommitRecovery, serviceVars
<1>2. CASE TickBegin
  BY <1>2 DEF TickBegin, Unlocked
<1>3. CASE ReconcileStep \/ ReconcileDone
  BY <1>3 DEF ReconcileStep, ReconcileAlive, ReconcileUncertain, ReconcileDone
<1>4. CASE TickSchedule
  BY <1>4 DEF TickSchedule
<1>5. ASSUME NEW s \in Stage, SpawnFails(s) \/ Spawn(s)
      PROVE  TickShape'
  BY <1>5 DEF SpawnFails, Spawn
<1>6. CASE AttachIdentity \/ SendToken \/ LaunchUncertain \/ QuarantineLaunch
  BY <1>6 DEF AttachIdentity, SendToken, LaunchUncertain, QuarantineLaunch
<1>7. CASE TickEnd \/ ServiceCrash
  BY <1>7 DEF TickEnd, ServiceCrash, IdleTick
<1>8. ASSUME NEW s \in Stage,
             RunnerStep(s) \/ RunnerCrash(s) \/ OrphansExit(s) \/ ReadRecovery(s)
      PROVE  TickShape'
  BY <1>8 DEF RunnerStep, ReadEof, ReadToken, Rejected, InputsChanged, StartWork, WorkEnds,
              WorkRevoked, StartCleanup, CleanupEnds, WrapUp, RunnerCrash, OrphansExit,
              ReadRecovery, serviceVars
<1> QED BY <1>1, <1>2, <1>3, <1>4, <1>5, <1>6, <1>7, <1>8 DEF AuthorityNext, TickStep, LaunchStep

Granted(s) == state[s] = "granted" /\ runner[s].at = "none"

\* The stages that a tick has still to launch are touched by nobody.
LEMMA GrantsStay ==
  ASSUME AuthorityInv, AuthorityNext, NEW t \in Stage,
         t \in tick.grants, t # tick.current, t \in tick'.grants, t # tick'.current
  PROVE  Granted(t)'
<1>t. /\ TypeOK /\ AuthorityTyped /\ LedgerInv /\ AdminFollows /\ Granted(t)
      /\ \A s \in Stage : RunnerFollows(s)
  BY DEF AuthorityInv, LedgerInv, TickFollows, Granted
<1>v. /\ {"passed", "failed", "cancelled"} \subseteq RunnerOutcome
      /\ RunnerOutcome \subseteq Terminal
      /\ \A s \in Stage : runner[s].verdict \in RunnerOutcome
  BY <1>t, OutcomesAssumption, RunnerOutcomeAssumption DEF AuthorityTyped, RunnerRecords
<1>c. /\ tick \in [at : TickPlaces, scan : SUBSET Stage, grants : SUBSET Stage,
                   current : Stage \cup {NoStage}]
      /\ tick.scan = {} /\ tick.at \notin {"idle", "reconcile", "schedule"}
      /\ tick.at \in Handling => tick.current \in Stage
  BY <1>t DEF AuthorityInv, AuthorityTyped, TickFollows, Handling
<1>g. runner[t].at = "none" /\ state[t] = "granted"
  BY <1>t DEF Granted
<1>p. ASSUME UNCHANGED <<state, runner>>
      PROVE  Granted(t)'
  BY <1>p, <1>g DEF Granted
<1>s. ASSUME Drifts(t) \/ Stays(t), runner'[t] = runner[t]
      PROVE  Granted(t)'
  BY <1>s, <1>g DEF Drifts, Stays, Granted
<1>f. ASSUME NEW s \in Stage, NEW result \in Terminal, NEW rel, Finish(s, epoch[s], result, rel),
             t # s, runner'[t] = runner[t]
      PROVE  Granted(t)'
  BY <1>f, <1>t, <1>s, FinishEffects
<1>r. ASSUME NEW s \in Stage, runner[s].at # "none"
      PROVE  s # t
  BY <1>r, <1>g
<1>1. CASE ClientCall \/ TickBegin \/ ReconcileStep \/ ReconcileDone
  BY <1>1, <1>c DEF ClientCall, TickBegin, Unlocked, ReconcileStep, ReconcileAlive,
                    ReconcileUncertain, ReconcileDone
<1>2. CASE TickEnd \/ ServiceStart
  BY <1>2, <1>p DEF TickEnd, ServiceStart, vars
<1>3. CASE TickSchedule
  BY <1>3, <1>c, <1>g, <1>t, <1>s, PassDrifts, GrantEffect DEF TickSchedule
<1>4. ASSUME NEW s \in Stage, SpawnFails(s)
      PROVE  Granted(t)'
  <2>1. s # t
    BY <1>4, <1>c DEF SpawnFails, Launched
  <2> QED BY <1>4, <1>f, <1>v, <2>1 DEF SpawnFails
<1>5. ASSUME NEW s \in Stage, Spawn(s)
      PROVE  Granted(t)'
  <2>1. s # t
    BY <1>5, <1>c DEF Spawn
  <2>2. runner'[t] = runner[t] /\ state' = state
    BY <1>5, <1>t, <2>1, GotoEffect DEF Spawn, RunnerPlaces, vars
  <2> QED BY <1>g, <2>2 DEF Granted
<1>6. CASE AttachIdentity
  BY <1>6, <1>c, <1>s, <1>t, AttachEffect DEF AttachIdentity, Handling
<1>7. CASE SendToken
  <2>1. tick.current \in Stage /\ Goto(tick.current, "token") /\ state' = state
    BY <1>7, <1>c DEF SendToken, Handling, vars
  <2>2. runner'[t] = runner[t]
    BY <1>t, <2>1, GotoEffect DEF RunnerPlaces
  <2> QED BY <1>g, <2>1, <2>2 DEF Granted
<1>8. CASE LaunchUncertain \/ ServiceCrash
  <2>1. runner'[t] = runner[t]
    BY <1>8, <1>c, <1>g, <1>t, BarrierEffect DEF LaunchUncertain, Handling
  <2> QED BY <1>8, <1>g, <2>1 DEF LaunchUncertain, ServiceCrash, vars, Granted
<1>9. CASE QuarantineLaunch
  BY <1>9, <1>c, <1>f, <1>v DEF QuarantineLaunch, Handling
<1>10. ASSUME NEW s \in Stage, ReadEof(s) \/ Rejected(s) \/ WrapUp(s) \/ RunnerCrash(s)
       PROVE  Granted(t)'
  <2>1. runner[s].at # "none" /\ Exit(s)
    BY <1>10 DEF ReadEof, Rejected, WrapUp, RunnerCrash, At, Exited
  <2>2. s # t /\ runner'[t] = runner[t]
    BY <1>r, <1>t, <2>1, ExitEffect
  <2> QED BY <1>10, <1>f, <1>p, <1>g, <1>v, <2>2
      DEF ReadEof, Rejected, WrapUp, RunnerCrash, AbortUnlaunched, AbortCancelled, vars, Granted
<1>11. ASSUME NEW s \in Stage, ReadToken(s)
       PROVE  Granted(t)'
  <2>1. s # t
    BY <1>11, <1>r DEF ReadToken, At
  <2>2. runner'[t] = runner[t]
    BY <1>11, <1>t, <2>1, GotoEffect DEF ReadToken, RunnerPlaces
  <2> QED BY <1>11, <1>g, <1>s, <1>t, <2>1, <2>2, AdmitEffect DEF ReadToken, vars, Granted
<1>12. ASSUME NEW s \in Stage, InputsChanged(s) \/ StartWork(s) \/ StartCleanup(s)
       PROVE  Granted(t)'
  <2>1. s # t
    BY <1>12, <1>r DEF InputsChanged, StartWork, StartCleanup, At
  <2> QED BY <1>12, <1>g, <1>t, <2>1
      DEF InputsChanged, StartWork, StartCleanup, Goto, vars, AuthorityTyped, Granted
<1>13. ASSUME NEW s \in Stage, WorkEnds(s) \/ WorkRevoked(s) \/ CleanupEnds(s)
       PROVE  Granted(t)'
  <2>1. s # t
    BY <1>13, <1>r DEF WorkEnds, WorkRevoked, CleanupEnds, At
  <2>2. runner'[t] = runner[t]
    BY <1>13, <1>t, <1>v, <2>1, SweepEffect DEF WorkEnds, WorkRevoked, CleanupEnds
  <2> QED BY <1>13, <1>g, <2>2 DEF WorkEnds, WorkRevoked, CleanupEnds, vars, Granted
<1>14. ASSUME NEW s \in Stage, OrphansExit(s) \/ ReadRecovery(s)
       PROVE  Granted(t)'
  BY <1>14, <1>p DEF OrphansExit, ReadRecovery, vars
<1>15. CASE CommitRecovery
  <2>1. admin.stage \in Stage /\ admin.outcome \in RunnerOutcome /\ admin.stage # t
    BY <1>15, <1>g, <1>t DEF CommitRecovery, AdminFollows, Gone, AuthorityTyped
  <2> QED BY <1>15, <1>f, <1>p, <1>v, <2>1 DEF CommitRecovery, vars
<1> QED
  BY <1>1, <1>2, <1>3, <1>4, <1>5, <1>6, <1>7, <1>8, <1>9, <1>10, <1>11, <1>12, <1>13, <1>14,
     <1>15
  DEF AuthorityNext, TickStep, LaunchStep, RunnerStep

\* A pass adds to the grants a stage that waited until then, so without a runner.
LEMMA GrantsGrow ==
  ASSUME AuthorityInv, AuthorityNext, NEW t \in tick'.grants, t # tick'.current,
         t \notin tick.grants \/ t = tick.current
  PROVE  Granted(t)'
<1>t. /\ TypeOK /\ LedgerInv /\ \A s \in Stage : RunnerFollows(s)
      /\ tick \in [at : TickPlaces, scan : SUBSET Stage, grants : SUBSET Stage,
                   current : Stage \cup {NoStage}]
      /\ NoStage \notin Stage
      /\ tick.at \in Handling <=> tick.current # NoStage
  BY NoStageAssumption DEF AuthorityInv, AuthorityTyped, LedgerInv, TickFollows
<1>u. tick' # tick
  OBVIOUS
<1> USE <1>t, <1>u DEF Handling, Launched, Scanned
<1>1. CASE ClientCall \/ ServiceStart \/ CommitRecovery
  BY <1>1 DEF ClientCall, ServiceStart, CommitRecovery, serviceVars
<1>2. CASE TickBegin \/ ReconcileStep \/ ReconcileDone
  BY <1>2 DEF TickBegin, ReconcileStep, ReconcileAlive, ReconcileUncertain, ReconcileDone
<1>3. CASE TickSchedule
  <2>1. PICK s \in Stage : Grant(s) /\ tick' = [tick EXCEPT !.grants = @ \cup {s}]
                           /\ UNCHANGED runner /\ tick.at = "pass"
    BY <1>3 DEF TickSchedule
  <2>2. s = t
    BY <2>1
  <2>3. state[t] = "waiting" /\ state'[t] = "granted"
    BY <2>1, <2>2, GrantEffect
  <2>4. runner[t].at = "none"
    BY <2>2, <2>3 DEF RunnerFollows
  <2> QED BY <2>1, <2>3, <2>4 DEF Granted
<1>4. ASSUME NEW s \in Stage, SpawnFails(s) \/ Spawn(s)
      PROVE  Granted(t)'
  BY <1>4 DEF SpawnFails, Spawn
<1>5. CASE AttachIdentity \/ LaunchUncertain
  BY <1>5 DEF AttachIdentity, LaunchUncertain
<1>8. CASE SendToken \/ QuarantineLaunch
  <2>1. tick'.grants = tick.grants \ {tick.current}
    BY <1>8 DEF SendToken, QuarantineLaunch
  <2> QED BY <2>1
<1>6. CASE TickEnd \/ ServiceCrash
  BY <1>6 DEF TickEnd, ServiceCrash, IdleTick
<1>7. ASSUME NEW s \in Stage,
             RunnerStep(s) \/ RunnerCrash(s) \/ OrphansExit(s) \/ ReadRecovery(s)
      PROVE  Granted(t)'
  BY <1>7 DEF RunnerStep, ReadEof, ReadToken, Rejected, InputsChanged, StartWork, WorkEnds,
              WorkRevoked, StartCleanup, CleanupEnds, WrapUp, RunnerCrash, OrphansExit,
              ReadRecovery, serviceVars
<1> QED
  BY <1>1, <1>2, <1>3, <1>4, <1>5, <1>6, <1>7, <1>8 DEF AuthorityNext, TickStep, LaunchStep

LEMMA TickFollowsStep ==
  ASSUME AuthorityInv, AuthorityNext
  PROVE  TickFollows'
<1>1. tick'.grants \subseteq Stage
  BY RememberedStep DEF Remembered
<1>2. ASSUME NEW s \in tick'.grants, s # tick'.current
      PROVE  Granted(s)'
  <2>1. CASE s \in tick.grants /\ s # tick.current
    BY <1>1, <1>2, <2>1, GrantsStay
  <2>2. CASE s \notin tick.grants \/ s = tick.current
    BY <1>2, <2>2, GrantsGrow
  <2> QED BY <2>1, <2>2
<1> QED BY <1>2, TickShapeStep DEF TickFollows, TickShape, Granted

\* Once a stage is quarantined or ended it stays so, and its processes stay gone.
LEMMA GoneStays ==
  ASSUME AuthorityInv, AuthorityNext, NEW k \in Stage, Gone(k)
  PROVE  Gone(k)'
<1>t. /\ TypeOK /\ AuthorityTyped /\ LedgerInv /\ TickFollows
      /\ \A s \in Stage : RunnerFollows(s)
  BY DEF AuthorityInv, LedgerInv
<1>v. /\ {"passed", "failed", "cancelled"} \subseteq RunnerOutcome
      /\ RunnerOutcome \subseteq Terminal
      /\ \A s \in Stage : runner[s].verdict \in RunnerOutcome
  BY <1>t, OutcomesAssumption, RunnerOutcomeAssumption DEF AuthorityTyped, RunnerRecords
<1>0. /\ Exited(k) /\ k \notin command
      /\ state[k] \in {"recovery_required"} \cup Terminal
  BY DEF Gone
<1>k. runner[k].at \in {"none", "exited"}
  BY <1>0 DEF Exited
<1>g. tick.at = "launch" => k \notin tick.grants
  BY <1>t, <1>0, NoStageAssumption DEF TickFollows, Handling, AuthorityTyped
<1>s. ASSUME Drifts(k) \/ Stays(k), runner'[k] = runner[k], k \in command' => k \in command
      PROVE  Gone(k)'
  BY <1>s, <1>0 DEF Drifts, Stays, Gone, Exited
<1>p. ASSUME UNCHANGED <<state, runner, command>>
      PROVE  Gone(k)'
  BY <1>p, <1>0 DEF Gone, Exited
<1>f. ASSUME NEW s \in Stage, NEW result \in Terminal, NEW rel,
             Finish(s, epoch[s], result, rel),
             s # k => runner'[k] = runner[k],
             runner'[k].at \in {"none", "exited"}, command' = command
      PROVE  Gone(k)'
  <2>1. CASE s = k
    BY <1>t, <1>f, <1>0, <2>1, FinishEffects DEF Gone, Exited
  <2>2. CASE s # k
    BY <1>t, <1>f, <1>s, <2>2, FinishEffects
  <2> QED BY <2>1, <2>2
<1>2. CASE ClientCall
  BY <1>2, <1>t, <1>s, ClientDrifts DEF ClientCall
<1>3. CASE TickBegin \/ ReconcileDone \/ TickEnd \/ ServiceStart
  BY <1>3, <1>p DEF TickBegin, ReconcileDone, TickEnd, ServiceStart, vars
<1>4. CASE ReconcileStep
  BY <1>4, <1>v, <1>p, <1>f, <1>k DEF ReconcileStep, ReconcileAlive, ReconcileUncertain, vars
<1>5. CASE TickSchedule
  <2>1. UNCHANGED <<runner, command>>
    BY <1>5 DEF TickSchedule
  <2>2. ASSUME NEW s \in Stage, Grant(s)
        PROVE  Stays(k)
    BY <1>t, <1>0, <2>2, GrantEffect
  <2> QED BY <1>5, <1>t, <1>s, <2>1, <2>2, PassDrifts DEF TickSchedule
<1>6. ASSUME NEW s \in Stage, SpawnFails(s)
      PROVE  Gone(k)'
  BY <1>6, <1>v, <1>f, <1>k DEF SpawnFails
<1>7. ASSUME NEW s \in Stage, Spawn(s)
      PROVE  Gone(k)'
  <2>1. s # k
    BY <1>7, <1>g DEF Spawn
  <2>2. runner'[k] = runner[k] /\ UNCHANGED <<state, command>>
    BY <1>7, <1>t, <2>1, GotoEffect DEF Spawn, RunnerPlaces, vars
  <2> QED BY <1>0, <2>2, <1>s DEF Stays, Drifts, Gone, Exited
<1>8. CASE AttachIdentity
  <2>1. PICK s \in Stage : Attach(s, epoch[s])
    BY <1>8, <1>t DEF AttachIdentity, TickFollows, Handling, AuthorityTyped
  <2>2. Stays(k) /\ UNCHANGED <<runner, command>>
    BY <1>8, <1>t, <1>0, <2>1, AttachEffect DEF AttachIdentity
  <2> QED BY <1>s, <2>2
<1>9. CASE SendToken \/ LaunchUncertain \/ ServiceCrash
  <2>1. runner'[k] = runner[k]
    <3>1. CASE SendToken
      <4>1. /\ tick.current \in Stage /\ At(tick.current, "barrier")
            /\ Goto(tick.current, "token")
        BY <3>1, <1>t DEF SendToken, TickFollows, Handling, AuthorityTyped
      <4>2. tick.current # k
        BY <4>1, <1>k DEF At
      <4> QED BY <1>t, <4>1, <4>2, GotoEffect DEF RunnerPlaces
    <3>2. CASE LaunchUncertain \/ ServiceCrash
      BY <3>2, <1>t, <1>k, BarrierEffect
      DEF LaunchUncertain, TickFollows, Handling, AuthorityTyped
    <3> QED BY <1>9, <3>1, <3>2
  <2>2. UNCHANGED <<vars, command>>
    BY <1>9 DEF SendToken, LaunchUncertain, ServiceCrash
  <2> QED BY <1>0, <2>1, <2>2 DEF vars, Gone, Exited
<1>10. CASE QuarantineLaunch
  <2>1. PICK s \in Stage : Finish(s, epoch[s], "failed", {})
    BY <1>10, <1>t DEF QuarantineLaunch, TickFollows, Handling, AuthorityTyped
  <2>2. UNCHANGED <<runner, command>>
    BY <1>10 DEF QuarantineLaunch
  <2> QED BY <1>v, <1>f, <1>k, <2>1, <2>2
<1>11. ASSUME NEW s \in Stage, ReadEof(s) \/ Rejected(s) \/ WrapUp(s) \/ RunnerCrash(s)
       PROVE  Gone(k)'
  <2>1. runner[s].at \notin {"none", "exited"} /\ Exit(s) /\ command' = command
    BY <1>11 DEF ReadEof, Rejected, WrapUp, RunnerCrash, At, Exited
  <2>2. s # k /\ runner'[k] = runner[k]
    BY <1>t, <1>k, <2>1, ExitEffect
  <2> QED BY <1>11, <1>v, <1>f, <1>p, <1>0, <1>k, <2>1, <2>2
      DEF ReadEof, Rejected, WrapUp, RunnerCrash, AbortUnlaunched, AbortCancelled, vars,
          Gone, Exited
<1>12. ASSUME NEW s \in Stage, ReadToken(s)
       PROVE  Gone(k)'
  <2>1. s # k /\ command' = command
    BY <1>12, <1>k DEF ReadToken, At
  <2>2. runner'[k] = runner[k]
    BY <1>12, <1>t, <2>1, GotoEffect DEF ReadToken, RunnerPlaces
  <2> QED BY <1>12, <1>t, <1>0, <1>s, <2>1, <2>2, AdmitEffect
      DEF ReadToken, vars, Gone, Exited
<1>13. ASSUME NEW s \in Stage, InputsChanged(s) \/ StartWork(s) \/ StartCleanup(s)
       PROVE  Gone(k)'
  <2>1. s # k /\ state' = state /\ runner[s].at \notin {"none", "exited"}
    BY <1>13, <1>k DEF InputsChanged, StartWork, StartCleanup, At, vars
  <2>2. runner'[k] = runner[k] /\ (k \in command' => k \in command)
    BY <1>13, <1>t, <2>1 DEF InputsChanged, StartWork, StartCleanup, Goto, AuthorityTyped
  <2> QED BY <1>0, <2>1, <2>2 DEF Gone, Exited
<1>14. ASSUME NEW s \in Stage, WorkEnds(s) \/ WorkRevoked(s) \/ CleanupEnds(s)
       PROVE  Gone(k)'
  <2>1. s # k /\ state' = state
    BY <1>14, <1>k DEF WorkEnds, WorkRevoked, CleanupEnds, At, vars
  <2>2. runner'[k] = runner[k] /\ (k \in command' => k \in command)
    BY <1>14, <1>t, <1>v, <2>1, SweepEffect DEF WorkEnds, WorkRevoked, CleanupEnds
  <2> QED BY <1>0, <2>1, <2>2 DEF Gone, Exited
<1>15. ASSUME NEW s \in Stage, OrphansExit(s)
       PROVE  Gone(k)'
  BY <1>15, <1>0 DEF OrphansExit, vars, Gone, Exited
<1>16. ASSUME NEW s \in Stage, ReadRecovery(s)
       PROVE  Gone(k)'
  BY <1>16, <1>p DEF ReadRecovery, vars
<1>17. CASE CommitRecovery
  <2>1. admin.stage \in Stage /\ admin.outcome \in RunnerOutcome /\ UNCHANGED <<runner, command>>
    BY <1>17, <1>t DEF CommitRecovery, AuthorityInv, AdminFollows, AuthorityTyped
  <2> QED BY <1>17, <1>v, <1>p, <1>f, <1>k, <2>1 DEF CommitRecovery, vars
<1> QED
  BY <1>2, <1>3, <1>4, <1>5, <1>6, <1>7, <1>8, <1>9, <1>10, <1>11, <1>12, <1>13, <1>14,
     <1>15, <1>16, <1>17
  DEF AuthorityNext, TickStep, LaunchStep, RunnerStep

LEMMA AdminFollowsStep ==
  ASSUME AuthorityInv, AuthorityNext
  PROVE  AdminFollows'
<1>1. ASSUME NEW s \in Stage, ReadRecovery(s)
      PROVE  AdminFollows'
  <2>1. /\ admin' = [stage |-> s, outcome |-> RecordedOutcome(s)]
        /\ state[s] = "recovery_required" /\ Exited(s) /\ s \notin command
        /\ UNCHANGED <<state, runner, command>>
    BY <1>1 DEF ReadRecovery, vars
  <2>2. RecordedOutcome(s) # "none"
    BY DEF RecordedOutcome
  <2>3. admin'.stage = s /\ admin'.outcome # "none"
    BY <2>1, <2>2
  <2> QED BY <2>1, <2>3 DEF AdminFollows, Gone, Exited
<1>2. CASE CommitRecovery
  BY <1>2 DEF CommitRecovery, AdminFollows, NoRecovery
<1>3. CASE admin' = admin
  <2>1. ASSUME NEW k \in Stage, k = admin.stage, Gone(k)
        PROVE  Gone(k)'
    BY <2>1, GoneStays
  <2> QED BY <1>3, <2>1 DEF AuthorityInv, AdminFollows, Gone, Exited
<1>4. ASSUME ~CommitRecovery, \A s \in Stage : ~ReadRecovery(s)
      PROVE  admin' = admin
  BY <1>4 DEF AuthorityNext, ClientCall, TickBegin, TickStep, ReconcileStep, ReconcileAlive,
              ReconcileUncertain, ReconcileDone, TickSchedule, LaunchStep, Spawn, AttachIdentity,
              SendToken, LaunchUncertain, QuarantineLaunch, TickEnd, ServiceCrash, ServiceStart,
              SpawnFails, RunnerStep, ReadEof, ReadToken, Rejected, InputsChanged, StartWork,
              WorkEnds, WorkRevoked, StartCleanup, CleanupEnds, WrapUp, RunnerCrash, OrphansExit,
              envVars
<1> QED BY <1>1, <1>2, <1>3, <1>4

-----------------------------------------------------------------------------
(***************************************************************************)
(* The theorems.                                                           *)
(***************************************************************************)
LEMMA AuthorityInvInit == AuthorityInit => AuthorityInv
<1> SUFFICES ASSUME AuthorityInit PROVE AuthorityInv
  OBVIOUS
<1>1. LedgerInv /\ \A s \in Stage : state[s] = "absent" /\ outcome[s] = "none"
  BY InitInv DEF AuthorityInit, Init
<1>2. NoRunner \in RunnerRecords /\ NoRunner.at = "none"
  BY OutcomesAssumption DEF NoRunner, RunnerRecords, RunnerPlaces
<1>3. AuthorityTyped
  BY <1>1, <1>2 DEF AuthorityInit, AuthorityTyped, IdleTick, TickPlaces, NoRecovery
<1>4. TickFollows
  BY DEF AuthorityInit, TickFollows, IdleTick, Handling
<1>5. ASSUME NEW s \in Stage
      PROVE  RunnerFollows(s)
  BY <1>1, <1>2 DEF AuthorityInit, RunnerFollows, Working, Executing
<1>6. AdminFollows
  BY DEF AuthorityInit, AdminFollows
<1> QED BY <1>1, <1>3, <1>4, <1>5, <1>6 DEF AuthorityInv

LEMMA AuthorityInvStep == AuthorityInv /\ [AuthorityNext]_avars => AuthorityInv'
<1>1. ASSUME AuthorityInv, AuthorityNext
      PROVE  AuthorityInv'
  <2>1. LedgerInv'
    BY <1>1, LedgerCalls, TypeStep, SafetyStep DEF AuthorityInv, LedgerInv
  <2>2. AuthorityTyped'
    BY <1>1, OutcomesStep, RememberedStep DEF AuthorityTyped, Remembered
  <2>3. \A s \in Stage : RunnerFollows(s)'
    BY <1>1, RunnerFollowsStep
  <2> QED BY <1>1, <2>1, <2>2, <2>3, TickFollowsStep, AdminFollowsStep DEF AuthorityInv
<1>2. ASSUME AuthorityInv, UNCHANGED avars
      PROVE  AuthorityInv'
  <2>1. UNCHANGED <<vars, tick, runner, command, admin>>
    BY <1>2 DEF avars, serviceVars, envVars
  <2>2. LedgerInv'
    BY <1>2, <2>1, TypeStep, SafetyStep DEF AuthorityInv, LedgerInv
  <2>3. UNCHANGED <<state, allocation, outcome>>
    BY <2>1 DEF vars, owned
  <2> QED
    BY <1>2, <2>1, <2>2, <2>3
    DEF AuthorityInv, AuthorityTyped, TickFollows, RunnerFollows, Working, AdminFollows, Gone,
        Exited
<1> QED BY <1>1, <1>2

\* The service, its runners and their commands stay in step with the ledger.
THEOREM AuthorityInvariant == AuthoritySpec => []AuthorityInv
<1> QED BY AuthorityInvInit, AuthorityInvStep, PTL DEF AuthoritySpec

\* Whatever the service, the runners, their commands and the administrator do, crash or
\* repeat, what reaches the database is a transaction of the ledger: the processes of
\* resource_service.py and resource_runner.py implement the ledger of resource_queue.py.
THEOREM AuthorityImplementsLedger == AuthoritySpec => Spec
<1>1. AuthorityInit => Init
  BY DEF AuthorityInit
<1>2. AuthorityInv /\ [AuthorityNext]_avars => [Next]_vars
  <2>1. UNCHANGED avars => UNCHANGED vars
    BY DEF avars
  <2> QED BY <2>1, LedgerCalls
<1> QED BY <1>1, <1>2, AuthorityInvariant, PTL DEF AuthoritySpec, Spec

\* What is proved of the ledger holds while processes crash around it: owners are
\* compatible and within capacity, protection is honoured, ended stages stay ended and
\* subscribers are told.
COROLLARY LedgerPromisesHold ==
  AuthoritySpec => []HoldingsSound /\ ProtectionHonoured /\ EndedForGood /\ []OutboxSound
<1> QED
  BY AuthorityImplementsLedger, HoldingsSafe, ProtectionKept, EndedIsFinal, OutboxIsSound, PTL

\* Live processes of a stage run only while the stage owns every leaf it was granted,
\* if it needs any (_finish, execute, reconcile, recover).
THEOREM LiveWorkIsOwned == AuthoritySpec => []LiveWorkOwns
<1>1. AuthorityInv => LiveWorkOwns
  BY DEF AuthorityInv, AuthorityTyped, RunnerFollows, Working, LiveWorkOwns
<1> QED BY <1>1, AuthorityInvariant, PTL

\* A cancelled stage that has not been admitted, nor left anything behind.
Blocked(s) == s \in cancelRequested /\ runner[s].at \notin Executing /\ s \notin command

LEMMA BlockedStays ==
  ASSUME AuthorityInv, AuthorityNext, NEW k \in Stage, Blocked(k)
  PROVE  Blocked(k)'
<1>t. /\ TypeOK /\ AuthorityTyped /\ LedgerInv /\ TickFollows
      /\ tick.at \in Handling => tick.current \in Stage
  BY DEF AuthorityInv, LedgerInv, AuthorityTyped, TickFollows
<1>v. /\ {"passed", "failed", "cancelled"} \subseteq RunnerOutcome
      /\ RunnerOutcome \subseteq Terminal
      /\ \A s \in Stage : runner[s].verdict \in RunnerOutcome
  BY <1>t, OutcomesAssumption, RunnerOutcomeAssumption DEF AuthorityTyped, RunnerRecords
<1>0. k \in cancelRequested /\ runner[k].at \notin Executing /\ k \notin command
  BY DEF Blocked
<1>p. ASSUME k \in cancelRequested', runner'[k].at \notin Executing, k \in command' => k \in command
      PROVE  Blocked(k)'
  BY <1>p, <1>0 DEF Blocked
<1>f. ASSUME NEW s \in Stage, NEW result \in Terminal, NEW rel, Finish(s, epoch[s], result, rel)
      PROVE  cancelRequested' = cancelRequested
  BY <1>f, <1>t, FinishEffects
<1>1. CASE ClientCall
  BY <1>1, <1>t, <1>0, <1>p, ClientDrifts DEF ClientCall
<1>2. CASE TickBegin \/ ReconcileDone \/ TickEnd \/ ServiceStart
  BY <1>2, <1>0, <1>p DEF TickBegin, ReconcileDone, TickEnd, ServiceStart, vars, owned
<1>3. CASE ReconcileStep
  BY <1>3, <1>v, <1>0, <1>p, <1>f
  DEF ReconcileStep, ReconcileAlive, ReconcileUncertain, vars, owned
<1>4. CASE TickSchedule
  BY <1>4, <1>t, <1>0, <1>p, PassDrifts, GrantEffect DEF TickSchedule
<1>5. ASSUME NEW s \in Stage, SpawnFails(s)
      PROVE  Blocked(k)'
  BY <1>5, <1>v, <1>0, <1>p, <1>f DEF SpawnFails
<1>6. ASSUME NEW s \in Stage, Spawn(s)
      PROVE  Blocked(k)'
  <2>1. runner'[k].at \notin Executing
    BY <1>6, <1>t, <1>0, GotoEffect DEF Spawn, RunnerPlaces, Executing
  <2> QED BY <1>6, <1>0, <1>p, <2>1 DEF Spawn, vars, owned
<1>7. CASE AttachIdentity
  <2>1. tick.current \in Stage
    BY <1>7, <1>t DEF AttachIdentity, Handling
  <2> QED BY <1>7, <1>t, <1>0, <1>p, <2>1, AttachEffect DEF AttachIdentity
<1>8. CASE SendToken
  <2>1. tick.current \in Stage /\ Goto(tick.current, "token")
    BY <1>8, <1>t DEF SendToken, Handling
  <2>2. runner'[k].at \notin Executing
    BY <1>t, <1>0, <2>1, GotoEffect DEF RunnerPlaces, Executing
  <2> QED BY <1>8, <1>0, <1>p, <2>2 DEF SendToken, vars, owned
<1>9. CASE LaunchUncertain \/ ServiceCrash
  <2>1. runner'[k].at \notin Executing
    BY <1>9, <1>t, <1>0, BarrierEffect DEF LaunchUncertain, Handling, Executing
  <2> QED BY <1>9, <1>0, <1>p, <2>1 DEF LaunchUncertain, ServiceCrash, vars, owned
<1>10. CASE QuarantineLaunch
  <2>1. tick.current \in Stage
    BY <1>10, <1>t DEF QuarantineLaunch, Handling
  <2> QED BY <1>10, <1>v, <1>0, <1>p, <1>f, <2>1 DEF QuarantineLaunch
<1>11. ASSUME NEW s \in Stage, ReadEof(s) \/ Rejected(s) \/ WrapUp(s) \/ RunnerCrash(s)
       PROVE  Blocked(k)'
  <2>1. Exit(s) /\ command' = command
    BY <1>11 DEF ReadEof, Rejected, WrapUp, RunnerCrash
  <2>2. runner'[k].at \notin Executing
    BY <1>t, <1>0, <2>1, ExitEffect DEF Executing
  <2>3. cancelRequested' = cancelRequested
    BY <1>11, <1>v, <1>f
    DEF ReadEof, Rejected, WrapUp, RunnerCrash, AbortUnlaunched, AbortCancelled, vars, owned
  <2> QED BY <1>0, <1>p, <2>1, <2>2, <2>3
\* The token of a cancelled stage is refused.
<1>12. ASSUME NEW s \in Stage, ReadToken(s)
       PROVE  Blocked(k)'
  <2>1. /\ cancelRequested' = cancelRequested /\ command' = command
        /\ s # k \/ Goto(k, "rejected")
    BY <1>12, <1>t, <1>0, AdmitEffect DEF ReadToken, vars, owned
  <2>2. runner'[k].at \notin Executing
    BY <1>12, <1>t, <1>0, <2>1, GotoEffect DEF ReadToken, RunnerPlaces, Executing
  <2> QED BY <1>0, <1>p, <2>1, <2>2
<1>13. ASSUME NEW s \in Stage, InputsChanged(s) \/ StartWork(s) \/ StartCleanup(s)
       PROVE  Blocked(k)'
  <2>1. s # k /\ cancelRequested' = cancelRequested
    BY <1>13, <1>0 DEF InputsChanged, StartWork, StartCleanup, At, Executing, vars, owned
  <2>2. runner'[k] = runner[k] /\ (k \in command' => k \in command)
    BY <1>13, <1>t, <2>1 DEF InputsChanged, StartWork, StartCleanup, Goto, AuthorityTyped
  <2> QED BY <1>0, <1>p, <2>1, <2>2
<1>14. ASSUME NEW s \in Stage, WorkEnds(s) \/ WorkRevoked(s) \/ CleanupEnds(s)
       PROVE  Blocked(k)'
  <2>1. s # k /\ cancelRequested' = cancelRequested
    BY <1>14, <1>0 DEF WorkEnds, WorkRevoked, CleanupEnds, At, Executing, vars, owned
  <2>2. runner'[k] = runner[k] /\ (k \in command' => k \in command)
    BY <1>14, <1>t, <1>v, <2>1, SweepEffect DEF WorkEnds, WorkRevoked, CleanupEnds
  <2> QED BY <1>0, <1>p, <2>1, <2>2
<1>15. ASSUME NEW s \in Stage, OrphansExit(s) \/ ReadRecovery(s)
       PROVE  Blocked(k)'
  BY <1>15, <1>0, <1>p DEF OrphansExit, ReadRecovery, vars, owned
<1>16. CASE CommitRecovery
  <2>1. admin.stage \in Stage /\ admin.outcome \in RunnerOutcome
    BY <1>16, <1>t DEF CommitRecovery, AuthorityInv, AdminFollows, AuthorityTyped
  <2> QED BY <1>16, <1>v, <1>0, <1>p, <1>f, <2>1 DEF CommitRecovery, vars, owned
<1> QED
  BY <1>1, <1>2, <1>3, <1>4, <1>5, <1>6, <1>7, <1>8, <1>9, <1>10, <1>11, <1>12, <1>13, <1>14,
     <1>15, <1>16
  DEF AuthorityNext, TickStep, LaunchStep, RunnerStep

\* A stage cancelled before its runner was admitted never executes user code, however
\* late the runner reads its token (admit, abort_unadmitted).
THEOREM CancelledNeverAdmitted == AuthoritySpec => CancelledBeforeAdmission
<1> DEFINE Unadmitted(s) ==
      s \in cancelRequested /\ state[s] \in {"granted", "launching"}
<1>1. ASSUME NEW s \in Stage
      PROVE  AuthoritySpec => [](Unadmitted(s) => [](s \notin command))
  <2>1. AuthorityInv /\ Unadmitted(s) => Blocked(s)
    BY DEF AuthorityInv, RunnerFollows, Working, Blocked
  <2>2. AuthorityInv /\ Blocked(s) /\ [AuthorityNext]_avars => Blocked(s)'
    <3>1. ASSUME Blocked(s), UNCHANGED avars PROVE Blocked(s)'
      BY <3>1 DEF avars, vars, owned, Blocked
    <3> QED BY <3>1, BlockedStays
  <2>3. Blocked(s) => s \notin command
    BY DEF Blocked
  <2> HIDE DEF Unadmitted
  <2> QED BY <2>1, <2>2, <2>3, AuthorityInvariant, PTL DEF AuthoritySpec
<1> QED BY <1>1 DEF CancelledBeforeAdmission
===============================================================================
