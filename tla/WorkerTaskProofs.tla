---------------------------- MODULE WorkerTaskProofs ----------------------------
(***************************************************************************)
(* What holds of worker tasks for every number of tasks, profiles, reapers *)
(* and faults: types, what the records of a task tell and to whom, what a  *)
(* wait makes of them, and, as long as supervisors take their lease in     *)
(* time, admission.                                                        *)
(***************************************************************************)
EXTENDS WorkerWait, FiniteSetTheorems, TLAPS

Idle == {"free", "tick"}
Cancelling == {"cancelling", "publishing", "signalling", "ending", "releasing"}

\* Whoever is in the middle of a task names it.
NamesTask ==
  /\ admission.at \in Idle <=> admission.task = NoTask
  /\ admission.at = "free" => admission.todo = {}
  /\ \A r \in Reaper : IF reaper[r].at = "idle" THEN reaper[r] = NoReap
                                                ELSE reaper[r].task \in Task

\* What the descriptor says while the admission lock is held for its task; a reaper
\* may have ended the task meanwhile.
Shows(places, shown) ==
  admission.at \in places => status[admission.task] \in {shown} \cup TerminalStatuses

DescriptorFollows ==
  /\ Shows({"claimed"}, "created")
  /\ Shows({"described", "moved", "requeue", "cancelling", "publishing", "signalling",
            "ending"}, "queued")
  /\ Shows({"dispatching", "admitting"}, "starting")
  /\ Shows({"releasing"}, "cancelled")

\* A task is spawned at most once, and nobody dispatches, admits or cancels it under
\* the admission lock afterwards.
StartedOnce ==
  /\ \A t \in Task :
       IF supervisor[t].at = "none" THEN t \notin worker /\ lease[t].state = "none"
       ELSE status[t] \notin {"none", "created", "queued"} /\ admission.task # t
  /\ \A r \in Reaper : reaper[r].at = "identity" \/ reaper[r].lease.state # "none" =>
       supervisor[reaper[r].task].at # "none"

\* Everything that tells of a result tells the same, and the signal it asks for is there.
Told(t) ==
  /\ result[t] # "none"
  /\ event[t] = result[t]
  /\ Wakes(t, result[t]) => t \in signal

\* How far each of the three writers of a result has come with it.
SupervisorPublishes(t) ==
  /\ supervisor[t].at \in {"publishing", "signalling"} => result[t] = supervisor[t].verdict
  /\ supervisor[t].at = "signalling" => event[t] = result[t]
  /\ supervisor[t].at \in {"announced", "described"} => Told(t)

CancellerPublishes(t) ==
  admission.task = t =>
    /\ admission.at \in {"publishing", "signalling", "ending", "releasing"} =>
         result[t] = "cancelled"
    /\ admission.at = "signalling" => event[t] = "cancelled"
    /\ admission.at \in {"ending", "releasing"} => Told(t)

ReaperPublishes(r, t) ==
  reaper[r].task = t =>
    /\ reaper[r].at \in {"event", "signal"} => result[t] # "none"
    /\ reaper[r].at = "signal" => event[t] = result[t]
    /\ reaper[r].at \in {"describe", "release"} => Told(t)

PublicationFollows ==
  \A t \in Task :
    /\ event[t] \in {"none", result[t]}
    /\ Finished(t) => Told(t) /\ status[t] = result[t]
    /\ SupervisorPublishes(t)
    /\ CancellerPublishes(t)
    /\ \A r \in Reaper : ReaperPublishes(r, t)

\* A cancelled task that was never spawned is in no queue and in no tick.
Unspawned(t) == result[t] = "cancelled" /\ supervisor[t].at = "none"

OutOfQueue(t) ==
  /\ t \in admission.todo => entry[t] = "pending"
  /\ admission.task = t /\ admission.at \in Cancelling => entry[t] # "pending"
  /\ Unspawned(t) => /\ entry[t] # "pending"
                     /\ status[t] \in {"queued"} \cup TerminalStatuses
                     /\ admission.task = t => admission.at \in Cancelling

CancelledIsOut == \A t \in Task : OutOfQueue(t)

TaskInv == TypeOK /\ NamesTask /\ DescriptorFollows /\ StartedOnce /\ PublicationFollows
             /\ CancelledIsOut

-----------------------------------------------------------------------------
\* With leases taken in time a reaper acts only on a task nobody will drive any more.
Orphaned(t) == supervisor[t].at = "gone" \/ (supervisor[t].at = "none" /\ t \in aged)

AgedIsStarted(t) ==
  t \in aged =>
    /\ status[t] \notin {"none", "created", "queued"}
    /\ admission.task # t
    /\ supervisor[t].at # "spawned"

LeaseFollows(t) ==
  /\ lease[t].state = "released" => supervisor[t].at = "gone"
  /\ lease[t].state = "none" => supervisor[t].at \in {"none", "spawned", "gone"}

ReapsOrphan(r, t) ==
  reaper[r].task = t =>
    /\ reaper[r].at \in {"publish", "event", "signal", "describe", "release"} => Orphaned(t)
    /\ reaper[r].at = "release" => Finished(t)

\* A task is active while it has a supervisor, until the supervisor describes its end; and
\* it is not ended under the holder of the admission lock.
DescriptorIsRight(t) ==
  /\ supervisor[t].at \notin {"none", "gone", "described"} => status[t] \in Active
  /\ supervisor[t].at = "described" => Finished(t)
  /\ admission.task = t /\ admission.at # "releasing" => ~Finished(t)

InTime ==
  \A t \in Task :
    /\ AgedIsStarted(t)
    /\ LeaseFollows(t)
    /\ \A r \in Reaper : ReapsOrphan(r, t)
    /\ DescriptorIsRight(t)

Accepted(t) == status[t] \in Active \cup {"queued"}

\* What is accepted and unfinished is claimed, and no claim is doubled unawares.
Claimed(t) ==
  Accepted(t) \/ (admission.task = t /\ admission.at = "claimed") => t \in claims

ClaimsCover ==
  /\ \A t \in Task : Claimed(t)
  /\ \A t, u \in claims :
       t # u /\ FingerprintOf[t] = FingerprintOf[u] /\ ~Finished(t) /\ ~Finished(u)
       => t \in override \/ u \in override

\* The descriptors keep the limits, and a place is free for whom a tick has moved.
Fits(n, W, limit) == IsFiniteSet(Running(W)) /\ Cardinality(Running(W)) + n <= limit

PlaceFree(t) ==
  Fits(1, Worker, GlobalLimit) /\ Fits(1, {WorkerOf[t]}, WorkerLimit[WorkerOf[t]])

PlacesKept ==
  /\ Fits(0, Worker, GlobalLimit)
  /\ \A w \in Worker : Fits(0, {w}, WorkerLimit[w])
  /\ \A t \in Task : admission.task = t /\ admission.at = "moved" => PlaceFree(t)

InTimeInv == InTime /\ ClaimsCover /\ PlacesKept
-----------------------------------------------------------------------------
USE DEF Active, TerminalStatuses, Idle, Cancelling, Pending, Finished, records, clock, outside,
        processes, SetStatus, SupervisorAt, SupervisorLives

\* The empty records are records.
LEMMA EmptyRecords ==
  /\ NoLease \in LeaseRecords /\ NoLease.state = "none"
  /\ NoAdmission \in AdmissionRecords
  /\ NoSupervisor \in SupervisorRecords /\ NoSupervisor.at = "none"
  /\ Spawned \in SupervisorRecords /\ Spawned.at = "spawned"
  /\ NoReap \in ReapRecords /\ NoReap.at = "idle" /\ NoReap.lease = NoLease
  /\ \A recorded \in BOOLEAN :
       /\ HeldLease(recorded) \in LeaseRecords /\ HeldLease(recorded).state = "held"
       /\ [HeldLease(recorded) EXCEPT !.state = "released"] \in LeaseRecords
BY DEF NoLease, NoAdmission, NoSupervisor, Spawned, NoReap, HeldLease, LeaseRecords, AdmissionRecords,
       SupervisorRecords, ReapRecords, AdmissionPlaces, SupervisorPlaces, ReapPlaces

\* What the typed records of the actors say of a task.
Rows ==
  /\ admission.at \notin Idle => admission.task \in Task
  /\ \A t \in Task : supervisor[t].verdict \in TerminalStatuses
  /\ \A r \in Reaper : reaper[r].at # "idle" => reaper[r].task \in Task
  /\ \A r \in Reaper : /\ reaper[r].lease \in LeaseRecords
                       /\ [reaper[r].lease EXCEPT !.state = "released"] \in LeaseRecords

LEMMA RowsTyped ==
  ASSUME TypeOK, NamesTask
  PROVE  Rows
<1>1. admission.at \notin Idle => admission.task \in Task
  BY DEF TypeOK, NamesTask, AdmissionRecords
<1>2. \A t \in Task : supervisor[t].verdict \in TerminalStatuses
  BY DEF TypeOK, SupervisorRecords
<1>3. \A r \in Reaper : reaper[r].at # "idle" => reaper[r].task \in Task
  BY DEF NamesTask
<1>4. ASSUME NEW r \in Reaper
      PROVE  /\ reaper[r].lease \in LeaseRecords
             /\ [reaper[r].lease EXCEPT !.state = "released"] \in LeaseRecords
  <2>1. reaper[r].lease \in LeaseRecords
    BY DEF TypeOK, ReapRecords
  <2> QED BY ONLY <2>1 DEF LeaseRecords
<1> QED BY <1>1, <1>2, <1>3, <1>4 DEF Rows

\* The three writes of a publication are of the right types.
LEMMA ResultTyped ==
  ASSUME FilesOK, NEW t \in Task, NEW verdict \in TerminalStatuses,
         NEW who \in {"admission", "supervisor"} \cup Reaper,
         PublishResult(t, who, verdict)
  PROVE  /\ result' \in [Task -> {"none"} \cup TerminalStatuses]
         /\ event' = event /\ signal' = signal
         /\ publisher' \in [Task -> {"free", "admission", "supervisor"} \cup Reaper]
BY DEF PublishResult, FilesOK

LEMMA EventTyped ==
  ASSUME FilesOK, NEW t \in Task, PublishEvent(t)
  PROVE  /\ event' \in [Task -> {"none"} \cup TerminalStatuses]
         /\ result' = result /\ signal' = signal /\ publisher' = publisher
BY DEF PublishEvent, FilesOK

LEMMA SignalTyped ==
  ASSUME FilesOK, NEW t \in Task, NEW verdict, PublishSignal(t, verdict)
  PROVE  /\ signal' \subseteq Task
         /\ result' = result /\ event' = event
         /\ publisher' \in [Task -> {"free", "admission", "supervisor"} \cup Reaper]
BY DEF PublishSignal, FilesOK

\* A lease that expires is a lease.
LEMMA ExpiredLease ==
  ASSUME NEW t \in Task, lease \in [Task -> LeaseRecords]
  PROVE  [lease EXCEPT ![t].stale = TRUE] \in [Task -> LeaseRecords]
<1> DEFINE row == [lease[t] EXCEPT !.stale = TRUE]
<1>1. row \in LeaseRecords
  BY DEF LeaseRecords
<1>2. [lease EXCEPT ![t].stale = TRUE] = [lease EXCEPT ![t] = row]
  OBVIOUS
<1> HIDE DEF row
<1> QED BY <1>1, <1>2

\* Types of the files: every step writes what they may hold.
LEMMA FilesStep ==
  ASSUME FilesOK, Rows, Next
  PROVE  FilesOK'
<1> USE EmptyRecords, NoTaskAssumption, MaxFaultsAssumption, VerdictAssumption
    DEF FilesOK, Rows, Fault, Ended
<1>1. CASE DispatchDescribe
  BY <1>1 DEF DispatchDescribe
<1>2. CASE DispatchEnqueue
  BY <1>2 DEF DispatchEnqueue
<1>3. CASE DispatchStart
  BY <1>3 DEF DispatchStart
<1>4. CASE DispatchSpawn
  BY <1>4 DEF DispatchSpawn
<1>5. CASE TickStart
  BY <1>5 DEF TickStart
<1>6. CASE TickSpawn
  BY <1>6 DEF TickSpawn
<1>7. CASE TickRequeue
  BY <1>7 DEF TickRequeue
<1>8. CASE TickEnd
  BY <1>8 DEF TickEnd
<1>9. CASE CancelPublish
  BY <1>9, ResultTyped DEF CancelPublish, Unstarted
<1>10. CASE CancelAnnounce
  BY <1>10, EventTyped, SignalTyped DEF CancelAnnounce
<1>11. CASE CancelEnd
  BY <1>11 DEF CancelEnd, Unstarted
<1>12. CASE TickBegin
  BY <1>12 DEF TickBegin
<1>13. CASE AdmissionCrash
  BY <1>13 DEF AdmissionCrash
<1>14. ASSUME NEW t \in Task, TickPass(t)
       PROVE  FilesOK'
  BY <1>14 DEF TickPass
<1>15. ASSUME NEW t \in Task, TickMove(t)
       PROVE  FilesOK'
  BY <1>15 DEF TickMove
<1>16. ASSUME NEW t \in Task, DispatchCreate(t)
       PROVE  FilesOK'
  BY <1>16 DEF DispatchCreate
<1>17. ASSUME NEW t \in Task, DispatchClaim(t)
      PROVE  FilesOK'
  BY <1>17 DEF DispatchClaim, LiveClaims
<1>18. ASSUME NEW t \in Task, Ask(t)
       PROVE  FilesOK'
  BY <1>18 DEF Ask
<1>19. ASSUME NEW t \in Task, CancelRequest(t)
       PROVE  FilesOK'
  BY <1>19 DEF CancelRequest
<1>20. ASSUME NEW t \in Task, CancelQueued(t)
       PROVE  FilesOK'
  BY <1>20 DEF CancelQueued
<1>21. ASSUME NEW t \in Task, AcquireLease(t)
       PROVE  FilesOK'
  BY <1>21 DEF AcquireLease
<1>22. ASSUME NEW t \in Task, ClaimTask(t)
       PROVE  FilesOK'
  BY <1>22 DEF ClaimTask
<1>23. ASSUME NEW t \in Task, SpawnWorker(t)
       PROVE  FilesOK'
  BY <1>23 DEF SpawnWorker
<1>24. ASSUME NEW t \in Task, RecordWorker(t)
       PROVE  FilesOK'
  BY <1>24 DEF RecordWorker
<1>25. ASSUME NEW t \in Task, ApplyCancel(t)
       PROVE  FilesOK'
  BY <1>25 DEF ApplyCancel
<1>26. ASSUME NEW t \in Task, WorkerStops(t)
      PROVE  FilesOK'
  BY <1>26 DEF WorkerStops, Terminates
<1>27. ASSUME NEW t \in Task, Publish(t)
      PROVE  FilesOK'
  <2>1. CASE result[t] # "none"
    BY <1>27, <2>1 DEF Publish
  <2>2. CASE result[t] = "none"
    <3>1. PublishResult(t, "supervisor", supervisor[t].verdict)
      BY <1>27, <2>2 DEF Publish
    <3> QED BY <1>27, <3>1, ResultTyped DEF Publish
  <2> QED BY <2>1, <2>2
<1>28. ASSUME NEW t \in Task, Announce(t)
      PROVE  FilesOK'
  BY <1>28, EventTyped, SignalTyped DEF Announce
<1>29. ASSUME NEW t \in Task, Describe(t)
       PROVE  FilesOK'
  BY <1>29 DEF Describe
<1>30. ASSUME NEW t \in Task, Release(t)
       PROVE  FilesOK'
  BY <1>30 DEF Release
<1>31. ASSUME NEW t \in Task, Heartbeat(t)
       PROVE  FilesOK'
  BY <1>31 DEF Heartbeat
<1>32. ASSUME NEW t \in Task, SupervisorCrash(t)
       PROVE  FilesOK'
  BY <1>32 DEF SupervisorCrash
<1>33. ASSUME NEW t \in Task, OrphanExits(t)
       PROVE  FilesOK'
  BY <1>33 DEF OrphanExits
<1>34. ASSUME NEW t \in Task, Age(t)
       PROVE  FilesOK'
  BY <1>34 DEF Age
<1>35. ASSUME NEW t \in Task, LeaseExpires(t)
      PROVE  FilesOK'
  BY <1>35, ExpiredLease DEF LeaseExpires
<1>36. ASSUME NEW t \in Task, BecomesDue(t)
       PROVE  FilesOK'
  BY <1>36 DEF BecomesDue
<1>37. ASSUME NEW r \in Reaper, ReapLease(r)
       PROVE  FilesOK'
  BY <1>37 DEF ReapLease
<1>38. ASSUME NEW r \in Reaper, ReapIdentity(r)
      PROVE  FilesOK'
  BY <1>38 DEF ReapIdentity, StopWorkerTree
<1>39. ASSUME NEW r \in Reaper, ReapPublish(r)
      PROVE  FilesOK'
  BY <1>39, ResultTyped DEF ReapPublish
<1>40. ASSUME NEW r \in Reaper, ReapAnnounce(r)
      PROVE  FilesOK'
  BY <1>40, EventTyped, SignalTyped DEF ReapAnnounce
<1>41. ASSUME NEW r \in Reaper, ReapDescribe(r)
       PROVE  FilesOK'
  BY <1>41 DEF ReapDescribe
<1>42. ASSUME NEW r \in Reaper, ReapRelease(r)
       PROVE  FilesOK'
  BY <1>42 DEF ReapRelease
<1>43. ASSUME NEW r \in Reaper, ReaperCrash(r)
       PROVE  FilesOK'
  BY <1>43 DEF ReaperCrash
<1>44. ASSUME NEW r \in Reaper, NEW t \in Task, ReapSee(r, t)
      PROVE  FilesOK'
  BY <1>44 DEF ReapSee
<1>45. CASE UNCHANGED taskVars
  BY <1>45 DEF taskVars
<1> QED
  BY <1>1, <1>2, <1>3, <1>4, <1>5, <1>6, <1>7, <1>8, <1>9, <1>10, <1>11, <1>12, <1>13,
     <1>14, <1>15, <1>16, <1>17, <1>18, <1>19, <1>20, <1>21, <1>22, <1>23, <1>24,
     <1>25, <1>26, <1>27, <1>28, <1>29, <1>30, <1>31, <1>32, <1>33, <1>34, <1>35,
     <1>36, <1>37, <1>38, <1>39, <1>40, <1>41, <1>42, <1>43, <1>44, <1>45
  DEF Next, LockedStep, DispatchStep, TickStep, CancelStep, SupervisorStep, ReapStep
\* Types of the holder of the admission lock.
AdmissionOK ==
  /\ admission \in AdmissionRecords
  /\ admission.at \in Idle <=> admission.task = NoTask
  /\ admission.at = "free" => admission.todo = {}

\* Its moves keep them.
LEMMA GotoTyped ==
  ASSUME AdmissionOK, NEW place \in AdmissionPlaces \ {"free"}, NEW t \in Task \cup {NoTask},
         place \in Idle <=> t = NoTask, Goto(place, t)
  PROVE  AdmissionOK' /\ admission'.at = place /\ admission'.task = t
         /\ admission'.todo = admission.todo
BY DEF AdmissionOK, AdmissionRecords, Goto

LEMMA UnlockTyped ==
  ASSUME Unlock
  PROVE  AdmissionOK' /\ admission'.at = "free" /\ admission'.task = NoTask
         /\ admission'.todo = {}
BY EmptyRecords DEF AdmissionOK, Unlock, NoAdmission

LEMMA TodoTyped ==
  ASSUME AdmissionOK, NEW place \in AdmissionPlaces \ {"free"}, NEW t \in Task \cup {NoTask},
         NEW todo \in SUBSET Task, place \in Idle <=> t = NoTask,
         admission' = [at |-> place, task |-> t, todo |-> todo]
  PROVE  AdmissionOK' /\ admission'.at = place /\ admission'.task = t
         /\ admission'.todo = todo
BY DEF AdmissionOK, AdmissionRecords

LEMMA ConsideredTyped ==
  ASSUME AdmissionOK, NEW t \in Task, Considered(t)
  PROVE  AdmissionOK' /\ admission'.at = admission.at /\ admission'.task = admission.task
         /\ admission'.todo = admission.todo \ {t}
BY DEF AdmissionOK, AdmissionRecords, Considered

LEMMA AdmissionStep ==
  ASSUME AdmissionOK, Rows, Next
  PROVE  AdmissionOK'
<1>u. admission' = admission => AdmissionOK'
  BY DEF AdmissionOK
<1>p. admission.todo \in SUBSET Task
  BY DEF AdmissionOK, AdmissionRecords
<1> USE NoTaskAssumption, <1>u, <1>p DEF Rows, AdmissionPlaces
<1>1. CASE DispatchDescribe
  BY <1>1, GotoTyped DEF DispatchDescribe
<1>2. CASE DispatchEnqueue
  BY <1>2, UnlockTyped DEF DispatchEnqueue
<1>3. CASE DispatchStart
  BY <1>3, GotoTyped DEF DispatchStart
<1>4. CASE DispatchSpawn
  BY <1>4, UnlockTyped DEF DispatchSpawn
<1>5. CASE TickStart
  BY <1>5, GotoTyped DEF TickStart
<1>6. CASE TickSpawn
  BY <1>6, GotoTyped DEF TickSpawn
<1>7. CASE TickRequeue
  BY <1>7, GotoTyped DEF TickRequeue
<1>8. CASE TickEnd
  BY <1>8, UnlockTyped DEF TickEnd
<1>9. CASE CancelPublish
  BY <1>9, GotoTyped, UnlockTyped DEF CancelPublish
<1>10. CASE CancelAnnounce
  BY <1>10, GotoTyped DEF CancelAnnounce
<1>11. CASE CancelEnd
  BY <1>11, GotoTyped, UnlockTyped DEF CancelEnd
<1>12. CASE TickBegin
  BY <1>12, TodoTyped DEF TickBegin
<1>13. CASE AdmissionCrash
  BY <1>13, UnlockTyped DEF AdmissionCrash
<1>14. ASSUME NEW t \in Task, TickPass(t)
      PROVE  AdmissionOK'
  BY <1>14, ConsideredTyped DEF TickPass
<1>15. ASSUME NEW t \in Task, TickMove(t)
      PROVE  AdmissionOK'
  BY <1>15, TodoTyped DEF TickMove, NextEntry
<1>16. ASSUME NEW t \in Task,
              DispatchCreate(t) \/ Ask(t) \/ CancelRequest(t) \/ AcquireLease(t) \/
              ClaimTask(t) \/ SpawnWorker(t) \/ RecordWorker(t) \/ ApplyCancel(t) \/
              WorkerStops(t) \/ Publish(t)
       PROVE  AdmissionOK'
  BY <1>16 DEF DispatchCreate, Ask, CancelRequest, AcquireLease, ClaimTask, SpawnWorker,
        RecordWorker, ApplyCancel, WorkerStops, Publish
<1>17. ASSUME NEW t \in Task, DispatchClaim(t)
      PROVE  AdmissionOK'
  BY <1>17, GotoTyped DEF DispatchClaim
<1>18. ASSUME NEW t \in Task, CancelQueued(t)
      PROVE  AdmissionOK'
  BY <1>18, GotoTyped DEF CancelQueued
<1>19. ASSUME NEW t \in Task,
              Announce(t) \/ Describe(t) \/ Release(t) \/ Heartbeat(t) \/ SupervisorCrash(t) \/
              OrphanExits(t) \/ Age(t) \/ LeaseExpires(t) \/ BecomesDue(t)
       PROVE  AdmissionOK'
  BY <1>19 DEF Announce, Describe, Release, Heartbeat, SupervisorCrash, OrphanExits, Age,
        LeaseExpires, BecomesDue
<1>20. ASSUME NEW r \in Reaper,
              ReapLease(r) \/ ReapIdentity(r) \/ ReapPublish(r) \/ ReapAnnounce(r) \/
              ReapDescribe(r) \/ ReapRelease(r) \/ ReaperCrash(r)
       PROVE  AdmissionOK'
  BY <1>20 DEF ReapLease, ReapIdentity, ReapPublish, ReapAnnounce, ReapDescribe, ReapRelease,
        ReaperCrash
<1>21. ASSUME NEW r \in Reaper, NEW t \in Task, ReapSee(r, t)
      PROVE  AdmissionOK'
  BY <1>21 DEF ReapSee
<1>22. CASE UNCHANGED taskVars
  BY <1>22 DEF taskVars
<1> QED
  BY <1>1, <1>2, <1>3, <1>4, <1>5, <1>6, <1>7, <1>8, <1>9, <1>10, <1>11, <1>12, <1>13,
     <1>14, <1>15, <1>16, <1>17, <1>18, <1>19, <1>20, <1>21, <1>22
  DEF Next, LockedStep, DispatchStep, TickStep, CancelStep, SupervisorStep, ReapStep

\* Types of the supervisors, and their moves.
SupervisorOK == supervisor \in [Task -> SupervisorRecords]

LEMMA SupervisorMoves ==
  ASSUME SupervisorOK, NEW t \in Task
  PROVE  /\ \A place \in SupervisorPlaces : SupervisorGo(t, place) => SupervisorOK'
         /\ \A verdict \in TerminalStatuses : Ended(t, verdict) => SupervisorOK'
<1>1. ASSUME NEW place \in SupervisorPlaces, SupervisorGo(t, place)
      PROVE  SupervisorOK'
  <2>1. [supervisor[t] EXCEPT !.at = place] \in SupervisorRecords
    BY DEF SupervisorRecords, SupervisorOK
  <2>2. supervisor' = [supervisor EXCEPT ![t] = [supervisor[t] EXCEPT !.at = place]]
    BY <1>1 DEF SupervisorGo
  <2> QED BY <2>1, <2>2 DEF SupervisorOK
<1>2. ASSUME NEW verdict \in TerminalStatuses, Ended(t, verdict)
      PROVE  SupervisorOK'
  <2>1. [at |-> "ended", verdict |-> verdict] \in SupervisorRecords
    BY DEF SupervisorRecords, SupervisorPlaces
  <2> QED BY <1>2, <2>1 DEF SupervisorOK, Ended
<1> QED BY <1>1, <1>2

LEMMA SupervisorStepTyped ==
  ASSUME SupervisorOK, Rows, Next
  PROVE  SupervisorOK'
<1>u. supervisor' = supervisor => SupervisorOK'
  BY DEF SupervisorOK
<1>s. \A t \in Task : supervisor' = [supervisor EXCEPT ![t] = Spawned] => SupervisorOK'
  BY EmptyRecords DEF SupervisorOK
<1> USE SupervisorMoves, VerdictAssumption, <1>u, <1>s DEF Rows, SupervisorPlaces
<1>1. CASE DispatchDescribe \/ DispatchEnqueue \/ DispatchStart \/ DispatchSpawn \/
           TickStart \/ TickSpawn \/ TickRequeue \/ TickEnd \/ CancelPublish \/ CancelAnnounce
  BY <1>1 DEF DispatchDescribe, DispatchEnqueue, DispatchStart, DispatchSpawn, TickStart,
        TickSpawn, TickRequeue, TickEnd, CancelPublish, CancelAnnounce
<1>2. CASE CancelEnd \/ TickBegin \/ AdmissionCrash
  BY <1>2 DEF CancelEnd, TickBegin, AdmissionCrash
<1>3. ASSUME NEW t \in Task,
             TickPass(t) \/ TickMove(t) \/ DispatchCreate(t) \/ DispatchClaim(t) \/ Ask(t) \/
             CancelRequest(t) \/ CancelQueued(t) \/ AcquireLease(t) \/ ClaimTask(t) \/
             SpawnWorker(t)
      PROVE  SupervisorOK'
  BY <1>3 DEF TickPass, TickMove, DispatchCreate, DispatchClaim, Ask, CancelRequest,
        CancelQueued, AcquireLease, ClaimTask, SpawnWorker
<1>4. ASSUME NEW t \in Task,
             RecordWorker(t) \/ ApplyCancel(t) \/ WorkerStops(t) \/ Publish(t) \/
             Announce(t) \/ Describe(t) \/ Release(t) \/ Heartbeat(t) \/ SupervisorCrash(t) \/
             OrphanExits(t)
      PROVE  SupervisorOK'
  BY <1>4 DEF RecordWorker, ApplyCancel, WorkerStops, Publish, Announce, Describe, Release,
        Heartbeat, SupervisorCrash, OrphanExits
<1>5. ASSUME NEW t \in Task,
             Age(t) \/ LeaseExpires(t) \/ BecomesDue(t)
      PROVE  SupervisorOK'
  BY <1>5 DEF Age, LeaseExpires, BecomesDue
<1>6. ASSUME NEW r \in Reaper,
             ReapLease(r) \/ ReapIdentity(r) \/ ReapPublish(r) \/ ReapAnnounce(r) \/
             ReapDescribe(r) \/ ReapRelease(r) \/ ReaperCrash(r)
      PROVE  SupervisorOK'
  BY <1>6 DEF ReapLease, ReapIdentity, ReapPublish, ReapAnnounce, ReapDescribe, ReapRelease,
        ReaperCrash
<1>7. ASSUME NEW r \in Reaper, NEW t \in Task, ReapSee(r, t)
      PROVE  SupervisorOK'
  BY <1>7 DEF ReapSee
<1>8. CASE UNCHANGED taskVars
  BY <1>8 DEF taskVars
<1> QED
  BY <1>1, <1>2, <1>3, <1>4, <1>5, <1>6, <1>7, <1>8
  DEF Next, LockedStep, DispatchStep, TickStep, CancelStep, SupervisorStep, ReapStep

\* Types of the reapers, and their moves.
ReaperOK ==
  /\ reaper \in [Reaper -> ReapRecords]
  /\ \A r \in Reaper : IF reaper[r].at = "idle" THEN reaper[r] = NoReap
                                                ELSE reaper[r].task \in Task

LEMMA ReaperMoves ==
  ASSUME ReaperOK, NEW r \in Reaper, NEW row \in ReapRecords,
         reaper' = [reaper EXCEPT ![r] = row],
         IF row.at = "idle" THEN row = NoReap ELSE row.task \in Task
  PROVE  ReaperOK'
BY DEF ReaperOK

LEMMA ReapingTyped ==
  ASSUME ReaperOK, NEW r \in Reaper, NEW place \in ReapPlaces \ {"idle"},
         reaper[r].at # "idle", Reaping(r, place)
  PROVE  ReaperOK'
<1> DEFINE row == [reaper[r] EXCEPT !.at = place]
<1>1. row \in ReapRecords /\ row.at = place /\ row.task \in Task
  BY DEF ReaperOK, ReapRecords
<1>2. reaper' = [reaper EXCEPT ![r] = row]
  BY DEF Reaping
<1> HIDE DEF row
<1> QED BY <1>1, <1>2, ReaperMoves

LEMMA StopReapingTyped ==
  ASSUME ReaperOK, NEW r \in Reaper, StopReaping(r)
  PROVE  ReaperOK'
BY EmptyRecords, ReaperMoves DEF StopReaping

LEMMA ReaperStepTyped ==
  ASSUME ReaperOK, Rows, FilesOK, Next
  PROVE  ReaperOK'
<1>u. reaper' = reaper => ReaperOK'
  BY DEF ReaperOK
<1> USE ReapingTyped, StopReapingTyped, <1>u DEF Rows, ReapPlaces
<1>1. CASE DispatchDescribe \/ DispatchEnqueue \/ DispatchStart \/ DispatchSpawn \/
           TickStart \/ TickSpawn \/ TickRequeue \/ TickEnd \/ CancelPublish \/ CancelAnnounce
  BY <1>1 DEF DispatchDescribe, DispatchEnqueue, DispatchStart, DispatchSpawn, TickStart,
        TickSpawn, TickRequeue, TickEnd, CancelPublish, CancelAnnounce
<1>2. CASE CancelEnd \/ TickBegin \/ AdmissionCrash
  BY <1>2 DEF CancelEnd, TickBegin, AdmissionCrash
<1>3. ASSUME NEW t \in Task,
             TickPass(t) \/ TickMove(t) \/ DispatchCreate(t) \/ DispatchClaim(t) \/ Ask(t) \/
             CancelRequest(t) \/ CancelQueued(t) \/ AcquireLease(t) \/ ClaimTask(t) \/
             SpawnWorker(t)
      PROVE  ReaperOK'
  BY <1>3 DEF TickPass, TickMove, DispatchCreate, DispatchClaim, Ask, CancelRequest,
        CancelQueued, AcquireLease, ClaimTask, SpawnWorker
<1>4. ASSUME NEW t \in Task,
             RecordWorker(t) \/ ApplyCancel(t) \/ WorkerStops(t) \/ Publish(t) \/
             Announce(t) \/ Describe(t) \/ Release(t) \/ Heartbeat(t) \/ SupervisorCrash(t) \/
             OrphanExits(t)
      PROVE  ReaperOK'
  BY <1>4 DEF RecordWorker, ApplyCancel, WorkerStops, Publish, Announce, Describe, Release,
        Heartbeat, SupervisorCrash, OrphanExits
<1>5. ASSUME NEW t \in Task,
             Age(t) \/ LeaseExpires(t) \/ BecomesDue(t)
      PROVE  ReaperOK'
  BY <1>5 DEF Age, LeaseExpires, BecomesDue
<1>6. ASSUME NEW r \in Reaper, ReapLease(r)
      PROVE  ReaperOK'
  <2>1. CASE StopReaping(r)
    BY <2>1
  <2>2. ASSUME NEW place \in {"publish", "identity"}, reaper[r].at = "lease",
               reaper' = [reaper EXCEPT ![r].at = place,
                                        ![r].lease = lease[reaper[r].task]]
        PROVE  ReaperOK'
    <3> DEFINE row == [reaper[r] EXCEPT !.at = place, !.lease = lease[reaper[r].task]]
    <3>1. reaper[r] \in ReapRecords /\ reaper[r].task \in Task
      BY <2>2 DEF ReaperOK
    <3>2. lease[reaper[r].task] \in LeaseRecords
      BY <3>1 DEF FilesOK
    <3>3. row \in ReapRecords /\ row.at = place /\ row.task = reaper[r].task
      BY <3>1, <3>2 DEF ReapRecords
    <3>4. reaper' = [reaper EXCEPT ![r] = row]
      BY <2>2
    <3> HIDE DEF row
    <3> QED BY <3>1, <3>3, <3>4, ReaperMoves
  <2> QED BY <1>6, <2>1, <2>2 DEF ReapLease
<1>7. ASSUME NEW r \in Reaper,
             ReapIdentity(r) \/ ReapPublish(r) \/ ReapAnnounce(r) \/ ReapDescribe(r) \/
             ReapRelease(r) \/ ReaperCrash(r)
      PROVE  ReaperOK'
  BY <1>7 DEF ReapIdentity, ReapPublish, ReapAnnounce, ReapDescribe, ReapRelease, ReaperCrash
<1>8. ASSUME NEW r \in Reaper, NEW t \in Task, ReapSee(r, t)
      PROVE  ReaperOK'
  <2>1. [at |-> "lease", task |-> t, seen |-> status[t], lease |-> NoLease] \in ReapRecords
    BY <1>8, EmptyRecords DEF ReapRecords, ReapSee
  <2> QED BY <1>8, <2>1, ReaperMoves DEF ReapSee
<1>9. CASE UNCHANGED taskVars
  BY <1>9 DEF taskVars
<1> QED
  BY <1>1, <1>2, <1>3, <1>4, <1>5, <1>6, <1>7, <1>8, <1>9
  DEF Next, LockedStep, DispatchStep, TickStep, CancelStep, SupervisorStep, ReapStep

-----------------------------------------------------------------------------
\* What TaskInv says of the task each actor is at.
Shape == FilesOK /\ Rows /\ AdmissionOK /\ SupervisorOK /\ ReaperOK

LEMMA ShapeFollows ==
  ASSUME TypeOK, NamesTask
  PROVE  Shape
<1>1. Rows
  BY RowsTyped
<1> QED BY <1>1 DEF Shape, TypeOK, NamesTask, AdmissionOK, SupervisorOK, ReaperOK

\* Whoever ends a task writes the status its result has.
LEMMA DescribedStatus ==
  ASSUME FilesOK, PublicationFollows
  PROVE  /\ \A t \in Task : SupervisorAt(t, "announced") => result[t] \in TerminalStatuses
         /\ \A r \in Reaper : reaper[r].at = "describe" /\ reaper[r].task \in Task =>
              result[reaper[r].task] \in TerminalStatuses
BY DEF FilesOK, PublicationFollows, SupervisorPublishes, ReaperPublishes, Told

\* The descriptor of the task at hand changes only by its holder and by reapers.
LEMMA DescriptorStep ==
  ASSUME Shape, DescriptorFollows, StartedOnce, PublicationFollows, Next
  PROVE  DescriptorFollows'
<1>d. /\ \A t \in Task : SupervisorAt(t, "announced") => result[t] \in TerminalStatuses
      /\ \A r \in Reaper : reaper[r].at = "describe" /\ reaper[r].task \in Task =>
           result[reaper[r].task] \in TerminalStatuses
  BY DescribedStatus DEF Shape
<1>s. \A t \in Task : supervisor[t].at # "none" => admission.task # t
  BY DEF StartedOnce
<1>a. AdmissionOK /\ (admission.at \notin Idle => admission.task \in Task)
  BY DEF Shape, Rows
<1>r. \A r \in Reaper : reaper[r].at # "idle" => reaper[r].task \in Task
  BY DEF Shape, Rows
<1>f. status \in [Task -> {"none", "created", "queued"} \cup Active \cup TerminalStatuses]
  BY DEF Shape, FilesOK
<1> USE NoTaskAssumption, <1>d, <1>s, <1>a, <1>r, <1>f
    DEF DescriptorFollows, Shows, AdmissionPlaces, Unstarted
<1>1. CASE DispatchDescribe
  BY <1>1, GotoTyped DEF DispatchDescribe
<1>2. CASE DispatchEnqueue
  BY <1>2, UnlockTyped DEF DispatchEnqueue
<1>3. CASE DispatchStart
  BY <1>3, GotoTyped DEF DispatchStart
<1>4. CASE DispatchSpawn
  BY <1>4, UnlockTyped DEF DispatchSpawn
<1>5. CASE TickStart
  BY <1>5, GotoTyped DEF TickStart
<1>6. CASE TickSpawn
  BY <1>6, GotoTyped DEF TickSpawn
<1>7. CASE TickRequeue
  BY <1>7, GotoTyped DEF TickRequeue
<1>8. CASE TickEnd
  BY <1>8, UnlockTyped DEF TickEnd
<1>9. CASE CancelPublish
  BY <1>9, GotoTyped, UnlockTyped DEF CancelPublish
<1>10. CASE CancelAnnounce
  BY <1>10, GotoTyped DEF CancelAnnounce
<1>11. CASE CancelEnd
  BY <1>11, GotoTyped, UnlockTyped DEF CancelEnd
<1>12. CASE TickBegin
  BY <1>12, TodoTyped DEF TickBegin
<1>13. CASE AdmissionCrash
  BY <1>13, UnlockTyped DEF AdmissionCrash
<1>14. ASSUME NEW t \in Task, TickPass(t)
      PROVE  DescriptorFollows'
  BY <1>14, ConsideredTyped DEF TickPass
<1>15. ASSUME NEW t \in Task, TickMove(t)
      PROVE  DescriptorFollows'
  <2>1. admission.todo \ {t} \in SUBSET Task
    BY DEF AdmissionOK, AdmissionRecords
  <2> QED BY <1>15, <2>1, TodoTyped DEF TickMove, NextEntry
<1>16. ASSUME NEW t \in Task,
              DispatchCreate(t) \/ Ask(t)
       PROVE  DescriptorFollows'
  BY <1>16 DEF DispatchCreate, Ask
<1>17. ASSUME NEW t \in Task, DispatchClaim(t)
      PROVE  DescriptorFollows'
  BY <1>17, GotoTyped DEF DispatchClaim
<1>18. ASSUME NEW t \in Task,
              CancelRequest(t) \/ AcquireLease(t)
       PROVE  DescriptorFollows'
  BY <1>18 DEF CancelRequest, AcquireLease
<1>19. ASSUME NEW t \in Task, CancelQueued(t)
      PROVE  DescriptorFollows'
  BY <1>19, GotoTyped DEF CancelQueued
<1>20. ASSUME NEW t \in Task,
              ClaimTask(t) \/ SpawnWorker(t)
       PROVE  DescriptorFollows'
  BY <1>20 DEF ClaimTask, SpawnWorker
<1>21. ASSUME NEW t \in Task,
              RecordWorker(t) \/ ApplyCancel(t)
       PROVE  DescriptorFollows'
  BY <1>21 DEF RecordWorker, ApplyCancel
<1>22. ASSUME NEW t \in Task,
              WorkerStops(t) \/ Publish(t)
       PROVE  DescriptorFollows'
  BY <1>22 DEF WorkerStops, Publish
<1>23. ASSUME NEW t \in Task,
              Announce(t) \/ Describe(t)
       PROVE  DescriptorFollows'
  BY <1>23 DEF Announce, Describe
<1>24. ASSUME NEW t \in Task,
              Release(t) \/ Heartbeat(t)
       PROVE  DescriptorFollows'
  BY <1>24 DEF Release, Heartbeat
<1>25. ASSUME NEW t \in Task,
              SupervisorCrash(t) \/ OrphanExits(t)
       PROVE  DescriptorFollows'
  BY <1>25 DEF SupervisorCrash, OrphanExits
<1>26. ASSUME NEW t \in Task,
              Age(t) \/ LeaseExpires(t)
       PROVE  DescriptorFollows'
  BY <1>26 DEF Age, LeaseExpires
<1>27. ASSUME NEW t \in Task, BecomesDue(t)
       PROVE  DescriptorFollows'
  BY <1>27 DEF BecomesDue
<1>28. ASSUME NEW r \in Reaper,
              ReapLease(r) \/ ReapIdentity(r)
       PROVE  DescriptorFollows'
  BY <1>28 DEF ReapLease, ReapIdentity
<1>29. ASSUME NEW r \in Reaper,
              ReapPublish(r) \/ ReapAnnounce(r)
       PROVE  DescriptorFollows'
  BY <1>29 DEF ReapPublish, ReapAnnounce
<1>30. ASSUME NEW r \in Reaper,
              ReapDescribe(r) \/ ReapRelease(r)
       PROVE  DescriptorFollows'
  BY <1>30 DEF ReapDescribe, ReapRelease
<1>31. ASSUME NEW r \in Reaper, ReaperCrash(r)
       PROVE  DescriptorFollows'
  BY <1>31 DEF ReaperCrash
<1>32. ASSUME NEW r \in Reaper, NEW t \in Task, ReapSee(r, t)
      PROVE  DescriptorFollows'
  BY <1>32 DEF ReapSee
<1>33. CASE UNCHANGED taskVars
  BY <1>33 DEF taskVars
<1> QED
  BY <1>1, <1>2, <1>3, <1>4, <1>5, <1>6, <1>7, <1>8, <1>9, <1>10, <1>11, <1>12, <1>13,
     <1>14, <1>15, <1>16, <1>17, <1>18, <1>19, <1>20, <1>21, <1>22, <1>23, <1>24,
     <1>25, <1>26, <1>27, <1>28, <1>29, <1>30, <1>31, <1>32, <1>33
  DEF Next, LockedStep, DispatchStep, TickStep, CancelStep, SupervisorStep, ReapStep

\* What a move of a supervisor or a reaper leaves of the others.
LEMMA SupervisorEffect ==
  ASSUME SupervisorOK, NEW t \in Task
  PROVE  /\ \A place : SupervisorGo(t, place) =>
              /\ supervisor'[t].at = place /\ supervisor'[t].verdict = supervisor[t].verdict
              /\ \A u \in Task : u # t => supervisor'[u] = supervisor[u]
         /\ \A verdict : Ended(t, verdict) =>
              /\ supervisor'[t].at = "ended" /\ supervisor'[t].verdict = verdict
              /\ \A u \in Task : u # t => supervisor'[u] = supervisor[u]
         /\ supervisor' = [supervisor EXCEPT ![t] = Spawned] =>
              /\ supervisor'[t].at = "spawned"
              /\ \A u \in Task : u # t => supervisor'[u] = supervisor[u]
BY EmptyRecords DEF SupervisorOK, SupervisorRecords, SupervisorGo, Ended

LEMMA ReaperEffect ==
  ASSUME ReaperOK, NEW r \in Reaper
  PROVE  /\ \A place : Reaping(r, place) =>
              /\ reaper'[r].at = place /\ reaper'[r].task = reaper[r].task
              /\ reaper'[r].lease = reaper[r].lease
              /\ \A q \in Reaper : q # r => reaper'[q] = reaper[q]
         /\ StopReaping(r) =>
              /\ reaper'[r] = NoReap
              /\ \A q \in Reaper : q # r => reaper'[q] = reaper[q]
         /\ \A place, held :
              reaper' = [reaper EXCEPT ![r].at = place, ![r].lease = held] =>
                /\ reaper'[r].at = place /\ reaper'[r].task = reaper[r].task
                /\ reaper'[r].lease = held
                /\ \A q \in Reaper : q # r => reaper'[q] = reaper[q]
BY DEF ReaperOK, ReapRecords, Reaping, StopReaping

\* A supervisor is spawned for a task that nobody has started, and what a reaper reads
\* of a lease it reads after that.
LEMMA StartedStep ==
  ASSUME Shape, DescriptorFollows, StartedOnce, PublicationFollows, Next
  PROVE  StartedOnce'
<1>d. /\ \A t \in Task : SupervisorAt(t, "announced") => result[t] \in TerminalStatuses
      /\ \A r \in Reaper : reaper[r].at = "describe" /\ reaper[r].task \in Task =>
           result[reaper[r].task] \in TerminalStatuses
  BY DescribedStatus DEF Shape
<1>a. AdmissionOK /\ (admission.at \notin Idle => admission.task \in Task)
  BY DEF Shape, Rows
<1>r. ReaperOK /\ SupervisorOK /\ \A r \in Reaper : reaper[r].at # "idle" => reaper[r].task \in Task
  BY DEF Shape, Rows
<1>f. /\ status \in [Task -> {"none", "created", "queued"} \cup Active \cup TerminalStatuses]
      /\ lease \in [Task -> LeaseRecords]
  BY DEF Shape, FilesOK
<1>t. \A r \in Reaper : reaper[r].at = "identity" \/ reaper[r].lease.state # "none" =>
        reaper[r].task \in Task
  BY <1>r, EmptyRecords DEF ReaperOK
\* What a step of a supervisor, or its spawn, may do.
<1> DEFINE Advances(t) ==
      /\ supervisor'[t].at # "none" /\ status'[t] \notin {"none", "created", "queued"}
      /\ admission'.task # t /\ reaper' = reaper
      /\ \A u \in Task \ {t} :
           /\ supervisor'[u] = supervisor[u] /\ lease'[u] = lease[u] /\ status'[u] = status[u]
           /\ u \in worker' => u \in worker
           /\ admission'.task = u => admission.task = u
<1>v. ASSUME NEW t \in Task, Advances(t)
      PROVE  StartedOnce'
  BY <1>t, <1>v DEF StartedOnce
<1> HIDE DEF Advances
<1> USE NoTaskAssumption, EmptyRecords, <1>d, <1>a, <1>r, <1>f
    DEF StartedOnce, AdmissionPlaces, Unstarted
<1>1. CASE DispatchDescribe
  BY <1>1, GotoTyped, SupervisorEffect DEF DispatchDescribe, DescriptorFollows, Shows
<1>2. CASE DispatchEnqueue
  BY <1>2, UnlockTyped, SupervisorEffect DEF DispatchEnqueue, DescriptorFollows, Shows
<1>3. CASE DispatchStart
  BY <1>3, GotoTyped, SupervisorEffect DEF DispatchStart, DescriptorFollows, Shows
<1>4. CASE DispatchSpawn
  <2>1. CASE UNCHANGED supervisor
    BY <1>4, <2>1, GotoTyped, UnlockTyped DEF DispatchSpawn, DescriptorFollows, Shows
  <2>2. CASE supervisor' = [supervisor EXCEPT ![admission.task] = Spawned]
    <3> DEFINE t == admission.task
    <3>1. t \in Task /\ status[t] \notin {"none", "created", "queued"}
      BY <1>4 DEF DispatchSpawn, DescriptorFollows, Shows
    <3>2. supervisor'[t].at # "none" /\ \A u \in Task \ {t} : supervisor'[u] = supervisor[u]
      BY <2>2, <3>1, SupervisorEffect
    <3>3. admission'.task = NoTask
      BY <1>4, <2>2, GotoTyped, UnlockTyped DEF DispatchSpawn
    <3>4. UNCHANGED <<status, lease, worker, reaper>>
      BY <1>4, <2>2 DEF DispatchSpawn
    <3>5. Advances(t)
      BY <3>1, <3>2, <3>3, <3>4 DEF Advances
    <3> HIDE DEF t, StartedOnce
    <3> QED BY <3>1, <3>5, <1>v
  <2> QED BY <1>4, <2>1, <2>2 DEF DispatchSpawn
<1>5. CASE TickStart
  <2>1. status[admission.task] \in {"queued"} \cup TerminalStatuses
    BY <1>5 DEF TickStart, DescriptorFollows, Shows
  <2>2. admission'.task = admission.task
    BY <1>5, GotoTyped DEF TickStart
  <2> QED BY <1>5, <2>1, <2>2 DEF TickStart
<1>6. CASE TickSpawn
  <2>1. CASE UNCHANGED supervisor
    BY <1>6, <2>1, GotoTyped, UnlockTyped DEF TickSpawn, DescriptorFollows, Shows
  <2>2. CASE /\ supervisor' = [supervisor EXCEPT ![admission.task] = Spawned]
             /\ Goto("tick", NoTask) /\ UNCHANGED status
    <3> DEFINE t == admission.task
    <3>1. t \in Task /\ status[t] \notin {"none", "created", "queued"}
      BY <1>6 DEF TickSpawn, DescriptorFollows, Shows
    <3>2. supervisor'[t].at # "none" /\ \A u \in Task \ {t} : supervisor'[u] = supervisor[u]
      BY <2>2, <3>1, SupervisorEffect
    <3>3. admission'.task = NoTask
      BY <1>6, <2>2, GotoTyped, UnlockTyped DEF TickSpawn
    <3>4. UNCHANGED <<status, lease, worker, reaper>>
      BY <1>6, <2>2 DEF TickSpawn
    <3>5. Advances(t)
      BY <3>1, <3>2, <3>3, <3>4 DEF Advances
    <3> HIDE DEF t, StartedOnce
    <3> QED BY <3>1, <3>5, <1>v
  <2> QED BY <1>6, <2>1, <2>2 DEF TickSpawn
<1>7. CASE TickRequeue
  BY <1>7, GotoTyped, SupervisorEffect DEF TickRequeue, DescriptorFollows, Shows
<1>8. CASE TickEnd
  BY <1>8, UnlockTyped, SupervisorEffect DEF TickEnd, DescriptorFollows, Shows
<1>9. CASE CancelPublish
  BY <1>9, GotoTyped, UnlockTyped DEF CancelPublish, DescriptorFollows, Shows
<1>10. CASE CancelAnnounce
  BY <1>10, GotoTyped, SupervisorEffect DEF CancelAnnounce, DescriptorFollows, Shows
<1>11. CASE CancelEnd
  BY <1>11, GotoTyped, UnlockTyped DEF CancelEnd, DescriptorFollows, Shows
<1>12. CASE TickBegin
  BY <1>12, TodoTyped DEF TickBegin
<1>13. CASE AdmissionCrash
  BY <1>13, UnlockTyped, SupervisorEffect DEF AdmissionCrash, DescriptorFollows, Shows
<1>14. ASSUME NEW t \in Task, TickPass(t)
      PROVE  StartedOnce'
  BY <1>14, ConsideredTyped DEF TickPass
<1>15. ASSUME NEW t \in Task, TickMove(t)
      PROVE  StartedOnce'
  <2>1. admission.todo \ {t} \in SUBSET Task
    BY DEF AdmissionOK, AdmissionRecords
  <2> QED BY <1>15, <2>1, TodoTyped DEF TickMove, NextEntry
<1>16. ASSUME NEW t \in Task, DispatchCreate(t)
       PROVE  StartedOnce'
  BY <1>16 DEF DispatchCreate
<1>17. ASSUME NEW t \in Task, DispatchClaim(t)
      PROVE  StartedOnce'
  BY <1>17, GotoTyped, SupervisorEffect DEF DispatchClaim, DescriptorFollows, Shows
<1>18. ASSUME NEW t \in Task, Ask(t)
       PROVE  StartedOnce'
  BY <1>18 DEF Ask
<1>19. ASSUME NEW t \in Task, CancelRequest(t)
       PROVE  StartedOnce'
  BY <1>19 DEF CancelRequest
<1>20. ASSUME NEW t \in Task, CancelQueued(t)
      PROVE  StartedOnce'
  BY <1>20, GotoTyped, SupervisorEffect DEF CancelQueued, DescriptorFollows, Shows
<1>21. ASSUME NEW t \in Task, AcquireLease(t)
      PROVE  StartedOnce'
  <2>1. supervisor[t].at # "none" /\ status[t] \notin {"none", "created", "queued"} /\ admission.task # t
    BY <1>21 DEF AcquireLease
  <2>2. supervisor'[t].at # "none" /\ \A u \in Task \ {t} : supervisor'[u] = supervisor[u]
    BY <1>21, SupervisorEffect DEF AcquireLease
  <2>3. /\ status'[t] \notin {"none", "created", "queued"}
        /\ \A u \in Task \ {t} : /\ lease'[u] = lease[u] /\ status'[u] = status[u]
                                 /\ u \in worker' => u \in worker
        /\ admission'.task = admission.task /\ reaper' = reaper
    BY <1>21, <2>1 DEF AcquireLease
  <2>4. Advances(t)
    BY <2>1, <2>2, <2>3 DEF Advances
  <2> HIDE DEF StartedOnce
  <2> QED BY <2>4, <1>v
<1>22. ASSUME NEW t \in Task, ClaimTask(t)
      PROVE  StartedOnce'
  <2>1. supervisor[t].at # "none" /\ status[t] \notin {"none", "created", "queued"} /\ admission.task # t
    BY <1>22 DEF ClaimTask
  <2>2. supervisor'[t].at # "none" /\ \A u \in Task \ {t} : supervisor'[u] = supervisor[u]
    BY <1>22, SupervisorEffect DEF ClaimTask
  <2>3. /\ status'[t] \notin {"none", "created", "queued"}
        /\ \A u \in Task \ {t} : /\ lease'[u] = lease[u] /\ status'[u] = status[u]
                                 /\ u \in worker' => u \in worker
        /\ admission'.task = admission.task /\ reaper' = reaper
    BY <1>22, <2>1 DEF ClaimTask
  <2>4. Advances(t)
    BY <2>1, <2>2, <2>3 DEF Advances
  <2> HIDE DEF StartedOnce
  <2> QED BY <2>4, <1>v
<1>23. ASSUME NEW t \in Task, SpawnWorker(t)
      PROVE  StartedOnce'
  <2>1. supervisor[t].at # "none" /\ status[t] \notin {"none", "created", "queued"} /\ admission.task # t
    BY <1>23 DEF SpawnWorker
  <2>2. supervisor'[t].at # "none" /\ \A u \in Task \ {t} : supervisor'[u] = supervisor[u]
    BY <1>23, SupervisorEffect DEF SpawnWorker
  <2>3. /\ status'[t] \notin {"none", "created", "queued"}
        /\ \A u \in Task \ {t} : /\ lease'[u] = lease[u] /\ status'[u] = status[u]
                                 /\ u \in worker' => u \in worker
        /\ admission'.task = admission.task /\ reaper' = reaper
    BY <1>23, <2>1 DEF SpawnWorker
  <2>4. Advances(t)
    BY <2>1, <2>2, <2>3 DEF Advances
  <2> HIDE DEF StartedOnce
  <2> QED BY <2>4, <1>v
<1>24. ASSUME NEW t \in Task, RecordWorker(t)
      PROVE  StartedOnce'
  <2>1. supervisor[t].at # "none" /\ status[t] \notin {"none", "created", "queued"} /\ admission.task # t
    BY <1>24 DEF RecordWorker
  <2>2. supervisor'[t].at # "none" /\ \A u \in Task \ {t} : supervisor'[u] = supervisor[u]
    BY <1>24, SupervisorEffect DEF RecordWorker
  <2>3. /\ status'[t] \notin {"none", "created", "queued"}
        /\ \A u \in Task \ {t} : /\ lease'[u] = lease[u] /\ status'[u] = status[u]
                                 /\ u \in worker' => u \in worker
        /\ admission'.task = admission.task /\ reaper' = reaper
    BY <1>24, <2>1 DEF RecordWorker
  <2>4. Advances(t)
    BY <2>1, <2>2, <2>3 DEF Advances
  <2> HIDE DEF StartedOnce
  <2> QED BY <2>4, <1>v
<1>25. ASSUME NEW t \in Task, ApplyCancel(t)
      PROVE  StartedOnce'
  <2>1. supervisor[t].at # "none" /\ status[t] \notin {"none", "created", "queued"} /\ admission.task # t
    BY <1>25 DEF ApplyCancel
  <2>2. supervisor'[t].at # "none" /\ \A u \in Task \ {t} : supervisor'[u] = supervisor[u]
    BY <1>25, SupervisorEffect DEF ApplyCancel
  <2>3. /\ status'[t] \notin {"none", "created", "queued"}
        /\ \A u \in Task \ {t} : /\ lease'[u] = lease[u] /\ status'[u] = status[u]
                                 /\ u \in worker' => u \in worker
        /\ admission'.task = admission.task /\ reaper' = reaper
    BY <1>25, <2>1 DEF ApplyCancel
  <2>4. Advances(t)
    BY <2>1, <2>2, <2>3 DEF Advances
  <2> HIDE DEF StartedOnce
  <2> QED BY <2>4, <1>v
<1>26. ASSUME NEW t \in Task, WorkerStops(t)
      PROVE  StartedOnce'
  <2>1. supervisor[t].at # "none" /\ status[t] \notin {"none", "created", "queued"} /\ admission.task # t
    BY <1>26 DEF WorkerStops, Terminates
  <2>2. supervisor'[t].at # "none" /\ \A u \in Task \ {t} : supervisor'[u] = supervisor[u]
    BY <1>26, SupervisorEffect DEF WorkerStops, Terminates
  <2>3. /\ status'[t] \notin {"none", "created", "queued"}
        /\ \A u \in Task \ {t} : /\ lease'[u] = lease[u] /\ status'[u] = status[u]
                                 /\ u \in worker' => u \in worker
        /\ admission'.task = admission.task /\ reaper' = reaper
    BY <1>26, <2>1 DEF WorkerStops, Terminates
  <2>4. Advances(t)
    BY <2>1, <2>2, <2>3 DEF Advances
  <2> HIDE DEF StartedOnce
  <2> QED BY <2>4, <1>v
<1>27. ASSUME NEW t \in Task, Publish(t)
      PROVE  StartedOnce'
  <2>1. supervisor[t].at # "none" /\ status[t] \notin {"none", "created", "queued"} /\ admission.task # t
    BY <1>27 DEF Publish
  <2>2. supervisor'[t].at # "none" /\ \A u \in Task \ {t} : supervisor'[u] = supervisor[u]
    BY <1>27, SupervisorEffect DEF Publish
  <2>3. /\ status'[t] \notin {"none", "created", "queued"}
        /\ \A u \in Task \ {t} : /\ lease'[u] = lease[u] /\ status'[u] = status[u]
                                 /\ u \in worker' => u \in worker
        /\ admission'.task = admission.task /\ reaper' = reaper
    BY <1>27, <2>1 DEF Publish
  <2>4. Advances(t)
    BY <2>1, <2>2, <2>3 DEF Advances
  <2> HIDE DEF StartedOnce
  <2> QED BY <2>4, <1>v
<1>28. ASSUME NEW t \in Task, Announce(t)
      PROVE  StartedOnce'
  <2>1. supervisor[t].at # "none" /\ status[t] \notin {"none", "created", "queued"} /\ admission.task # t
    BY <1>28 DEF Announce
  <2>2. supervisor'[t].at # "none" /\ \A u \in Task \ {t} : supervisor'[u] = supervisor[u]
    BY <1>28, SupervisorEffect DEF Announce
  <2>3. /\ status'[t] \notin {"none", "created", "queued"}
        /\ \A u \in Task \ {t} : /\ lease'[u] = lease[u] /\ status'[u] = status[u]
                                 /\ u \in worker' => u \in worker
        /\ admission'.task = admission.task /\ reaper' = reaper
    BY <1>28, <2>1 DEF Announce
  <2>4. Advances(t)
    BY <2>1, <2>2, <2>3 DEF Advances
  <2> HIDE DEF StartedOnce
  <2> QED BY <2>4, <1>v
<1>29. ASSUME NEW t \in Task, Describe(t)
      PROVE  StartedOnce'
  <2>1. supervisor[t].at # "none" /\ status[t] \notin {"none", "created", "queued"} /\ admission.task # t
    BY <1>29 DEF Describe
  <2>2. supervisor'[t].at # "none" /\ \A u \in Task \ {t} : supervisor'[u] = supervisor[u]
    BY <1>29, SupervisorEffect DEF Describe
  <2>3. /\ status'[t] \notin {"none", "created", "queued"}
        /\ \A u \in Task \ {t} : /\ lease'[u] = lease[u] /\ status'[u] = status[u]
                                 /\ u \in worker' => u \in worker
        /\ admission'.task = admission.task /\ reaper' = reaper
    BY <1>29, <2>1 DEF Describe
  <2>4. Advances(t)
    BY <2>1, <2>2, <2>3 DEF Advances
  <2> HIDE DEF StartedOnce
  <2> QED BY <2>4, <1>v
<1>30. ASSUME NEW t \in Task, Release(t)
      PROVE  StartedOnce'
  <2>1. supervisor[t].at # "none" /\ status[t] \notin {"none", "created", "queued"} /\ admission.task # t
    BY <1>30 DEF Release
  <2>2. supervisor'[t].at # "none" /\ \A u \in Task \ {t} : supervisor'[u] = supervisor[u]
    BY <1>30, SupervisorEffect DEF Release
  <2>3. /\ status'[t] \notin {"none", "created", "queued"}
        /\ \A u \in Task \ {t} : /\ lease'[u] = lease[u] /\ status'[u] = status[u]
                                 /\ u \in worker' => u \in worker
        /\ admission'.task = admission.task /\ reaper' = reaper
    BY <1>30, <2>1 DEF Release
  <2>4. Advances(t)
    BY <2>1, <2>2, <2>3 DEF Advances
  <2> HIDE DEF StartedOnce
  <2> QED BY <2>4, <1>v
<1>31. ASSUME NEW t \in Task, Heartbeat(t)
       PROVE  StartedOnce'
  BY <1>31 DEF Heartbeat
<1>32. ASSUME NEW t \in Task, SupervisorCrash(t)
      PROVE  StartedOnce'
  <2>1. supervisor[t].at # "none" /\ status[t] \notin {"none", "created", "queued"} /\ admission.task # t
    BY <1>32 DEF SupervisorCrash
  <2>2. supervisor'[t].at # "none" /\ \A u \in Task \ {t} : supervisor'[u] = supervisor[u]
    BY <1>32, SupervisorEffect DEF SupervisorCrash
  <2>3. /\ status'[t] \notin {"none", "created", "queued"}
        /\ \A u \in Task \ {t} : /\ lease'[u] = lease[u] /\ status'[u] = status[u]
                                 /\ u \in worker' => u \in worker
        /\ admission'.task = admission.task /\ reaper' = reaper
    BY <1>32, <2>1 DEF SupervisorCrash
  <2>4. Advances(t)
    BY <2>1, <2>2, <2>3 DEF Advances
  <2> HIDE DEF StartedOnce
  <2> QED BY <2>4, <1>v
<1>33. ASSUME NEW t \in Task, OrphanExits(t)
       PROVE  StartedOnce'
  BY <1>33 DEF OrphanExits
<1>34. ASSUME NEW t \in Task, Age(t)
       PROVE  StartedOnce'
  BY <1>34 DEF Age
<1>35. ASSUME NEW t \in Task, LeaseExpires(t)
       PROVE  StartedOnce'
  BY <1>35 DEF LeaseExpires
<1>36. ASSUME NEW t \in Task, BecomesDue(t)
       PROVE  StartedOnce'
  BY <1>36 DEF BecomesDue
<1>37. ASSUME NEW r \in Reaper, ReapLease(r)
      PROVE  StartedOnce'
  <2>1. CASE StopReaping(r)
    BY SMTT(30), <1>37, <2>1, ReaperEffect DEF ReapLease
  <2>2. ASSUME NEW place \in {"publish", "identity"}, reaper[r].at = "lease",
               reaper' = [reaper EXCEPT ![r].at = place,
                                        ![r].lease = lease[reaper[r].task]],
               place = "identity" => lease[reaper[r].task].state = "held"
        PROVE  StartedOnce'
    <3>1. /\ reaper'[r].at = place /\ reaper'[r].task = reaper[r].task
          /\ reaper'[r].lease = lease[reaper[r].task]
          /\ \A q \in Reaper : q # r => reaper'[q] = reaper[q]
      BY <2>2, ReaperEffect
    <3>2. reaper[r].task \in Task
      BY <2>2
    <3>3. UNCHANGED <<status, lease, worker, supervisor, admission>>
      BY <1>37 DEF ReapLease
    <3>4. lease[reaper[r].task].state # "none" => supervisor[reaper[r].task].at # "none"
      BY <3>2 DEF StartedOnce
    <3>5. ASSUME NEW q \in Reaper, reaper'[q].at = "identity" \/ reaper'[q].lease.state # "none"
          PROVE  supervisor'[reaper'[q].task].at # "none"
      <4>1. CASE q = r
        BY <2>2, <3>1, <3>3, <3>4, <3>5, <4>1
      <4>2. CASE q # r
        BY <3>1, <3>3, <3>5, <4>2 DEF StartedOnce
      <4> QED BY <4>1, <4>2
    <3> QED BY <3>3, <3>5 DEF StartedOnce
  <2>3. /\ reaper[r].at = "lease"
        /\ \/ StopReaping(r)
           \/ reaper' = [reaper EXCEPT ![r].at = "publish", ![r].lease = lease[reaper[r].task]]
           \/ /\ reaper' = [reaper EXCEPT ![r].at = "identity",
                                           ![r].lease = lease[reaper[r].task]]
              /\ lease[reaper[r].task].state = "held"
    BY <1>37 DEF ReapLease
  <2> HIDE DEF StartedOnce
  <2> QED BY <2>1, <2>2, <2>3
<1>38. ASSUME NEW r \in Reaper, ReapIdentity(r)
      PROVE  StartedOnce'
  BY <1>38, ReaperEffect DEF ReapIdentity, StopWorkerTree
<1>39. ASSUME NEW r \in Reaper, ReapPublish(r)
      PROVE  StartedOnce'
  BY <1>39, ReaperEffect DEF ReapPublish
<1>40. ASSUME NEW r \in Reaper, ReapAnnounce(r)
      PROVE  StartedOnce'
  BY <1>40, ReaperEffect DEF ReapAnnounce
<1>41. ASSUME NEW r \in Reaper, ReapDescribe(r)
      PROVE  StartedOnce'
  BY <1>41, ReaperEffect DEF ReapDescribe
<1>42. ASSUME NEW r \in Reaper, ReapRelease(r)
      PROVE  StartedOnce'
  BY <1>42, ReaperEffect DEF ReapRelease
<1>43. ASSUME NEW r \in Reaper, ReaperCrash(r)
      PROVE  StartedOnce'
  BY <1>43, ReaperEffect DEF ReaperCrash
<1>44. ASSUME NEW r \in Reaper, NEW t \in Task, ReapSee(r, t)
      PROVE  StartedOnce'
  BY <1>44 DEF ReapSee
<1>45. CASE UNCHANGED taskVars
  BY <1>45 DEF taskVars
<1> QED
  BY <1>1, <1>2, <1>3, <1>4, <1>5, <1>6, <1>7, <1>8, <1>9, <1>10, <1>11, <1>12, <1>13,
     <1>14, <1>15, <1>16, <1>17, <1>18, <1>19, <1>20, <1>21, <1>22, <1>23, <1>24,
     <1>25, <1>26, <1>27, <1>28, <1>29, <1>30, <1>31, <1>32, <1>33, <1>34, <1>35,
     <1>36, <1>37, <1>38, <1>39, <1>40, <1>41, <1>42, <1>43, <1>44, <1>45
  DEF Next, LockedStep, DispatchStep, TickStep, CancelStep, SupervisorStep, ReapStep

\* What each write of a publication does to the records of its task and the others.
LEMMA ResultEffect ==
  ASSUME FilesOK, NEW t \in Task, NEW who, NEW verdict, PublishResult(t, who, verdict)
  PROVE  /\ result'[t] = IF result[t] = "none" THEN verdict ELSE result[t]
         /\ \A u \in Task : u # t => result'[u] = result[u]
         /\ UNCHANGED <<event, signal>>
BY DEF FilesOK, PublishResult

LEMMA EventEffect ==
  ASSUME FilesOK, PublicationFollows, NEW t \in Task, PublishEvent(t)
  PROVE  /\ event'[t] = result[t]
         /\ \A u \in Task : u # t => event'[u] = event[u]
         /\ UNCHANGED <<result, signal>>
BY DEF FilesOK, PublicationFollows, PublishEvent

LEMMA SignalEffect ==
  ASSUME NEW t \in Task, NEW verdict, PublishSignal(t, verdict)
  PROVE  /\ Wakes(t, verdict) => t \in signal'
         /\ signal \subseteq signal'
         /\ UNCHANGED <<result, event>>
BY DEF PublishSignal

\* A published record stays, and only the three writes change a record.
LEMMA RecordsGrow ==
  ASSUME Shape, PublicationFollows, Next, NEW t \in Task
  PROVE  /\ result[t] # "none" => result'[t] = result[t]
         /\ event[t] # "none" => event'[t] = event[t]
         /\ t \in signal => t \in signal'
         /\ event'[t] \in {event[t], result'[t]}
<1> DEFINE Grown == /\ result[t] # "none" => result'[t] = result[t]
                    /\ event[t] # "none" => event'[t] = event[t]
                    /\ t \in signal => t \in signal'
                    /\ event'[t] \in {event[t], result'[t]}
<1> SUFFICES Grown
  OBVIOUS
<1>u. UNCHANGED <<result, event, signal>> => Grown
  OBVIOUS
<1>p. /\ admission.at \notin Idle => admission.task \in Task
      /\ \A r \in Reaper : reaper[r].at # "idle" => reaper[r].task \in Task
  BY DEF Shape, Rows
<1>q. \A u \in Task : event[u] \in {"none", result[u]}
  BY DEF PublicationFollows
<1>1. ASSUME NEW u \in Task, NEW who, NEW verdict,
             PublishResult(u, who, verdict) \/ PublishEvent(u) \/ PublishSignal(u, verdict)
      PROVE  Grown
  BY <1>1, <1>q, ResultEffect, EventEffect, SignalEffect DEF Shape
<1> HIDE DEF Grown
<1>a. CASE DispatchStep \/ TickStep \/ TickBegin \/ AdmissionCrash
  BY <1>a, <1>u
  DEF DispatchStep, TickStep, DispatchDescribe, DispatchEnqueue, DispatchStart, DispatchSpawn,
      TickStart, TickSpawn, TickRequeue, TickEnd, TickPass, TickMove, TickBegin, AdmissionCrash
<1>g. CASE CancelPublish \/ CancelAnnounce
  <2>1. admission.task \in Task
    BY <1>g, <1>p DEF CancelPublish, CancelAnnounce
  <2>2. CASE CancelPublish
    BY <2>1, <2>2, <1>u, <1>1 DEF CancelPublish
  <2>3. CASE CancelAnnounce
    BY <2>1, <2>3, <1>1 DEF CancelAnnounce
  <2> QED BY <1>g, <2>2, <2>3
<1>h. CASE CancelEnd
  BY <1>h, <1>u DEF CancelEnd
<1>b. ASSUME NEW u \in Task, SupervisorStep(u)
      PROVE  Grown
  BY <1>b, <1>u, <1>1
  DEF SupervisorStep, AcquireLease, ClaimTask, SpawnWorker, RecordWorker, ApplyCancel,
      WorkerStops, Publish, Announce, Describe, Release
<1>c. ASSUME NEW u \in Task,
             \/ DispatchCreate(u) \/ DispatchClaim(u)
             \/ Ask(u) \/ CancelRequest(u) \/ CancelQueued(u)
             \/ Heartbeat(u) \/ SupervisorCrash(u) \/ OrphanExits(u)
             \/ Age(u) \/ LeaseExpires(u) \/ BecomesDue(u)
      PROVE  Grown
  BY <1>c, <1>u
  DEF DispatchCreate, DispatchClaim, Ask, CancelRequest, CancelQueued, Heartbeat,
      SupervisorCrash, OrphanExits, Age, LeaseExpires, BecomesDue
<1>d. ASSUME NEW r \in Reaper, ReapStep(r) \/ ReaperCrash(r)
      PROVE  Grown
  BY <1>d, <1>u, <1>p, <1>1
  DEF ReapStep, ReaperCrash, ReapLease, ReapIdentity, ReapPublish, ReapAnnounce,
      ReapDescribe, ReapRelease
<1>f. ASSUME NEW r \in Reaper, NEW u \in Task, ReapSee(r, u)
      PROVE  Grown
  BY <1>f, <1>u DEF ReapSee
<1>e. Grown
  BY <1>a, <1>b, <1>c, <1>d, <1>f, <1>g, <1>h DEF Next, LockedStep, CancelStep
<1> QED BY <1>e

LEMMA ToldStays ==
  ASSUME Shape, PublicationFollows, Next, NEW t \in Task, Told(t)
  PROVE  Told(t)'
BY RecordsGrow DEF Told, Wakes

\* The last write of a publication: everything is told.  Every policy that wakes for some
\* result wakes for a failure.
LEMMA ToldByPublishSignal ==
  ASSUME FilesOK, NEW t \in Task, NEW verdict, PublishSignal(t, verdict),
         result[t] # "none", event[t] = result[t],
         verdict \in {result[t], "failed"}
  PROVE  Told(t)'
BY DEF PublishSignal, Told, Wakes

\* The three writers keep to the order of the publication.
LEMMA SupervisorPublishesStep ==
  ASSUME Shape, PublicationFollows, Next, NEW k \in Task
  PROVE  SupervisorPublishes(k)'
<1>g. /\ result[k] # "none" => result'[k] = result[k]
      /\ event[k] # "none" => event'[k] = event[k]
      /\ Told(k) => Told(k)'
  BY RecordsGrow, ToldStays
<1>a. AdmissionOK /\ (admission.at \notin Idle => admission.task \in Task)
  BY DEF Shape, Rows
<1>r. /\ ReaperOK /\ SupervisorOK /\ FilesOK
      /\ \A t \in Task : supervisor[t].verdict # "none"
      /\ \A r \in Reaper : reaper[r].at # "idle" => reaper[r].task \in Task
  BY DEF Shape, Rows
<1>o. SupervisorPublishes(k)
  BY DEF PublicationFollows
<1>u. supervisor'[k] = supervisor[k] => SupervisorPublishes(k)'
  BY <1>g, <1>r, <1>o DEF SupervisorPublishes, Told
<1>v. supervisor'[k].at \notin {"publishing", "signalling", "announced", "described"}
        => SupervisorPublishes(k)'
  BY DEF SupervisorPublishes
<1> USE <1>u, <1>v
<1>1. CASE DispatchDescribe \/ DispatchEnqueue \/ DispatchStart \/ TickStart \/ TickRequeue \/
           TickEnd \/ CancelPublish \/ CancelAnnounce \/ CancelEnd \/ TickBegin
  BY <1>1 DEF DispatchDescribe, DispatchEnqueue, DispatchStart, TickStart, TickRequeue,
        TickEnd, CancelPublish, CancelAnnounce, CancelEnd, TickBegin
<1>2. CASE DispatchSpawn
  BY <1>2, <1>r, <1>a, SupervisorEffect DEF DispatchSpawn
<1>3. CASE TickSpawn
  BY <1>3, <1>r, <1>a, SupervisorEffect DEF TickSpawn
<1>4. CASE AdmissionCrash
  BY <1>4 DEF AdmissionCrash
<1>5. ASSUME NEW t \in Task,
             TickPass(t) \/ TickMove(t) \/ DispatchCreate(t) \/ DispatchClaim(t) \/ Ask(t) \/
             CancelRequest(t) \/ CancelQueued(t) \/ Heartbeat(t) \/ OrphanExits(t) \/ Age(t)
      PROVE  SupervisorPublishes(k)'
  BY <1>5 DEF TickPass, TickMove, DispatchCreate, DispatchClaim, Ask, CancelRequest,
        CancelQueued, Heartbeat, OrphanExits, Age
<1>6. ASSUME NEW t \in Task, AcquireLease(t)
      PROVE  SupervisorPublishes(k)'
  BY <1>6, <1>r, SupervisorEffect DEF AcquireLease
<1>7. ASSUME NEW t \in Task, ClaimTask(t)
      PROVE  SupervisorPublishes(k)'
  BY <1>7, <1>r, SupervisorEffect DEF ClaimTask
<1>8. ASSUME NEW t \in Task, SpawnWorker(t)
      PROVE  SupervisorPublishes(k)'
  BY <1>8, <1>r, SupervisorEffect DEF SpawnWorker
<1>9. ASSUME NEW t \in Task, RecordWorker(t)
      PROVE  SupervisorPublishes(k)'
  BY <1>9, <1>r, SupervisorEffect DEF RecordWorker
<1>10. ASSUME NEW t \in Task, ApplyCancel(t)
      PROVE  SupervisorPublishes(k)'
  BY <1>10, <1>r, SupervisorEffect DEF ApplyCancel
<1>11. ASSUME NEW t \in Task, WorkerStops(t)
      PROVE  SupervisorPublishes(k)'
  BY <1>11, <1>r, SupervisorEffect DEF WorkerStops
<1>12. ASSUME NEW t \in Task, Publish(t)
      PROVE  SupervisorPublishes(k)'
  <2>1. CASE result[t] # "none" \/ k # t
    BY <1>12, <2>1, <1>r, SupervisorEffect DEF Publish
  <2>2. CASE result[t] = "none" /\ k = t
    <3>1. result'[t] = supervisor[t].verdict
      BY <1>12, <2>2, <1>r, ResultEffect DEF Publish
    <3>2. supervisor'[t].at = "publishing" /\ supervisor'[t].verdict = supervisor[t].verdict
      BY <1>12, <2>2, <1>r, SupervisorEffect DEF Publish
    <3> QED BY <2>2, <3>1, <3>2 DEF SupervisorPublishes
  <2> QED BY <2>1, <2>2
<1>13. ASSUME NEW t \in Task, Announce(t)
      PROVE  SupervisorPublishes(k)'
  <2>1. CASE k # t
    BY <1>13, <2>1, <1>r, SupervisorEffect DEF Announce
  <2>2. CASE k = t /\ SupervisorAt(t, "publishing")
    <3>1. event'[t] = result[t] /\ result' = result
      BY <1>13, <2>2, <1>r, EventEffect DEF Announce
    <3>2. supervisor'[t].at = "signalling" /\ supervisor'[t].verdict = supervisor[t].verdict
      BY <1>13, <2>2, <1>r, SupervisorEffect DEF Announce
    <3> QED BY <1>o, <2>2, <3>1, <3>2 DEF SupervisorPublishes
  <2>3. CASE k = t /\ SupervisorAt(t, "signalling")
    <3>1. result[t] = supervisor[t].verdict /\ result[t] # "none" /\ event[t] = result[t]
      BY <1>o, <1>r, <2>3 DEF SupervisorPublishes
    <3>2. Told(t)'
      BY <1>13, <2>3, <3>1, <1>r, ToldByPublishSignal DEF Announce
    <3>3. supervisor'[t].at = "announced"
      BY <1>13, <2>3, <1>r, SupervisorEffect DEF Announce
    <3> QED BY <2>3, <3>2, <3>3 DEF SupervisorPublishes
  <2> QED BY <1>13, <2>1, <2>2, <2>3 DEF Announce
<1>14. ASSUME NEW t \in Task, Describe(t)
      PROVE  SupervisorPublishes(k)'
  <2>1. CASE k # t
    BY <1>14, <2>1, <1>r, SupervisorEffect DEF Describe
  <2>2. CASE k = t
    <3>1. Told(k)' /\ supervisor'[k].at = "described"
      BY <1>14, <2>2, <1>g, <1>o, <1>r, SupervisorEffect DEF Describe, SupervisorPublishes
    <3> QED BY <3>1 DEF SupervisorPublishes
  <2> QED BY <2>1, <2>2
<1>15. ASSUME NEW t \in Task, Release(t)
      PROVE  SupervisorPublishes(k)'
  BY <1>15, <1>r, SupervisorEffect DEF Release
<1>16. ASSUME NEW t \in Task, SupervisorCrash(t)
      PROVE  SupervisorPublishes(k)'
  BY <1>16, <1>r, SupervisorEffect DEF SupervisorCrash
<1>17. ASSUME NEW t \in Task,
              LeaseExpires(t) \/ BecomesDue(t)
       PROVE  SupervisorPublishes(k)'
  BY <1>17 DEF LeaseExpires, BecomesDue
<1>18. ASSUME NEW r \in Reaper,
              ReapLease(r) \/ ReapIdentity(r) \/ ReapPublish(r) \/ ReapAnnounce(r) \/
              ReapDescribe(r) \/ ReapRelease(r) \/ ReaperCrash(r)
       PROVE  SupervisorPublishes(k)'
  BY <1>18 DEF ReapLease, ReapIdentity, ReapPublish, ReapAnnounce, ReapDescribe, ReapRelease,
        ReaperCrash
<1>19. ASSUME NEW r \in Reaper, NEW t \in Task, ReapSee(r, t)
      PROVE  SupervisorPublishes(k)'
  BY <1>19 DEF ReapSee
<1>20. CASE UNCHANGED taskVars
  BY <1>20 DEF taskVars
<1> QED
  BY <1>1, <1>2, <1>3, <1>4, <1>5, <1>6, <1>7, <1>8, <1>9, <1>10, <1>11, <1>12, <1>13,
     <1>14, <1>15, <1>16, <1>17, <1>18, <1>19, <1>20
  DEF Next, LockedStep, DispatchStep, TickStep, CancelStep, SupervisorStep, ReapStep

LEMMA CancellerPublishesStep ==
  ASSUME Shape, PublicationFollows, Next, NEW k \in Task
  PROVE  CancellerPublishes(k)'
<1>g. /\ result[k] # "none" => result'[k] = result[k]
      /\ event[k] # "none" => event'[k] = event[k]
      /\ Told(k) => Told(k)'
  BY RecordsGrow, ToldStays
<1>a. AdmissionOK /\ (admission.at \notin Idle => admission.task \in Task)
  BY DEF Shape, Rows
<1>r. /\ ReaperOK /\ SupervisorOK /\ FilesOK
      /\ \A t \in Task : supervisor[t].verdict # "none"
      /\ \A r \in Reaper : reaper[r].at # "idle" => reaper[r].task \in Task
  BY DEF Shape, Rows
<1>o. CancellerPublishes(k)
  BY DEF PublicationFollows
<1>u. admission'.at = admission.at /\ admission'.task = admission.task => CancellerPublishes(k)'
  BY <1>g, <1>o DEF CancellerPublishes, Told
<1>v. /\ admission'.task = k
      /\ admission'.at \notin {"publishing", "signalling", "ending", "releasing"}
      => CancellerPublishes(k)'
  BY DEF CancellerPublishes
<1>w. admission'.task # k => CancellerPublishes(k)'
  BY DEF CancellerPublishes
<1> USE NoTaskAssumption, <1>u, <1>v, <1>w, <1>a DEF AdmissionPlaces
<1>1. CASE DispatchDescribe
  BY <1>1, GotoTyped DEF DispatchDescribe
<1>2. CASE DispatchEnqueue
  BY <1>2, UnlockTyped DEF DispatchEnqueue
<1>3. CASE DispatchStart
  BY <1>3, GotoTyped DEF DispatchStart
<1>4. CASE DispatchSpawn
  BY <1>4, UnlockTyped DEF DispatchSpawn
<1>5. CASE TickStart
  BY <1>5, GotoTyped DEF TickStart
<1>6. CASE TickSpawn
  BY <1>6, GotoTyped DEF TickSpawn
<1>7. CASE TickRequeue
  BY <1>7, GotoTyped DEF TickRequeue
<1>8. CASE TickEnd
  BY <1>8, UnlockTyped DEF TickEnd
<1>9. CASE CancelPublish
  <2> DEFINE t == admission.task
  <2>1. CASE result[t] # "none"
    BY <1>9, <2>1, UnlockTyped DEF CancelPublish
  <2>2. CASE result[t] = "none"
    <3>1. admission'.at = "publishing" /\ admission'.task = t /\ t \in Task
      BY <1>9, <2>2, GotoTyped DEF CancelPublish
    <3>2. result'[t] = "cancelled"
      BY <1>9, <2>2, <1>r, ResultEffect DEF CancelPublish, Unstarted
    <3> HIDE DEF t
    <3> QED BY <3>1, <3>2 DEF CancellerPublishes
  <2> QED BY <2>1, <2>2
<1>10. CASE CancelAnnounce
  <2>0. CASE k # admission.task
    BY <1>10, <2>0, GotoTyped DEF CancelAnnounce
  <2>1. CASE k = admission.task /\ admission.at = "publishing"
    <3>1. admission'.at = "signalling" /\ admission'.task = k
      BY <1>10, <2>1, GotoTyped DEF CancelAnnounce
    <3>2. event'[k] = result[k] /\ result' = result
      BY <1>10, <2>1, <1>r, EventEffect DEF CancelAnnounce
    <3> QED BY <1>o, <2>1, <3>1, <3>2 DEF CancellerPublishes
  <2>2. CASE k = admission.task /\ admission.at = "signalling"
    <3>1. admission'.at = "ending" /\ admission'.task = k
      BY <1>10, <2>2, GotoTyped DEF CancelAnnounce
    <3>2. result[k] = "cancelled" /\ event[k] = "cancelled"
      BY <1>o, <2>2 DEF CancellerPublishes
    <3>3. PublishSignal(k, "cancelled")
      BY <1>10, <2>2 DEF CancelAnnounce, Unstarted
    <3>4. Told(k)'
      BY <3>2, <3>3, <1>r, ToldByPublishSignal
    <3> QED BY <1>g, <3>1, <3>2, <3>4 DEF CancellerPublishes
  <2> QED BY <1>10, <2>0, <2>1, <2>2 DEF CancelAnnounce
<1>11. CASE CancelEnd
  <2> DEFINE t == admission.task
  <2>1. CASE admission.at = "ending"
    <3>1. admission'.at = "releasing" /\ admission'.task = t /\ t \in Task
      BY <1>11, <2>1, GotoTyped DEF CancelEnd
    <3> QED BY <1>g, <1>o, <2>1, <3>1 DEF CancellerPublishes
  <2>2. CASE admission.at = "releasing"
    BY <1>11, <2>2, UnlockTyped DEF CancelEnd
  <2> QED BY <1>11, <2>1, <2>2 DEF CancelEnd
<1>12. CASE TickBegin
  BY <1>12, TodoTyped DEF TickBegin
<1>13. CASE AdmissionCrash
  BY <1>13, UnlockTyped DEF AdmissionCrash
<1>14. ASSUME NEW t \in Task, TickPass(t)
      PROVE  CancellerPublishes(k)'
  BY <1>14, ConsideredTyped DEF TickPass
<1>15. ASSUME NEW t \in Task, TickMove(t)
      PROVE  CancellerPublishes(k)'
  <2>1. admission.todo \ {t} \in SUBSET Task
    BY DEF AdmissionOK, AdmissionRecords
  <2> QED BY <1>15, <2>1, TodoTyped DEF TickMove, NextEntry
<1>16. ASSUME NEW t \in Task,
              DispatchCreate(t) \/ Ask(t) \/ CancelRequest(t) \/ AcquireLease(t) \/
              ClaimTask(t) \/ SpawnWorker(t) \/ RecordWorker(t) \/ ApplyCancel(t) \/
              WorkerStops(t) \/ Publish(t)
       PROVE  CancellerPublishes(k)'
  BY <1>16 DEF DispatchCreate, Ask, CancelRequest, AcquireLease, ClaimTask, SpawnWorker,
        RecordWorker, ApplyCancel, WorkerStops, Publish
<1>17. ASSUME NEW t \in Task, DispatchClaim(t)
      PROVE  CancellerPublishes(k)'
  BY <1>17, GotoTyped DEF DispatchClaim
<1>18. ASSUME NEW t \in Task, CancelQueued(t)
      PROVE  CancellerPublishes(k)'
  BY <1>18, GotoTyped DEF CancelQueued
<1>19. ASSUME NEW t \in Task,
              Announce(t) \/ Describe(t) \/ Release(t) \/ Heartbeat(t) \/ SupervisorCrash(t) \/
              OrphanExits(t) \/ Age(t) \/ LeaseExpires(t) \/ BecomesDue(t)
       PROVE  CancellerPublishes(k)'
  BY <1>19 DEF Announce, Describe, Release, Heartbeat, SupervisorCrash, OrphanExits, Age,
        LeaseExpires, BecomesDue
<1>20. ASSUME NEW r \in Reaper,
              ReapLease(r) \/ ReapIdentity(r) \/ ReapPublish(r) \/ ReapAnnounce(r) \/
              ReapDescribe(r) \/ ReapRelease(r) \/ ReaperCrash(r)
       PROVE  CancellerPublishes(k)'
  BY <1>20 DEF ReapLease, ReapIdentity, ReapPublish, ReapAnnounce, ReapDescribe, ReapRelease,
        ReaperCrash
<1>21. ASSUME NEW r \in Reaper, NEW t \in Task, ReapSee(r, t)
      PROVE  CancellerPublishes(k)'
  BY <1>21 DEF ReapSee
<1>22. CASE UNCHANGED taskVars
  BY <1>22 DEF taskVars
<1> QED
  BY <1>1, <1>2, <1>3, <1>4, <1>5, <1>6, <1>7, <1>8, <1>9, <1>10, <1>11, <1>12, <1>13,
     <1>14, <1>15, <1>16, <1>17, <1>18, <1>19, <1>20, <1>21, <1>22
  DEF Next, LockedStep, DispatchStep, TickStep, CancelStep, SupervisorStep, ReapStep

LEMMA ReaperPublishesStep ==
  ASSUME Shape, PublicationFollows, Next, NEW q \in Reaper, NEW k \in Task
  PROVE  ReaperPublishes(q, k)'
<1>g. /\ result[k] # "none" => result'[k] = result[k]
      /\ event[k] # "none" => event'[k] = event[k]
      /\ Told(k) => Told(k)'
  BY RecordsGrow, ToldStays
<1>a. AdmissionOK /\ (admission.at \notin Idle => admission.task \in Task)
  BY DEF Shape, Rows
<1>r. /\ ReaperOK /\ SupervisorOK /\ FilesOK
      /\ \A t \in Task : supervisor[t].verdict # "none"
      /\ \A r \in Reaper : reaper[r].at # "idle" => reaper[r].task \in Task
  BY DEF Shape, Rows
<1>o. ReaperPublishes(q, k)
  BY DEF PublicationFollows
<1>u. reaper'[q] = reaper[q] => ReaperPublishes(q, k)'
  BY <1>g, <1>o DEF ReaperPublishes, Told
<1>v. reaper'[q].task # k => ReaperPublishes(q, k)'
  BY DEF ReaperPublishes
<1>w. reaper'[q].at \notin {"event", "signal", "describe", "release"} => ReaperPublishes(q, k)'
  BY DEF ReaperPublishes
<1>x. NoReap.at = "idle"
  BY EmptyRecords
<1> USE <1>u, <1>v, <1>w, <1>x
<1>1. CASE DispatchDescribe \/ DispatchEnqueue \/ DispatchStart \/ DispatchSpawn \/
           TickStart \/ TickSpawn \/ TickRequeue \/ TickEnd \/ CancelPublish \/ CancelAnnounce
  BY <1>1 DEF DispatchDescribe, DispatchEnqueue, DispatchStart, DispatchSpawn, TickStart,
        TickSpawn, TickRequeue, TickEnd, CancelPublish, CancelAnnounce
<1>2. CASE CancelEnd \/ TickBegin \/ AdmissionCrash
  BY <1>2 DEF CancelEnd, TickBegin, AdmissionCrash
<1>3. ASSUME NEW t \in Task,
             TickPass(t) \/ TickMove(t) \/ DispatchCreate(t) \/ DispatchClaim(t) \/ Ask(t) \/
             CancelRequest(t) \/ CancelQueued(t) \/ AcquireLease(t) \/ ClaimTask(t) \/
             SpawnWorker(t)
      PROVE  ReaperPublishes(q, k)'
  BY <1>3 DEF TickPass, TickMove, DispatchCreate, DispatchClaim, Ask, CancelRequest,
        CancelQueued, AcquireLease, ClaimTask, SpawnWorker
<1>4. ASSUME NEW t \in Task,
             RecordWorker(t) \/ ApplyCancel(t) \/ WorkerStops(t) \/ Publish(t) \/
             Announce(t) \/ Describe(t) \/ Release(t) \/ Heartbeat(t) \/ SupervisorCrash(t) \/
             OrphanExits(t)
      PROVE  ReaperPublishes(q, k)'
  BY <1>4 DEF RecordWorker, ApplyCancel, WorkerStops, Publish, Announce, Describe, Release,
        Heartbeat, SupervisorCrash, OrphanExits
<1>5. ASSUME NEW t \in Task,
             Age(t) \/ LeaseExpires(t) \/ BecomesDue(t)
      PROVE  ReaperPublishes(q, k)'
  BY <1>5 DEF Age, LeaseExpires, BecomesDue
<1>6. ASSUME NEW r \in Reaper, ReapLease(r)
      PROVE  ReaperPublishes(q, k)'
  <2>1. CASE StopReaping(r)
    BY <1>6, <2>1, <1>r, ReaperEffect DEF ReapLease
  <2>2. ASSUME NEW place \in {"publish", "identity"},
               reaper' = [reaper EXCEPT ![r].at = place,
                                        ![r].lease = lease[reaper[r].task]]
        PROVE  ReaperPublishes(q, k)'
    BY <2>2, <1>r, ReaperEffect
  <2> QED BY <1>6, <2>1, <2>2 DEF ReapLease
<1>7. ASSUME NEW r \in Reaper, ReapIdentity(r)
      PROVE  ReaperPublishes(q, k)'
  BY <1>7, <1>r, ReaperEffect DEF ReapIdentity
<1>8. ASSUME NEW r \in Reaper, ReapPublish(r)
      PROVE  ReaperPublishes(q, k)'
  <2>1. CASE q # r \/ reaper[r].task # k
    BY <1>8, <2>1, <1>r, ReaperEffect DEF ReapPublish
  <2>2. CASE q = r /\ reaper[r].task = k
    <3>1. result'[k] # "none"
      BY <1>8, <2>2, <1>r, ResultEffect DEF ReapPublish
    <3>2. reaper'[r].at = "event"
      BY <1>8, <1>r, ReaperEffect DEF ReapPublish
    <3> QED BY <2>2, <3>1, <3>2 DEF ReaperPublishes
  <2> QED BY <2>1, <2>2
<1>9. ASSUME NEW r \in Reaper, ReapAnnounce(r)
      PROVE  ReaperPublishes(q, k)'
  <2>1. CASE q # r \/ reaper[r].task # k
    BY <1>9, <2>1, <1>r, ReaperEffect DEF ReapAnnounce
  <2>2. CASE q = r /\ reaper[r].task = k /\ reaper[r].at = "event"
    <3>1. event'[k] = result[k] /\ result' = result
      BY <1>9, <2>2, <1>r, EventEffect DEF ReapAnnounce
    <3>2. reaper'[r].at = "signal"
      BY <1>9, <2>2, <1>r, ReaperEffect DEF ReapAnnounce
    <3> QED BY <1>o, <2>2, <3>1, <3>2 DEF ReaperPublishes
  <2>3. CASE q = r /\ reaper[r].task = k /\ reaper[r].at = "signal"
    <3>1. result[k] # "none" /\ event[k] = result[k]
      BY <1>o, <2>3 DEF ReaperPublishes
    <3>2. PICK verdict \in {result[k], "failed"} : PublishSignal(k, verdict)
      BY <1>9, <2>3 DEF ReapAnnounce
    <3>3. Told(k)'
      BY <3>1, <3>2, <1>r, ToldByPublishSignal
    <3>4. reaper'[r].at = "describe"
      BY <1>9, <2>3, <1>r, ReaperEffect DEF ReapAnnounce
    <3> QED BY <2>3, <3>3, <3>4 DEF ReaperPublishes
  <2> QED BY <1>9, <2>1, <2>2, <2>3 DEF ReapAnnounce
<1>10. ASSUME NEW r \in Reaper, ReapDescribe(r)
      PROVE  ReaperPublishes(q, k)'
  <2>1. CASE q # r \/ reaper[r].task # k
    BY <1>10, <2>1, <1>r, ReaperEffect DEF ReapDescribe
  <2>2. CASE q = r /\ reaper[r].task = k
    <3>1. Told(k)' /\ reaper'[r].at = "release"
      BY <1>10, <2>2, <1>g, <1>o, <1>r, ReaperEffect DEF ReapDescribe, ReaperPublishes
    <3> QED BY <2>2, <3>1 DEF ReaperPublishes
  <2> QED BY <2>1, <2>2
<1>11. ASSUME NEW r \in Reaper, ReapRelease(r)
      PROVE  ReaperPublishes(q, k)'
  BY <1>11, <1>r, ReaperEffect DEF ReapRelease
<1>12. ASSUME NEW r \in Reaper, ReaperCrash(r)
      PROVE  ReaperPublishes(q, k)'
  BY <1>12, <1>r, ReaperEffect DEF ReaperCrash
<1>13. ASSUME NEW r \in Reaper, NEW t \in Task, ReapSee(r, t)
      PROVE  ReaperPublishes(q, k)'
  <2>1. /\ \A p \in Reaper : p # r => reaper'[p] = reaper[p]
        /\ reaper'[r].at = "lease"
    BY <1>13, <1>r DEF ReapSee, ReaperOK
  <2> QED BY <2>1
<1>14. CASE UNCHANGED taskVars
  BY <1>14 DEF taskVars
<1> QED
  BY <1>1, <1>2, <1>3, <1>4, <1>5, <1>6, <1>7, <1>8, <1>9, <1>10, <1>11, <1>12, <1>13,
     <1>14
  DEF Next, LockedStep, DispatchStep, TickStep, CancelStep, SupervisorStep, ReapStep

\* A descriptor turns terminal when everything is told, and with the status that is told.
LEMMA TerminalStep ==
  ASSUME Shape, PublicationFollows, Next, NEW k \in Task
  PROVE  Finished(k)' => Told(k)' /\ status'[k] = result'[k]
<1>g. /\ result[k] # "none" => result'[k] = result[k]
      /\ event[k] # "none" => event'[k] = event[k]
      /\ Told(k) => Told(k)'
  BY RecordsGrow, ToldStays
<1>a. AdmissionOK /\ (admission.at \notin Idle => admission.task \in Task)
  BY DEF Shape, Rows
<1>r. /\ ReaperOK /\ SupervisorOK /\ FilesOK
      /\ \A t \in Task : supervisor[t].verdict # "none"
      /\ \A r \in Reaper : reaper[r].at # "idle" => reaper[r].task \in Task
  BY DEF Shape, Rows
<1>s. status \in [Task -> {"none", "created", "queued"} \cup Active \cup TerminalStatuses]
  BY <1>r DEF FilesOK
<1> DEFINE Backed == Finished(k)' => Told(k)' /\ status'[k] = result'[k]
<1> SUFFICES Backed
  OBVIOUS
<1>u. status'[k] = status[k] => Backed
  BY <1>g DEF PublicationFollows, Told
<1>v. status'[k] \notin TerminalStatuses => Backed
  OBVIOUS
<1>w. Told(k) /\ status'[k] = result[k] => Backed
  BY <1>g DEF Told
<1> HIDE DEF Backed
<1> USE <1>u, <1>v, <1>w, <1>s
<1>1. CASE DispatchDescribe
  BY <1>1, <1>a DEF DispatchDescribe
<1>2. CASE DispatchEnqueue \/ DispatchSpawn \/ TickRequeue \/ TickEnd \/ CancelPublish \/
           CancelAnnounce \/ TickBegin \/ AdmissionCrash
  BY <1>2 DEF DispatchEnqueue, DispatchSpawn, TickRequeue, TickEnd, CancelPublish,
        CancelAnnounce, TickBegin, AdmissionCrash
<1>3. CASE DispatchStart
  BY <1>3, <1>a DEF DispatchStart
<1>4. CASE TickStart
  BY <1>4, <1>a DEF TickStart
<1>5. CASE TickSpawn
  BY <1>5, <1>a DEF TickSpawn
<1>6. CASE CancelEnd
  <2>1. admission.at = "ending" /\ admission.task = k => Told(k) /\ result[k] = "cancelled"
    BY DEF PublicationFollows, CancellerPublishes
  <2> QED BY <1>6, <2>1, <1>a DEF CancelEnd, Unstarted
<1>7. ASSUME NEW t \in Task,
             TickPass(t) \/ TickMove(t) \/ DispatchCreate(t) \/ DispatchClaim(t) \/ Ask(t) \/
             CancelRequest(t) \/ CancelQueued(t) \/ AcquireLease(t) \/ ClaimTask(t) \/
             SpawnWorker(t)
      PROVE  Backed
  BY <1>7 DEF TickPass, TickMove, DispatchCreate, DispatchClaim, Ask, CancelRequest,
        CancelQueued, AcquireLease, ClaimTask, SpawnWorker
<1>8. ASSUME NEW t \in Task,
             RecordWorker(t) \/ ApplyCancel(t) \/ WorkerStops(t) \/ Publish(t) \/
             Announce(t) \/ Release(t) \/ Heartbeat(t) \/ SupervisorCrash(t) \/
             OrphanExits(t) \/ Age(t)
      PROVE  Backed
  BY <1>8 DEF RecordWorker, ApplyCancel, WorkerStops, Publish, Announce, Release, Heartbeat,
        SupervisorCrash, OrphanExits, Age
<1>9. ASSUME NEW t \in Task, Describe(t)
      PROVE  Backed
  <2>1. Told(t)
    BY <1>9 DEF Describe, PublicationFollows, SupervisorPublishes
  <2> QED BY <1>9, <2>1 DEF Describe
<1>10. ASSUME NEW t \in Task,
              LeaseExpires(t) \/ BecomesDue(t)
       PROVE  Backed
  BY <1>10 DEF LeaseExpires, BecomesDue
<1>11. ASSUME NEW r \in Reaper,
              ReapLease(r) \/ ReapIdentity(r) \/ ReapPublish(r) \/ ReapAnnounce(r) \/
              ReapRelease(r) \/ ReaperCrash(r)
       PROVE  Backed
  BY <1>11 DEF ReapLease, ReapIdentity, ReapPublish, ReapAnnounce, ReapRelease, ReaperCrash
<1>12. ASSUME NEW r \in Reaper, ReapDescribe(r)
      PROVE  Backed
  <2>1. reaper[r].task \in Task
    BY <1>12, <1>r DEF ReapDescribe
  <2>2. reaper[r].task = k => Told(k)
    BY <1>12, <2>1 DEF ReapDescribe, PublicationFollows, ReaperPublishes
  <2> QED BY <1>12, <2>1, <2>2 DEF ReapDescribe
<1>13. ASSUME NEW r \in Reaper, NEW t \in Task, ReapSee(r, t)
      PROVE  Backed
  BY <1>13 DEF ReapSee
<1>14. CASE UNCHANGED taskVars
  BY <1>14 DEF taskVars
<1> QED
  BY <1>1, <1>2, <1>3, <1>4, <1>5, <1>6, <1>7, <1>8, <1>9, <1>10, <1>11, <1>12, <1>13,
     <1>14
  DEF Next, LockedStep, DispatchStep, TickStep, CancelStep, SupervisorStep, ReapStep

LEMMA PublicationStep ==
  ASSUME Shape, PublicationFollows, Next
  PROVE  PublicationFollows'
<1> SUFFICES ASSUME NEW k \in Task
             PROVE  /\ event'[k] \in {"none", result'[k]}
                    /\ Finished(k)' => Told(k)' /\ status'[k] = result'[k]
                    /\ SupervisorPublishes(k)'
                    /\ CancellerPublishes(k)'
                    /\ \A r \in Reaper : ReaperPublishes(r, k)'
  BY DEF PublicationFollows
<1>1. event'[k] \in {"none", result'[k]}
  <2>1. event[k] \in {"none", result[k]}
    BY DEF PublicationFollows
  <2>2. /\ result[k] # "none" => result'[k] = result[k]
        /\ event'[k] \in {event[k], result'[k]}
    BY RecordsGrow
  <2> QED BY <2>1, <2>2
<1>2. Finished(k)' => Told(k)' /\ status'[k] = result'[k]
  BY TerminalStep
<1>3. SupervisorPublishes(k)'
  BY SupervisorPublishesStep
<1>4. CancellerPublishes(k)'
  BY CancellerPublishesStep
<1>5. \A r \in Reaper : ReaperPublishes(r, k)'
  BY ReaperPublishesStep
<1> QED BY <1>1, <1>2, <1>3, <1>4, <1>5

\* Nobody is unspawned.
LEMMA SpawnedStays ==
  ASSUME Shape, Next, NEW k \in Task, supervisor[k].at # "none"
  PROVE  supervisor'[k].at # "none"
<1>r. SupervisorOK /\ (admission.at \notin Idle => admission.task \in Task)
  BY DEF Shape, Rows
<1> DEFINE Stays == supervisor'[k].at # "none"
<1> SUFFICES Stays
  OBVIOUS
<1>u. supervisor'[k] = supervisor[k] => Stays
  OBVIOUS
<1>v. ASSUME NEW t \in Task, NEW place \in SupervisorPlaces \ {"none"}, SupervisorGo(t, place)
      PROVE  Stays
  BY <1>v, <1>r, SupervisorEffect
<1>w. ASSUME NEW t \in Task, NEW verdict, Ended(t, verdict)
      PROVE  Stays
  BY <1>w, <1>r, SupervisorEffect
<1>x. ASSUME NEW t \in Task, supervisor' = [supervisor EXCEPT ![t] = Spawned]
      PROVE  Stays
  BY <1>x, <1>r, SupervisorEffect
<1> HIDE DEF Stays
<1> USE <1>r, <1>u, <1>v, <1>w, <1>x DEF SupervisorPlaces
<1>1. CASE DispatchDescribe \/ DispatchEnqueue \/ DispatchStart \/ DispatchSpawn \/
           TickStart \/ TickSpawn \/ TickRequeue \/ TickEnd \/ CancelPublish \/ CancelAnnounce
  BY <1>1 DEF DispatchDescribe, DispatchEnqueue, DispatchStart, DispatchSpawn, TickStart,
        TickSpawn, TickRequeue, TickEnd, CancelPublish, CancelAnnounce
<1>2. CASE CancelEnd \/ TickBegin \/ AdmissionCrash
  BY <1>2 DEF CancelEnd, TickBegin, AdmissionCrash
<1>3. ASSUME NEW t \in Task,
             TickPass(t) \/ TickMove(t) \/ DispatchCreate(t) \/ DispatchClaim(t) \/ Ask(t) \/
             CancelRequest(t) \/ CancelQueued(t) \/ AcquireLease(t) \/ ClaimTask(t) \/
             SpawnWorker(t)
      PROVE  Stays
  BY <1>3 DEF TickPass, TickMove, DispatchCreate, DispatchClaim, Ask, CancelRequest,
        CancelQueued, AcquireLease, ClaimTask, SpawnWorker
<1>4. ASSUME NEW t \in Task,
             RecordWorker(t) \/ ApplyCancel(t) \/ WorkerStops(t) \/ Publish(t) \/
             Announce(t) \/ Describe(t) \/ Release(t) \/ Heartbeat(t) \/ SupervisorCrash(t) \/
             OrphanExits(t)
      PROVE  Stays
  BY <1>4 DEF RecordWorker, ApplyCancel, WorkerStops, Publish, Announce, Describe, Release,
        Heartbeat, SupervisorCrash, OrphanExits
<1>5. ASSUME NEW t \in Task,
             Age(t) \/ LeaseExpires(t) \/ BecomesDue(t)
      PROVE  Stays
  BY <1>5 DEF Age, LeaseExpires, BecomesDue
<1>6. ASSUME NEW r \in Reaper,
             ReapLease(r) \/ ReapIdentity(r) \/ ReapPublish(r) \/ ReapAnnounce(r) \/
             ReapDescribe(r) \/ ReapRelease(r) \/ ReaperCrash(r)
      PROVE  Stays
  BY <1>6 DEF ReapLease, ReapIdentity, ReapPublish, ReapAnnounce, ReapDescribe, ReapRelease,
        ReaperCrash
<1>7. ASSUME NEW r \in Reaper, NEW t \in Task, ReapSee(r, t)
      PROVE  Stays
  BY <1>7 DEF ReapSee
<1>8. CASE UNCHANGED taskVars
  BY <1>8 DEF taskVars
<1> QED
  BY <1>1, <1>2, <1>3, <1>4, <1>5, <1>6, <1>7, <1>8
  DEF Next, LockedStep, DispatchStep, TickStep, CancelStep, SupervisorStep, ReapStep

\* Where a result comes from: its supervisor, a cancellation under the admission lock, or
\* a reaper.
LEMMA ResultSources ==
  ASSUME Shape, PublicationFollows, Next, NEW k \in Task, result'[k] # result[k]
  PROVE  /\ result[k] = "none"
         /\ \/ SupervisorAt(k, "ended")
            \/ /\ admission.task = k /\ admission.at = "cancelling" /\ result'[k] = "cancelled"
               /\ UNCHANGED <<status, entry>>
            \/ result'[k] = "failed"
<1> DEFINE Source ==
         /\ result[k] = "none"
         /\ \/ SupervisorAt(k, "ended")
            \/ /\ admission.task = k /\ admission.at = "cancelling" /\ result'[k] = "cancelled"
               /\ UNCHANGED <<status, entry>>
            \/ result'[k] = "failed"
<1> SUFFICES Source
  OBVIOUS
<1>r. /\ FilesOK /\ (admission.at \notin Idle => admission.task \in Task)
      /\ \A r \in Reaper : reaper[r].at # "idle" => reaper[r].task \in Task
  BY DEF Shape, Rows
<1>g. result[k] = "none"
  BY RecordsGrow
<1>u. result' # result
  OBVIOUS
<1> HIDE DEF Source
<1> USE <1>r, <1>u
<1>1. CASE DispatchDescribe \/ DispatchEnqueue \/ DispatchStart \/ DispatchSpawn \/
           TickStart \/ TickSpawn \/ TickRequeue \/ TickEnd \/ CancelEnd \/ TickBegin
  BY <1>1 DEF DispatchDescribe, DispatchEnqueue, DispatchStart, DispatchSpawn, TickStart,
        TickSpawn, TickRequeue, TickEnd, CancelEnd, TickBegin
<1>2. CASE CancelPublish
  BY <1>2, <1>g, ResultEffect DEF CancelPublish, Unstarted, Source
<1>3. CASE CancelAnnounce
  BY <1>3 DEF CancelAnnounce, PublishEvent, PublishSignal
<1>4. CASE AdmissionCrash
  BY <1>4 DEF AdmissionCrash
<1>5. ASSUME NEW t \in Task,
             TickPass(t) \/ TickMove(t) \/ DispatchCreate(t) \/ DispatchClaim(t) \/ Ask(t) \/
             CancelRequest(t) \/ CancelQueued(t) \/ AcquireLease(t) \/ ClaimTask(t) \/
             SpawnWorker(t)
      PROVE  Source
  BY <1>5 DEF TickPass, TickMove, DispatchCreate, DispatchClaim, Ask, CancelRequest,
        CancelQueued, AcquireLease, ClaimTask, SpawnWorker
<1>6. ASSUME NEW t \in Task,
             RecordWorker(t) \/ ApplyCancel(t) \/ WorkerStops(t) \/ Describe(t) \/
             Release(t) \/ Heartbeat(t) \/ SupervisorCrash(t) \/ OrphanExits(t) \/ Age(t) \/
             LeaseExpires(t)
      PROVE  Source
  BY <1>6 DEF RecordWorker, ApplyCancel, WorkerStops, Describe, Release, Heartbeat,
        SupervisorCrash, OrphanExits, Age, LeaseExpires
<1>7. ASSUME NEW t \in Task, Publish(t)
      PROVE  Source
  BY <1>7, <1>g, ResultEffect DEF Publish, Source
<1>8. ASSUME NEW t \in Task, Announce(t)
      PROVE  Source
  BY <1>8 DEF Announce, PublishEvent, PublishSignal
<1>9. ASSUME NEW t \in Task, BecomesDue(t)
      PROVE  Source
  BY <1>9 DEF BecomesDue
<1>10. ASSUME NEW r \in Reaper,
              ReapLease(r) \/ ReapIdentity(r) \/ ReapDescribe(r) \/ ReapRelease(r) \/
              ReaperCrash(r)
       PROVE  Source
  BY <1>10 DEF ReapLease, ReapIdentity, ReapDescribe, ReapRelease, ReaperCrash
<1>11. ASSUME NEW r \in Reaper, ReapPublish(r)
      PROVE  Source
  BY <1>11, <1>g, ResultEffect DEF ReapPublish, Source
<1>12. ASSUME NEW r \in Reaper, ReapAnnounce(r)
      PROVE  Source
  BY <1>12 DEF ReapAnnounce, PublishEvent, PublishSignal
<1>13. ASSUME NEW r \in Reaper, NEW t \in Task, ReapSee(r, t)
      PROVE  Source
  BY <1>13 DEF ReapSee
<1>14. CASE UNCHANGED taskVars
  BY <1>14 DEF taskVars
<1> QED
  BY <1>1, <1>2, <1>3, <1>4, <1>5, <1>6, <1>7, <1>8, <1>9, <1>10, <1>11, <1>12, <1>13,
     <1>14
  DEF Next, LockedStep, DispatchStep, TickStep, CancelStep, SupervisorStep, ReapStep

LEMMA CancelledStep ==
  ASSUME Shape, DescriptorFollows, StartedOnce, PublicationFollows, CancelledIsOut, Next,
         NEW k \in Task
  PROVE  OutOfQueue(k)'
<1>a. AdmissionOK /\ (admission.at \notin Idle => admission.task \in Task)
  BY DEF Shape, Rows
<1>r. /\ FilesOK /\ \A r \in Reaper : reaper[r].at # "idle" => reaper[r].task \in Task
      /\ admission.todo \subseteq Task
  BY DEF Shape, Rows, AdmissionOK, AdmissionRecords
<1>f. /\ status \in [Task -> {"none", "created", "queued"} \cup Active \cup TerminalStatuses]
      /\ entry \in [Task -> {"none", "pending", "admitted", "cancelled"}]
  BY <1>r DEF FilesOK
<1>o. OutOfQueue(k) /\ (admission.at = "free" => admission.todo = {})
  BY <1>a DEF CancelledIsOut, AdmissionOK
<1>d. /\ SupervisorAt(k, "announced") => result[k] \in TerminalStatuses
      /\ \A r \in Reaper : reaper[r].at = "describe" /\ reaper[r].task = k =>
           result[k] \in TerminalStatuses
  BY DescribedStatus, <1>r
<1>c. admission.task = k /\ admission.at = "cancelling" =>
        status[k] \in {"queued"} \cup TerminalStatuses
  BY DEF DescriptorFollows, Shows
<1>u. /\ Unspawned(k)' => supervisor[k].at = "none"
      /\ Unspawned(k)' =>
           \/ Unspawned(k)
           \/ /\ admission.task = k /\ admission.at = "cancelling"
              /\ UNCHANGED <<status, entry>>
  BY SpawnedStays, ResultSources DEF Unspawned
<1> USE NoTaskAssumption, <1>a, <1>f, <1>o, <1>u, <1>c
    DEF OutOfQueue, AdmissionPlaces
<1>1. CASE DispatchDescribe
  BY <1>1, GotoTyped DEF DispatchDescribe
<1>2. CASE DispatchEnqueue
  BY <1>2, UnlockTyped DEF DispatchEnqueue
<1>3. CASE DispatchStart
  BY <1>3, GotoTyped DEF DispatchStart
<1>4. CASE DispatchSpawn
  BY <1>4, UnlockTyped DEF DispatchSpawn
<1>5. CASE TickStart
  BY <1>5, GotoTyped DEF TickStart
<1>6. CASE TickSpawn
  BY <1>6, GotoTyped DEF TickSpawn
<1>7. CASE TickRequeue
  BY <1>7, GotoTyped DEF TickRequeue
<1>8. CASE TickEnd
  BY <1>8, UnlockTyped DEF TickEnd
<1>9. CASE CancelPublish
  BY <1>9, GotoTyped, UnlockTyped DEF CancelPublish, Unstarted
<1>10. CASE CancelAnnounce
  BY <1>10, GotoTyped DEF CancelAnnounce
<1>11. CASE CancelEnd
  BY <1>11, GotoTyped, UnlockTyped DEF CancelEnd, Unstarted
<1>12. CASE TickBegin
  BY <1>12, TodoTyped DEF TickBegin
<1>13. CASE AdmissionCrash
  BY <1>13, UnlockTyped DEF AdmissionCrash
<1>14. ASSUME NEW t \in Task, TickPass(t)
      PROVE  OutOfQueue(k)'
  BY <1>14, ConsideredTyped DEF TickPass
<1>15. ASSUME NEW t \in Task, TickMove(t)
      PROVE  OutOfQueue(k)'
  <2>1. admission.todo \ {t} \in SUBSET Task
    BY DEF AdmissionOK, AdmissionRecords
  <2> QED BY <1>15, <2>1, TodoTyped DEF TickMove, NextEntry
<1>16. ASSUME NEW t \in Task,
              DispatchCreate(t) \/ Ask(t) \/ CancelRequest(t) \/ AcquireLease(t) \/
              ClaimTask(t) \/ SpawnWorker(t) \/ RecordWorker(t) \/ ApplyCancel(t) \/
              WorkerStops(t) \/ Publish(t)
       PROVE  OutOfQueue(k)'
  BY <1>16 DEF DispatchCreate, Ask, CancelRequest, AcquireLease, ClaimTask, SpawnWorker,
        RecordWorker, ApplyCancel, WorkerStops, Publish
<1>17. ASSUME NEW t \in Task, DispatchClaim(t)
      PROVE  OutOfQueue(k)'
  BY <1>17, GotoTyped DEF DispatchClaim
<1>18. ASSUME NEW t \in Task, CancelQueued(t)
      PROVE  OutOfQueue(k)'
  BY <1>18, GotoTyped DEF CancelQueued
<1>19. ASSUME NEW t \in Task,
              Announce(t) \/ Release(t) \/ Heartbeat(t) \/ SupervisorCrash(t) \/
              OrphanExits(t) \/ Age(t) \/ LeaseExpires(t) \/ BecomesDue(t)
       PROVE  OutOfQueue(k)'
  BY <1>19 DEF Announce, Release, Heartbeat, SupervisorCrash, OrphanExits, Age, LeaseExpires,
        BecomesDue
<1>20. ASSUME NEW t \in Task, Describe(t)
      PROVE  OutOfQueue(k)'
  BY <1>20, <1>d DEF Describe
<1>21. ASSUME NEW r \in Reaper,
              ReapLease(r) \/ ReapIdentity(r) \/ ReapPublish(r) \/ ReapAnnounce(r) \/
              ReapRelease(r) \/ ReaperCrash(r)
       PROVE  OutOfQueue(k)'
  BY <1>21 DEF ReapLease, ReapIdentity, ReapPublish, ReapAnnounce, ReapRelease, ReaperCrash
<1>22. ASSUME NEW r \in Reaper, ReapDescribe(r)
      PROVE  OutOfQueue(k)'
  BY <1>22, <1>d, <1>r DEF ReapDescribe
<1>23. ASSUME NEW r \in Reaper, NEW t \in Task, ReapSee(r, t)
      PROVE  OutOfQueue(k)'
  BY <1>23 DEF ReapSee
<1>24. CASE UNCHANGED taskVars
  BY <1>24 DEF taskVars
<1> QED
  BY <1>1, <1>2, <1>3, <1>4, <1>5, <1>6, <1>7, <1>8, <1>9, <1>10, <1>11, <1>12, <1>13,
     <1>14, <1>15, <1>16, <1>17, <1>18, <1>19, <1>20, <1>21, <1>22, <1>23, <1>24
  DEF Next, LockedStep, DispatchStep, TickStep, CancelStep, SupervisorStep, ReapStep

-----------------------------------------------------------------------------
LEMMA TaskInvInit ==
  ASSUME Init
  PROVE  TaskInv
<1>1. FilesOK
  BY EmptyRecords, MaxFaultsAssumption, NotBeforeAssumption DEF Init, FilesOK
<1>2. TypeOK
  BY <1>1, EmptyRecords DEF Init, TypeOK
<1>3. NamesTask
  BY EmptyRecords DEF Init, NamesTask, NoAdmission
<1>4. DescriptorFollows
  BY DEF Init, DescriptorFollows, Shows, NoAdmission
<1>5. StartedOnce
  BY EmptyRecords DEF Init, StartedOnce
<1>6. PublicationFollows
  BY NoTaskAssumption, EmptyRecords
  DEF Init, PublicationFollows, SupervisorPublishes, CancellerPublishes, ReaperPublishes,
      NoAdmission, NoReap
<1>7. CancelledIsOut
  BY NoTaskAssumption DEF Init, CancelledIsOut, OutOfQueue, Unspawned, NoAdmission
<1> QED BY <1>2, <1>3, <1>4, <1>5, <1>6, <1>7 DEF TaskInv

LEMMA TaskInvStep ==
  ASSUME TaskInv, Next
  PROVE  TaskInv'
<1>1. Shape
  BY ShapeFollows DEF TaskInv
<1>2. FilesOK' /\ AdmissionOK' /\ SupervisorOK' /\ ReaperOK'
  BY <1>1, FilesStep, AdmissionStep, SupervisorStepTyped, ReaperStepTyped DEF Shape
<1>3. TypeOK' /\ NamesTask'
  BY <1>2 DEF TypeOK, NamesTask, AdmissionOK, SupervisorOK, ReaperOK
<1>4. DescriptorFollows'
  BY <1>1, DescriptorStep DEF TaskInv
<1>5. StartedOnce'
  BY <1>1, StartedStep DEF TaskInv
<1>6. PublicationFollows'
  BY <1>1, PublicationStep DEF TaskInv
<1>7. CancelledIsOut'
  BY <1>1, CancelledStep DEF TaskInv, CancelledIsOut
<1> QED BY <1>3, <1>4, <1>5, <1>6, <1>7 DEF TaskInv

LEMMA TaskInvStutter ==
  ASSUME TaskInv, UNCHANGED taskVars
  PROVE  TaskInv'
BY DEF TaskInv, taskVars, TypeOK, FilesOK, NamesTask, DescriptorFollows, Shows, StartedOnce,
       PublicationFollows, SupervisorPublishes, CancellerPublishes, ReaperPublishes, Told,
       CancelledIsOut, OutOfQueue, Unspawned

\* What tasks do, whoever looks at them.
TaskSpec == Init /\ [][Next]_taskVars

\* Looks take nothing from what a task does, nor is there any need to look.
LEMMA WaitsOnlyLook == (Spec => TaskSpec) /\ (WaitSpec => TaskSpec)
<1>1. [Next]_vars => [Next]_taskVars
  BY DEF vars
<1>2. [WaitNext]_vars => [Next]_taskVars
  BY DEF WaitNext, vars, Looks, LookDescriptor, LookResult, LookHealth
<1> QED BY <1>1, <1>2, PTL DEF Spec, WaitSpec, TaskSpec

\* The invariant of worker tasks, whatever dies and however late anybody is.
THEOREM TaskInvariant == TaskSpec => []TaskInv
<1>1. Init => TaskInv
  BY TaskInvInit
<1>2. TaskInv /\ [Next]_taskVars => TaskInv'
  BY TaskInvStep, TaskInvStutter
<1> QED BY <1>1, <1>2, PTL DEF TaskSpec

\* Only whoever dispatches or admits a task spawns its supervisor.
LEMMA SpawnSources ==
  ASSUME Shape, Next, NEW k \in Task, supervisor[k].at = "none"
  PROVE  \/ supervisor'[k] = supervisor[k]
         \/ admission.task = k /\ admission.at \in {"dispatching", "admitting"}
<1>r. SupervisorOK /\ (admission.at \notin Idle => admission.task \in Task)
  BY DEF Shape, Rows
<1> DEFINE Source == \/ supervisor'[k] = supervisor[k]
                     \/ admission.task = k /\ admission.at \in {"dispatching", "admitting"}
<1> SUFFICES Source
  OBVIOUS
<1>u. supervisor' = supervisor => Source
  OBVIOUS
<1>v. ASSUME NEW t \in Task, supervisor[t].at # "none",
             \/ \E place : SupervisorGo(t, place)
             \/ \E verdict : Ended(t, verdict)
      PROVE  Source
  BY <1>v, <1>r, SupervisorEffect
<1>w. ASSUME admission.at \in {"dispatching", "admitting"},
             supervisor' = [supervisor EXCEPT ![admission.task] = Spawned]
      PROVE  Source
  BY <1>w, <1>r, SupervisorEffect
<1> HIDE DEF Source
<1> USE <1>u, <1>v, <1>w
<1>1. CASE DispatchDescribe \/ DispatchEnqueue \/ DispatchStart \/ DispatchSpawn \/
           TickStart \/ TickSpawn \/ TickRequeue \/ TickEnd \/ CancelPublish \/ CancelAnnounce
  BY <1>1 DEF DispatchDescribe, DispatchEnqueue, DispatchStart, DispatchSpawn, TickStart,
        TickSpawn, TickRequeue, TickEnd, CancelPublish, CancelAnnounce
<1>2. CASE CancelEnd \/ TickBegin \/ AdmissionCrash
  BY <1>2 DEF CancelEnd, TickBegin, AdmissionCrash
<1>3. ASSUME NEW t \in Task,
             TickPass(t) \/ TickMove(t) \/ DispatchCreate(t) \/ DispatchClaim(t) \/ Ask(t) \/
             CancelRequest(t) \/ CancelQueued(t) \/ AcquireLease(t) \/ ClaimTask(t) \/
             SpawnWorker(t)
      PROVE  Source
  BY <1>3 DEF TickPass, TickMove, DispatchCreate, DispatchClaim, Ask, CancelRequest,
        CancelQueued, AcquireLease, ClaimTask, SpawnWorker
<1>4. ASSUME NEW t \in Task,
             RecordWorker(t) \/ ApplyCancel(t) \/ WorkerStops(t) \/ Publish(t) \/
             Announce(t) \/ Describe(t) \/ Release(t) \/ Heartbeat(t) \/ SupervisorCrash(t) \/
             OrphanExits(t)
      PROVE  Source
  BY <1>4 DEF RecordWorker, ApplyCancel, WorkerStops, Publish, Announce, Describe, Release,
        Heartbeat, SupervisorCrash, OrphanExits
<1>5. ASSUME NEW t \in Task,
             Age(t) \/ LeaseExpires(t) \/ BecomesDue(t)
      PROVE  Source
  BY <1>5 DEF Age, LeaseExpires, BecomesDue
<1>6. ASSUME NEW r \in Reaper,
             ReapLease(r) \/ ReapIdentity(r) \/ ReapPublish(r) \/ ReapAnnounce(r) \/
             ReapDescribe(r) \/ ReapRelease(r) \/ ReaperCrash(r)
      PROVE  Source
  BY <1>6 DEF ReapLease, ReapIdentity, ReapPublish, ReapAnnounce, ReapDescribe, ReapRelease,
        ReaperCrash
<1>7. ASSUME NEW r \in Reaper, NEW t \in Task, ReapSee(r, t)
      PROVE  Source
  BY <1>7 DEF ReapSee
<1>8. CASE UNCHANGED taskVars
  BY <1>8 DEF taskVars
<1> QED
  BY <1>1, <1>2, <1>3, <1>4, <1>5, <1>6, <1>7, <1>8
  DEF Next, LockedStep, DispatchStep, TickStep, CancelStep, SupervisorStep, ReapStep

\* A task cancelled before it had a supervisor never runs, although the process that
\* cancels may die at any point (cancel_worker_task).
THEOREM CancelledTasksNeverRun == WaitSpec => CancelledNeverRuns
<1> SUFFICES ASSUME NEW t \in Task
             PROVE  WaitSpec => [](result[t] = "cancelled" /\ supervisor[t].at = "none"
                                 => [](t \notin worker))
  BY DEF CancelledNeverRuns
<1>1. ASSUME TaskInv, Next, Unspawned(t)
      PROVE  Unspawned(t)'
  <2>1. Shape /\ PublicationFollows
    BY <1>1, ShapeFollows DEF TaskInv
  <2>2. result'[t] = "cancelled"
    BY <1>1, <2>1, RecordsGrow DEF Unspawned
  <2>3. admission.task = t => admission.at \in Cancelling
    BY <1>1 DEF TaskInv, CancelledIsOut, OutOfQueue
  <2>4. supervisor'[t] = supervisor[t]
    BY <1>1, <2>1, <2>3, SpawnSources DEF Unspawned
  <2> QED BY <1>1, <2>2, <2>4 DEF Unspawned
<1>2. TaskInv /\ [Next]_taskVars /\ Unspawned(t) => Unspawned(t)'
  BY <1>1 DEF taskVars, Unspawned
<1>3. TaskInv /\ Unspawned(t) => t \notin worker
  BY DEF TaskInv, StartedOnce, Unspawned
<1>4. result[t] = "cancelled" /\ supervisor[t].at = "none" <=> Unspawned(t)
  BY DEF Unspawned
<1> QED BY <1>2, <1>3, <1>4, WaitsOnlyLook, TaskInvariant, PTL DEF TaskSpec

-----------------------------------------------------------------------------
\* Orphans stay orphans.
LEMMA GoneStays ==
  ASSUME Shape, StartedOnce, Next, NEW k \in Task, supervisor[k].at = "gone"
  PROVE  supervisor'[k].at = "gone"
<1>r. SupervisorOK /\ (admission.at \notin Idle => admission.task \in Task)
  BY DEF Shape, Rows
<1>s. admission.task # k
  BY DEF StartedOnce
<1> DEFINE Stays == supervisor'[k].at = "gone"
<1> SUFFICES Stays
  OBVIOUS
<1>u. supervisor' = supervisor => Stays
  OBVIOUS
<1>v. ASSUME NEW t \in Task, t # k \/ supervisor'[t].at = "gone",
             \/ \E place : SupervisorGo(t, place)
             \/ \E verdict : Ended(t, verdict)
      PROVE  Stays
  BY <1>v, <1>r, SupervisorEffect
<1>w. ASSUME admission.at \notin Idle, supervisor' = [supervisor EXCEPT ![admission.task] = Spawned]
      PROVE  Stays
  BY <1>w, <1>r, <1>s, SupervisorEffect
<1> HIDE DEF Stays
<1> USE <1>u, <1>v, <1>w
<1>1. CASE DispatchDescribe \/ DispatchEnqueue \/ DispatchStart \/ DispatchSpawn \/
           TickStart \/ TickSpawn \/ TickRequeue \/ TickEnd \/ CancelPublish \/ CancelAnnounce
  BY <1>1 DEF DispatchDescribe, DispatchEnqueue, DispatchStart, DispatchSpawn, TickStart,
        TickSpawn, TickRequeue, TickEnd, CancelPublish, CancelAnnounce
<1>2. CASE CancelEnd \/ TickBegin \/ AdmissionCrash
  BY <1>2 DEF CancelEnd, TickBegin, AdmissionCrash
<1>3. ASSUME NEW t \in Task,
             TickPass(t) \/ TickMove(t) \/ DispatchCreate(t) \/ DispatchClaim(t) \/ Ask(t) \/
             CancelRequest(t) \/ CancelQueued(t) \/ AcquireLease(t) \/ ClaimTask(t) \/
             SpawnWorker(t)
      PROVE  Stays
  BY <1>3 DEF TickPass, TickMove, DispatchCreate, DispatchClaim, Ask, CancelRequest,
        CancelQueued, AcquireLease, ClaimTask, SpawnWorker
<1>4. ASSUME NEW t \in Task,
             RecordWorker(t) \/ ApplyCancel(t) \/ WorkerStops(t) \/ Publish(t) \/
             Announce(t) \/ Describe(t) \/ Release(t) \/ Heartbeat(t) \/ SupervisorCrash(t) \/
             OrphanExits(t)
      PROVE  Stays
  BY <1>4 DEF RecordWorker, ApplyCancel, WorkerStops, Publish, Announce, Describe, Release,
        Heartbeat, SupervisorCrash, OrphanExits
<1>5. ASSUME NEW t \in Task,
             Age(t) \/ LeaseExpires(t) \/ BecomesDue(t)
      PROVE  Stays
  BY <1>5 DEF Age, LeaseExpires, BecomesDue
<1>6. ASSUME NEW r \in Reaper,
             ReapLease(r) \/ ReapIdentity(r) \/ ReapPublish(r) \/ ReapAnnounce(r) \/
             ReapDescribe(r) \/ ReapRelease(r) \/ ReaperCrash(r)
      PROVE  Stays
  BY <1>6 DEF ReapLease, ReapIdentity, ReapPublish, ReapAnnounce, ReapDescribe, ReapRelease,
        ReaperCrash
<1>7. ASSUME NEW r \in Reaper, NEW t \in Task, ReapSee(r, t)
      PROVE  Stays
  BY <1>7 DEF ReapSee
<1>8. CASE UNCHANGED taskVars
  BY <1>8 DEF taskVars
<1> QED
  BY <1>1, <1>2, <1>3, <1>4, <1>5, <1>6, <1>7, <1>8
  DEF Next, LockedStep, DispatchStep, TickStep, CancelStep, SupervisorStep, ReapStep

LEMMA OrphanStays ==
  ASSUME TaskInv, InTime, Next, NEW k \in Task, Orphaned(k)
  PROVE  Orphaned(k)'
<1>i. Shape /\ StartedOnce
  BY ShapeFollows DEF TaskInv
<1>1. CASE supervisor[k].at = "gone"
  BY <1>1, <1>i, GoneStays DEF Orphaned
<1>2. CASE supervisor[k].at = "none" /\ k \in aged
  <2>1. admission.task # k
    BY <1>2 DEF InTime, AgedIsStarted
  <2>2. supervisor'[k] = supervisor[k]
    BY <1>2, <1>i, <2>1, SpawnSources
  <2>3. aged \subseteq aged'
    BY ZenonT(40) DEF Next, LockedStep, DispatchStep, TickStep, CancelStep, SupervisorStep, ReapStep,
           DispatchDescribe, DispatchEnqueue, DispatchStart, DispatchSpawn, TickStart,
           TickSpawn, TickRequeue, TickEnd, TickPass, TickMove, TickBegin, CancelPublish,
           CancelAnnounce, CancelEnd, AdmissionCrash, DispatchCreate, DispatchClaim, Ask,
           CancelRequest, CancelQueued, AcquireLease, ClaimTask, SpawnWorker, RecordWorker,
           ApplyCancel, WorkerStops, Publish, Announce, Describe, Release, Heartbeat,
           SupervisorCrash, OrphanExits, Age, LeaseExpires, BecomesDue, ReapLease,
           ReapIdentity, ReapPublish, ReapAnnounce, ReapDescribe, ReapRelease, ReaperCrash,
           ReapSee
  <2> QED BY <1>2, <2>2, <2>3 DEF Orphaned
<1> QED BY <1>1, <1>2 DEF Orphaned

\* A terminal descriptor stays terminal.
LEMMA FinishedStays ==
  ASSUME TaskInv, InTime, Next, NEW k \in Task, Finished(k)
  PROVE  status'[k] = status[k]
<1>i. Shape /\ DescriptorFollows /\ StartedOnce /\ PublicationFollows
  BY ShapeFollows DEF TaskInv
<1>a. AdmissionOK /\ (admission.at \notin Idle => admission.task \in Task)
  BY <1>i DEF Shape, Rows
<1>r. /\ FilesOK /\ ReaperOK /\ SupervisorOK
      /\ \A r \in Reaper : reaper[r].at # "idle" => reaper[r].task \in Task
      /\ admission.todo \in SUBSET Task
  BY <1>i DEF Shape, Rows, AdmissionOK, AdmissionRecords
<1>f. /\ status \in [Task -> {"none", "created", "queued"} \cup Active \cup TerminalStatuses]
      /\ lease \in [Task -> LeaseRecords]
  BY <1>r DEF FilesOK
<1>o. /\ AgedIsStarted(k) /\ LeaseFollows(k) /\ DescriptorIsRight(k)
      /\ \A r \in Reaper : ReapsOrphan(r, k)
  BY DEF InTime
<1>d. /\ SupervisorAt(k, "announced") => result[k] \in TerminalStatuses
      /\ \A r \in Reaper : reaper[r].at = "describe" /\ reaper[r].task = k =>
           result[k] \in TerminalStatuses
  BY DescribedStatus, <1>i, <1>r
<1>s. /\ supervisor[k].at # "none" =>
           status[k] \notin {"none", "created", "queued"} /\ admission.task # k
      /\ supervisor[k].at = "none" => lease[k].state = "none"
      /\ \A r \in Reaper : reaper[r].at = "identity" \/ reaper[r].lease.state # "none" =>
           supervisor[reaper[r].task].at # "none"
  BY <1>i DEF StartedOnce
<1>t. Told(k) /\ status[k] = result[k]
  BY <1>i DEF PublicationFollows
<1> DEFINE Stays == status'[k] = status[k]
<1> SUFFICES Stays
  OBVIOUS
<1>u. UNCHANGED status => Stays
  OBVIOUS
<1>v. \A t \in Task : \A s : t # k \/ s = status[k] => (SetStatus(t, s) => Stays)
  BY <1>f
<1>w. admission.at \notin Idle \cup {"releasing"} => admission.task # k
  BY <1>o DEF DescriptorIsRight
<1>x. supervisor[k].at \in {"none", "gone", "described"}
  BY <1>o DEF DescriptorIsRight
<1> HIDE DEF Stays, SetStatus
<1> USE <1>a, <1>u, <1>v, <1>w, <1>x
<1>1. CASE DispatchDescribe \/ DispatchEnqueue \/ DispatchStart \/ DispatchSpawn \/
           TickStart \/ TickSpawn \/ TickRequeue \/ TickEnd \/ CancelPublish \/ CancelAnnounce
  BY <1>1 DEF DispatchDescribe, DispatchEnqueue, DispatchStart, DispatchSpawn, TickStart,
        TickSpawn, TickRequeue, TickEnd, CancelPublish, CancelAnnounce
<1>2. CASE CancelEnd \/ TickBegin \/ AdmissionCrash
  BY <1>2 DEF CancelEnd, TickBegin, AdmissionCrash
<1>3. ASSUME NEW t \in Task,
             TickPass(t) \/ TickMove(t) \/ DispatchCreate(t) \/ DispatchClaim(t) \/ Ask(t) \/
             CancelRequest(t) \/ CancelQueued(t) \/ AcquireLease(t) \/ ClaimTask(t) \/
             SpawnWorker(t)
      PROVE  Stays
  BY <1>3 DEF TickPass, TickMove, DispatchCreate, DispatchClaim, Ask, CancelRequest,
        CancelQueued, AcquireLease, ClaimTask, SpawnWorker
<1>4. ASSUME NEW t \in Task,
             RecordWorker(t) \/ ApplyCancel(t) \/ WorkerStops(t) \/ Publish(t) \/
             Announce(t) \/ Describe(t) \/ Release(t) \/ Heartbeat(t) \/ SupervisorCrash(t) \/
             OrphanExits(t)
      PROVE  Stays
  BY <1>4 DEF RecordWorker, ApplyCancel, WorkerStops, Publish, Announce, Describe, Release,
        Heartbeat, SupervisorCrash, OrphanExits
<1>5. ASSUME NEW t \in Task,
             Age(t) \/ LeaseExpires(t) \/ BecomesDue(t)
      PROVE  Stays
  BY <1>5 DEF Age, LeaseExpires, BecomesDue
<1>6. ASSUME NEW r \in Reaper,
             ReapLease(r) \/ ReapIdentity(r) \/ ReapPublish(r) \/ ReapAnnounce(r) \/
             ReapRelease(r) \/ ReaperCrash(r)
      PROVE  Stays
  BY <1>6 DEF ReapLease, ReapIdentity, ReapPublish, ReapAnnounce, ReapRelease, ReaperCrash
<1>7. ASSUME NEW r \in Reaper, ReapDescribe(r)
      PROVE  Stays
  BY <1>7, <1>r, <1>t DEF ReapDescribe
<1>8. ASSUME NEW r \in Reaper, NEW t \in Task, ReapSee(r, t)
      PROVE  Stays
  BY <1>8 DEF ReapSee
<1>9. CASE UNCHANGED taskVars
  BY <1>9 DEF taskVars
<1> QED
  BY <1>1, <1>2, <1>3, <1>4, <1>5, <1>6, <1>7, <1>8, <1>9
  DEF Next, LockedStep, DispatchStep, TickStep, CancelStep, SupervisorStep, ReapStep

\* A lease is renewed by its supervisor, and released by it or after its death.
LEMMA LeaseStep ==
  ASSUME TaskInv, InTime, Next, NEW k \in Task
  PROVE  LeaseFollows(k)'
<1>i. Shape /\ DescriptorFollows /\ StartedOnce /\ PublicationFollows
  BY ShapeFollows DEF TaskInv
<1>a. AdmissionOK /\ (admission.at \notin Idle => admission.task \in Task)
  BY <1>i DEF Shape, Rows
<1>r. /\ FilesOK /\ ReaperOK /\ SupervisorOK
      /\ \A r \in Reaper : reaper[r].at # "idle" => reaper[r].task \in Task
      /\ admission.todo \in SUBSET Task
  BY <1>i DEF Shape, Rows, AdmissionOK, AdmissionRecords
<1>f. /\ status \in [Task -> {"none", "created", "queued"} \cup Active \cup TerminalStatuses]
      /\ lease \in [Task -> LeaseRecords]
  BY <1>r DEF FilesOK
<1>o. /\ AgedIsStarted(k) /\ LeaseFollows(k) /\ DescriptorIsRight(k)
      /\ \A r \in Reaper : ReapsOrphan(r, k)
  BY DEF InTime
<1>d. /\ SupervisorAt(k, "announced") => result[k] \in TerminalStatuses
      /\ \A r \in Reaper : reaper[r].at = "describe" /\ reaper[r].task = k =>
           result[k] \in TerminalStatuses
  BY DescribedStatus, <1>i, <1>r
<1>s. /\ supervisor[k].at # "none" =>
           status[k] \notin {"none", "created", "queued"} /\ admission.task # k
      /\ supervisor[k].at = "none" => lease[k].state = "none"
      /\ \A r \in Reaper : reaper[r].at = "identity" \/ reaper[r].lease.state # "none" =>
           supervisor[reaper[r].task].at # "none"
  BY <1>i DEF StartedOnce
<1>g. supervisor[k].at = "gone" => supervisor'[k].at = "gone"
  BY <1>i, GoneStays
<1>u. lease'[k].state = lease[k].state /\ supervisor'[k] = supervisor[k] => LeaseFollows(k)'
  BY <1>o DEF LeaseFollows
<1> USE <1>u, <1>r, <1>a, EmptyRecords
<1>1. CASE DispatchDescribe \/ DispatchEnqueue \/ DispatchStart \/ TickStart \/ TickRequeue \/
           TickEnd \/ CancelPublish \/ CancelAnnounce \/ CancelEnd \/ TickBegin
  BY <1>1 DEF DispatchDescribe, DispatchEnqueue, DispatchStart, TickStart, TickRequeue,
        TickEnd, CancelPublish, CancelAnnounce, CancelEnd, TickBegin
<1>2. CASE DispatchSpawn
  BY <1>2, <1>s, SupervisorEffect DEF DispatchSpawn, LeaseFollows
<1>3. CASE TickSpawn
  BY <1>3, <1>s, SupervisorEffect DEF TickSpawn, LeaseFollows
<1>4. CASE AdmissionCrash
  BY <1>4 DEF AdmissionCrash
<1>5. ASSUME NEW t \in Task,
             TickPass(t) \/ TickMove(t) \/ DispatchCreate(t) \/ DispatchClaim(t) \/ Ask(t) \/
             CancelRequest(t) \/ CancelQueued(t) \/ OrphanExits(t) \/ Age(t) \/ BecomesDue(t)
      PROVE  LeaseFollows(k)'
  BY <1>5 DEF TickPass, TickMove, DispatchCreate, DispatchClaim, Ask, CancelRequest,
        CancelQueued, OrphanExits, Age, BecomesDue
<1>6. ASSUME NEW t \in Task, AcquireLease(t)
      PROVE  LeaseFollows(k)'
  <2>1. lease'[k].state \in {lease[k].state, "held"} /\ (k = t => lease'[k].state = "held")
    BY <1>6, <1>f DEF AcquireLease, HeldLease
  <2>2. supervisor'[t].at \in {"leased", "watching"} /\ (k # t => supervisor'[k] = supervisor[k])
    BY <1>6, SupervisorEffect DEF AcquireLease
  <2>3. k # t => lease'[k] = lease[k]
    BY <1>6, <1>f DEF AcquireLease
  <2> QED BY <2>1, <2>2, <2>3, <1>o DEF LeaseFollows
<1>7. ASSUME NEW t \in Task, ClaimTask(t)
      PROVE  LeaseFollows(k)'
  BY <1>7, <1>g, <1>o, SupervisorEffect DEF ClaimTask, LeaseFollows
<1>8. ASSUME NEW t \in Task, SpawnWorker(t)
      PROVE  LeaseFollows(k)'
  BY <1>8, <1>g, <1>o, SupervisorEffect DEF SpawnWorker, LeaseFollows
<1>9. ASSUME NEW t \in Task, RecordWorker(t)
      PROVE  LeaseFollows(k)'
  <2>1. lease'[k].state \in {lease[k].state, "held"} /\ (k = t => lease'[k].state = "held")
    BY <1>9, <1>f DEF RecordWorker, HeldLease
  <2>2. supervisor'[t].at \in {"leased", "watching"} /\ (k # t => supervisor'[k] = supervisor[k])
    BY <1>9, SupervisorEffect DEF RecordWorker
  <2>3. k # t => lease'[k] = lease[k]
    BY <1>9, <1>f DEF RecordWorker
  <2> QED BY <2>1, <2>2, <2>3, <1>o DEF LeaseFollows
<1>10. ASSUME NEW t \in Task, ApplyCancel(t)
      PROVE  LeaseFollows(k)'
  BY <1>10, <1>g, <1>o, SupervisorEffect DEF ApplyCancel, LeaseFollows
<1>11. ASSUME NEW t \in Task, WorkerStops(t)
      PROVE  LeaseFollows(k)'
  BY <1>11, <1>g, <1>o, SupervisorEffect DEF WorkerStops, LeaseFollows
<1>12. ASSUME NEW t \in Task, Publish(t)
      PROVE  LeaseFollows(k)'
  BY <1>12, <1>g, <1>o, SupervisorEffect DEF Publish, LeaseFollows
<1>13. ASSUME NEW t \in Task, Announce(t)
      PROVE  LeaseFollows(k)'
  BY <1>13, <1>g, <1>o, SupervisorEffect DEF Announce, LeaseFollows
<1>14. ASSUME NEW t \in Task, Describe(t)
      PROVE  LeaseFollows(k)'
  BY <1>14, <1>g, <1>o, SupervisorEffect DEF Describe, LeaseFollows
<1>15. ASSUME NEW t \in Task, Release(t)
      PROVE  LeaseFollows(k)'
  BY <1>15, <1>g, <1>o, SupervisorEffect DEF Release, LeaseFollows
<1>16. ASSUME NEW t \in Task, Heartbeat(t)
      PROVE  LeaseFollows(k)'
  BY <1>16, <1>o, <1>f DEF Heartbeat, LeaseFollows
<1>17. ASSUME NEW t \in Task, SupervisorCrash(t)
      PROVE  LeaseFollows(k)'
  BY <1>17, <1>g, <1>o, SupervisorEffect DEF SupervisorCrash, LeaseFollows
<1>18. ASSUME NEW t \in Task, LeaseExpires(t)
      PROVE  LeaseFollows(k)'
  BY <1>18, <1>f DEF LeaseExpires, LeaseRecords
<1>19. ASSUME NEW r \in Reaper,
              ReapLease(r) \/ ReapIdentity(r) \/ ReapPublish(r) \/ ReapAnnounce(r) \/
              ReapDescribe(r) \/ ReaperCrash(r)
       PROVE  LeaseFollows(k)'
  BY <1>19 DEF ReapLease, ReapIdentity, ReapPublish, ReapAnnounce, ReapDescribe, ReaperCrash
<1>20. ASSUME NEW r \in Reaper, ReapRelease(r)
      PROVE  LeaseFollows(k)'
  <2>1. CASE reaper[r].lease.state = "held" /\ reaper[r].task = k
    <3>1. supervisor[k].at = "gone"
      BY <1>20, <1>o, <1>s, <2>1 DEF ReapRelease, ReapsOrphan, Orphaned
    <3>2. supervisor' = supervisor
      BY <1>20 DEF ReapRelease
    <3> QED BY <3>1, <3>2 DEF LeaseFollows
  <2>2. CASE ~(reaper[r].lease.state = "held" /\ reaper[r].task = k)
    BY <1>20, <2>2, <1>f DEF ReapRelease
  <2> QED BY <2>1, <2>2
<1>21. ASSUME NEW r \in Reaper, NEW t \in Task, ReapSee(r, t)
      PROVE  LeaseFollows(k)'
  BY <1>21 DEF ReapSee
<1>22. CASE UNCHANGED taskVars
  BY <1>22 DEF taskVars
<1> QED
  BY <1>1, <1>2, <1>3, <1>4, <1>5, <1>6, <1>7, <1>8, <1>9, <1>10, <1>11, <1>12, <1>13,
     <1>14, <1>15, <1>16, <1>17, <1>18, <1>19, <1>20, <1>21, <1>22
  DEF Next, LockedStep, DispatchStep, TickStep, CancelStep, SupervisorStep, ReapStep

LEMMA AgedStep ==
  ASSUME TaskInv, InTime, SlowStart = FALSE, Next, NEW k \in Task
  PROVE  AgedIsStarted(k)'
<1>i. Shape /\ DescriptorFollows /\ StartedOnce /\ PublicationFollows
  BY ShapeFollows DEF TaskInv
<1>a. AdmissionOK /\ (admission.at \notin Idle => admission.task \in Task)
  BY <1>i DEF Shape, Rows
<1>r. /\ FilesOK /\ ReaperOK /\ SupervisorOK
      /\ \A r \in Reaper : reaper[r].at # "idle" => reaper[r].task \in Task
      /\ admission.todo \in SUBSET Task
  BY <1>i DEF Shape, Rows, AdmissionOK, AdmissionRecords
<1>f. /\ status \in [Task -> {"none", "created", "queued"} \cup Active \cup TerminalStatuses]
      /\ lease \in [Task -> LeaseRecords]
  BY <1>r DEF FilesOK
<1>o. /\ AgedIsStarted(k) /\ LeaseFollows(k) /\ DescriptorIsRight(k)
      /\ \A r \in Reaper : ReapsOrphan(r, k)
  BY DEF InTime
<1>d. /\ SupervisorAt(k, "announced") => result[k] \in TerminalStatuses
      /\ \A r \in Reaper : reaper[r].at = "describe" /\ reaper[r].task = k =>
           result[k] \in TerminalStatuses
  BY DescribedStatus, <1>i, <1>r
<1>s. /\ supervisor[k].at # "none" =>
           status[k] \notin {"none", "created", "queued"} /\ admission.task # k
      /\ supervisor[k].at = "none" => lease[k].state = "none"
      /\ \A r \in Reaper : reaper[r].at = "identity" \/ reaper[r].lease.state # "none" =>
           supervisor[reaper[r].task].at # "none"
  BY <1>i DEF StartedOnce
<1> USE <1>a, <1>r, <1>f, <1>o, <1>s, NoTaskAssumption DEF AgedIsStarted, AdmissionPlaces
<1>1. CASE DispatchDescribe
  BY <1>1, GotoTyped DEF DispatchDescribe
<1>2. CASE DispatchEnqueue
  BY <1>2, UnlockTyped, SupervisorEffect DEF DispatchEnqueue
<1>3. CASE DispatchStart
  BY <1>3, GotoTyped DEF DispatchStart
<1>4. CASE DispatchSpawn
  BY <1>4, UnlockTyped, SupervisorEffect DEF DispatchSpawn
<1>5. CASE TickStart
  BY <1>5, GotoTyped DEF TickStart
<1>6. CASE TickSpawn
  BY <1>6, GotoTyped, SupervisorEffect DEF TickSpawn
<1>7. CASE TickRequeue
  BY <1>7, GotoTyped DEF TickRequeue
<1>8. CASE TickEnd
  BY <1>8, UnlockTyped, SupervisorEffect DEF TickEnd
<1>9. CASE CancelPublish
  BY <1>9, GotoTyped, UnlockTyped DEF CancelPublish, Unstarted
<1>10. CASE CancelAnnounce
  BY <1>10, GotoTyped DEF CancelAnnounce
<1>11. CASE CancelEnd
  BY <1>11, GotoTyped, UnlockTyped DEF CancelEnd, Unstarted
<1>12. CASE TickBegin
  BY <1>12, TodoTyped DEF TickBegin
<1>13. CASE AdmissionCrash
  BY <1>13, UnlockTyped, SupervisorEffect DEF AdmissionCrash
<1>14. ASSUME NEW t \in Task, TickPass(t)
      PROVE  AgedIsStarted(k)'
  BY <1>14, ConsideredTyped DEF TickPass
<1>15. ASSUME NEW t \in Task, TickMove(t)
      PROVE  AgedIsStarted(k)'
  BY <1>15, TodoTyped DEF TickMove, NextEntry
<1>16. ASSUME NEW t \in Task,
              DispatchCreate(t) \/ Ask(t) \/ CancelRequest(t) \/ Heartbeat(t) \/
              OrphanExits(t) \/ LeaseExpires(t) \/ BecomesDue(t)
       PROVE  AgedIsStarted(k)'
  BY <1>16 DEF DispatchCreate, Ask, CancelRequest, Heartbeat, OrphanExits, LeaseExpires,
        BecomesDue
<1>17. ASSUME NEW t \in Task, DispatchClaim(t)
      PROVE  AgedIsStarted(k)'
  BY <1>17, GotoTyped DEF DispatchClaim
<1>18. ASSUME NEW t \in Task, CancelQueued(t)
      PROVE  AgedIsStarted(k)'
  BY <1>18, GotoTyped DEF CancelQueued
<1>19. ASSUME NEW t \in Task, AcquireLease(t)
      PROVE  AgedIsStarted(k)'
  BY <1>19, <1>d, SupervisorEffect DEF AcquireLease
<1>20. ASSUME NEW t \in Task, ClaimTask(t)
      PROVE  AgedIsStarted(k)'
  BY <1>20, <1>d, SupervisorEffect DEF ClaimTask
<1>21. ASSUME NEW t \in Task, SpawnWorker(t)
      PROVE  AgedIsStarted(k)'
  BY <1>21, <1>d, SupervisorEffect DEF SpawnWorker
<1>22. ASSUME NEW t \in Task, RecordWorker(t)
      PROVE  AgedIsStarted(k)'
  BY <1>22, <1>d, SupervisorEffect DEF RecordWorker
<1>23. ASSUME NEW t \in Task, ApplyCancel(t)
      PROVE  AgedIsStarted(k)'
  BY <1>23, <1>d, SupervisorEffect DEF ApplyCancel
<1>24. ASSUME NEW t \in Task, WorkerStops(t)
      PROVE  AgedIsStarted(k)'
  BY <1>24, <1>d, SupervisorEffect DEF WorkerStops
<1>25. ASSUME NEW t \in Task, Publish(t)
      PROVE  AgedIsStarted(k)'
  BY <1>25, <1>d, SupervisorEffect DEF Publish
<1>26. ASSUME NEW t \in Task, Announce(t)
      PROVE  AgedIsStarted(k)'
  BY <1>26, <1>d, SupervisorEffect DEF Announce
<1>27. ASSUME NEW t \in Task, Describe(t)
      PROVE  AgedIsStarted(k)'
  BY <1>27, <1>d, SupervisorEffect DEF Describe
<1>28. ASSUME NEW t \in Task, Release(t)
      PROVE  AgedIsStarted(k)'
  BY <1>28, <1>d, SupervisorEffect DEF Release
<1>29. ASSUME NEW t \in Task, SupervisorCrash(t)
      PROVE  AgedIsStarted(k)'
  BY <1>29, <1>d, SupervisorEffect DEF SupervisorCrash
<1>30. ASSUME NEW t \in Task, Age(t)
      PROVE  AgedIsStarted(k)'
  BY <1>30 DEF Age, AwaitsLease
<1>31. ASSUME NEW r \in Reaper,
              ReapLease(r) \/ ReapIdentity(r) \/ ReapPublish(r) \/ ReapAnnounce(r) \/
              ReapRelease(r) \/ ReaperCrash(r)
       PROVE  AgedIsStarted(k)'
  BY <1>31 DEF ReapLease, ReapIdentity, ReapPublish, ReapAnnounce, ReapRelease, ReaperCrash
<1>32. ASSUME NEW r \in Reaper, ReapDescribe(r)
      PROVE  AgedIsStarted(k)'
  BY <1>32, <1>d DEF ReapDescribe
<1>33. ASSUME NEW r \in Reaper, NEW t \in Task, ReapSee(r, t)
      PROVE  AgedIsStarted(k)'
  BY <1>33 DEF ReapSee
<1>34. CASE UNCHANGED taskVars
  BY <1>34 DEF taskVars
<1> QED
  BY <1>1, <1>2, <1>3, <1>4, <1>5, <1>6, <1>7, <1>8, <1>9, <1>10, <1>11, <1>12, <1>13,
     <1>14, <1>15, <1>16, <1>17, <1>18, <1>19, <1>20, <1>21, <1>22, <1>23, <1>24,
     <1>25, <1>26, <1>27, <1>28, <1>29, <1>30, <1>31, <1>32, <1>33, <1>34
  DEF Next, LockedStep, DispatchStep, TickStep, CancelStep, SupervisorStep, ReapStep

LEMMA ReapsOrphanStep ==
  ASSUME TaskInv, InTime, Next, NEW q \in Reaper, NEW k \in Task
  PROVE  ReapsOrphan(q, k)'
<1>i. Shape /\ DescriptorFollows /\ StartedOnce /\ PublicationFollows
  BY ShapeFollows DEF TaskInv
<1>a. AdmissionOK /\ (admission.at \notin Idle => admission.task \in Task)
  BY <1>i DEF Shape, Rows
<1>r. /\ FilesOK /\ ReaperOK /\ SupervisorOK
      /\ \A r \in Reaper : reaper[r].at # "idle" => reaper[r].task \in Task
      /\ admission.todo \in SUBSET Task
  BY <1>i DEF Shape, Rows, AdmissionOK, AdmissionRecords
<1>f. /\ status \in [Task -> {"none", "created", "queued"} \cup Active \cup TerminalStatuses]
      /\ lease \in [Task -> LeaseRecords]
  BY <1>r DEF FilesOK
<1>o. /\ AgedIsStarted(k) /\ LeaseFollows(k) /\ DescriptorIsRight(k)
      /\ \A r \in Reaper : ReapsOrphan(r, k)
  BY DEF InTime
<1>d. /\ SupervisorAt(k, "announced") => result[k] \in TerminalStatuses
      /\ \A r \in Reaper : reaper[r].at = "describe" /\ reaper[r].task = k =>
           result[k] \in TerminalStatuses
  BY DescribedStatus, <1>i, <1>r
<1>s. /\ supervisor[k].at # "none" =>
           status[k] \notin {"none", "created", "queued"} /\ admission.task # k
      /\ supervisor[k].at = "none" => lease[k].state = "none"
      /\ \A r \in Reaper : reaper[r].at = "identity" \/ reaper[r].lease.state # "none" =>
           supervisor[reaper[r].task].at # "none"
  BY <1>i DEF StartedOnce
<1>g. /\ Orphaned(k) => Orphaned(k)'
      /\ Finished(k) => Finished(k)'
  BY OrphanStays, FinishedStays
<1>u. reaper'[q] = reaper[q] => ReapsOrphan(q, k)'
  BY <1>g, <1>o DEF ReapsOrphan
<1>v. reaper'[q].task # k => ReapsOrphan(q, k)'
  BY DEF ReapsOrphan
<1>w. reaper'[q].at \in {"idle", "lease", "identity"} => ReapsOrphan(q, k)'
  BY DEF ReapsOrphan
<1>x. reaper'[q].at \in {"publish", "event", "signal", "describe"} /\ Orphaned(k)' => ReapsOrphan(q, k)'
  BY DEF ReapsOrphan
<1>y. NoReap.at = "idle"
  BY EmptyRecords
<1> USE <1>u, <1>v, <1>w, <1>x, <1>y
<1>1. CASE DispatchDescribe \/ DispatchEnqueue \/ DispatchStart \/ DispatchSpawn \/
           TickStart \/ TickSpawn \/ TickRequeue \/ TickEnd \/ CancelPublish \/ CancelAnnounce
  BY <1>1 DEF DispatchDescribe, DispatchEnqueue, DispatchStart, DispatchSpawn, TickStart,
        TickSpawn, TickRequeue, TickEnd, CancelPublish, CancelAnnounce
<1>2. CASE CancelEnd \/ TickBegin \/ AdmissionCrash
  BY <1>2 DEF CancelEnd, TickBegin, AdmissionCrash
<1>3. ASSUME NEW t \in Task,
             TickPass(t) \/ TickMove(t) \/ DispatchCreate(t) \/ DispatchClaim(t) \/ Ask(t) \/
             CancelRequest(t) \/ CancelQueued(t) \/ AcquireLease(t) \/ ClaimTask(t) \/
             SpawnWorker(t)
      PROVE  ReapsOrphan(q, k)'
  BY <1>3 DEF TickPass, TickMove, DispatchCreate, DispatchClaim, Ask, CancelRequest,
        CancelQueued, AcquireLease, ClaimTask, SpawnWorker
<1>4. ASSUME NEW t \in Task,
             RecordWorker(t) \/ ApplyCancel(t) \/ WorkerStops(t) \/ Publish(t) \/
             Announce(t) \/ Describe(t) \/ Release(t) \/ Heartbeat(t) \/ SupervisorCrash(t) \/
             OrphanExits(t)
      PROVE  ReapsOrphan(q, k)'
  BY <1>4 DEF RecordWorker, ApplyCancel, WorkerStops, Publish, Announce, Describe, Release,
        Heartbeat, SupervisorCrash, OrphanExits
<1>5. ASSUME NEW t \in Task,
             Age(t) \/ LeaseExpires(t) \/ BecomesDue(t)
      PROVE  ReapsOrphan(q, k)'
  BY <1>5 DEF Age, LeaseExpires, BecomesDue
<1>6. ASSUME NEW r \in Reaper, ReapLease(r)
      PROVE  ReapsOrphan(q, k)'
  <2>1. CASE StopReaping(r)
    BY <1>6, <2>1, <1>r, ReaperEffect DEF ReapLease
  <2>2. ASSUME reaper[r].task = k => Orphaned(k),
               reaper' = [reaper EXCEPT ![r].at = "publish",
                                        ![r].lease = lease[reaper[r].task]]
        PROVE  ReapsOrphan(q, k)'
    BY ZenonT(40), <2>2, <1>g, <1>r, ReaperEffect
  <2>3. CASE reaper' = [reaper EXCEPT ![r].at = "identity",
                                      ![r].lease = lease[reaper[r].task]]
    BY ZenonT(40), <2>3, <1>r, ReaperEffect
  <2>4. Unclaimed(reaper[r].seen, k) => Orphaned(k)
    BY <1>o DEF Unclaimed, Orphaned, LeaseFollows, AgedIsStarted
  <2>5. lease[k].state = "released" => Orphaned(k)
    BY <1>o DEF Orphaned, LeaseFollows
  <2>6. \/ StopReaping(r)
        \/ /\ reaper' = [reaper EXCEPT ![r].at = "publish", ![r].lease = lease[reaper[r].task]]
           /\ \/ Unclaimed(reaper[r].seen, reaper[r].task)
              \/ lease[reaper[r].task].state = "released"
        \/ reaper' = [reaper EXCEPT ![r].at = "identity", ![r].lease = lease[reaper[r].task]]
    BY <1>6 DEF ReapLease
  <2> QED BY <2>1, <2>2, <2>3, <2>4, <2>5, <2>6
<1>7. ASSUME NEW r \in Reaper, ReapIdentity(r)
      PROVE  ReapsOrphan(q, k)'
  <2>1. CASE SupervisorLives(reaper[r].task)
    BY <1>7, <2>1, <1>r, ReaperEffect DEF ReapIdentity
  <2>2. CASE ~SupervisorLives(reaper[r].task)
    <3>1. reaper[r].task = k => Orphaned(k)
      BY <1>7, <2>2, <1>s DEF ReapIdentity, Orphaned
    <3> QED BY <1>7, <2>2, <3>1, <1>g, <1>r, ReaperEffect DEF ReapIdentity
  <2> QED BY <2>1, <2>2
<1>8. ASSUME NEW r \in Reaper, ReapPublish(r)
      PROVE  ReapsOrphan(q, k)'
  <2>1. reaper[r].task = k => Orphaned(k)
    BY <1>8, <1>o DEF ReapPublish, ReapsOrphan
  <2> QED BY <1>8, <2>1, <1>g, <1>r, ReaperEffect DEF ReapPublish
<1>9. ASSUME NEW r \in Reaper, ReapAnnounce(r)
      PROVE  ReapsOrphan(q, k)'
  <2>1. reaper[r].task = k => Orphaned(k)
    BY <1>9, <1>o DEF ReapAnnounce, ReapsOrphan
  <2> QED BY <1>9, <2>1, <1>g, <1>r, ReaperEffect DEF ReapAnnounce
<1>10. ASSUME NEW r \in Reaper, ReapDescribe(r)
      PROVE  ReapsOrphan(q, k)'
  <2>1. CASE q # r \/ reaper[r].task # k
    BY <1>10, <2>1, <1>r, ReaperEffect DEF ReapDescribe
  <2>2. CASE q = r /\ reaper[r].task = k
    <3>1. Orphaned(k)' /\ reaper'[r].at = "release"
      BY <1>10, <2>2, <1>g, <1>o, <1>r, ReaperEffect DEF ReapDescribe, ReapsOrphan
    <3>2. Finished(k)'
      BY <1>10, <2>2, <1>d, <1>f DEF ReapDescribe
    <3> QED BY <2>2, <3>1, <3>2 DEF ReapsOrphan
  <2> QED BY <2>1, <2>2
<1>11. ASSUME NEW r \in Reaper, ReapRelease(r)
      PROVE  ReapsOrphan(q, k)'
  BY <1>11, <1>r, ReaperEffect DEF ReapRelease
<1>12. ASSUME NEW r \in Reaper, ReaperCrash(r)
      PROVE  ReapsOrphan(q, k)'
  BY <1>12, <1>r, ReaperEffect DEF ReaperCrash
<1>13. ASSUME NEW r \in Reaper, NEW t \in Task, ReapSee(r, t)
      PROVE  ReapsOrphan(q, k)'
  <2>1. /\ \A p \in Reaper : p # r => reaper'[p] = reaper[p]
        /\ reaper'[r].at = "lease"
    BY <1>13, <1>r DEF ReapSee, ReaperOK
  <2> QED BY <2>1
<1>14. CASE UNCHANGED taskVars
  BY <1>14 DEF taskVars
<1> QED
  BY <1>1, <1>2, <1>3, <1>4, <1>5, <1>6, <1>7, <1>8, <1>9, <1>10, <1>11, <1>12, <1>13,
     <1>14
  DEF Next, LockedStep, DispatchStep, TickStep, CancelStep, SupervisorStep, ReapStep

LEMMA DescriptorIsRightStep ==
  ASSUME TaskInv, InTime, Next, NEW k \in Task
  PROVE  DescriptorIsRight(k)'
<1>i. Shape /\ DescriptorFollows /\ StartedOnce /\ PublicationFollows
  BY ShapeFollows DEF TaskInv
<1>a. AdmissionOK /\ (admission.at \notin Idle => admission.task \in Task)
  BY <1>i DEF Shape, Rows
<1>r. /\ FilesOK /\ ReaperOK /\ SupervisorOK
      /\ \A r \in Reaper : reaper[r].at # "idle" => reaper[r].task \in Task
      /\ admission.todo \in SUBSET Task
  BY <1>i DEF Shape, Rows, AdmissionOK, AdmissionRecords
<1>f. /\ status \in [Task -> {"none", "created", "queued"} \cup Active \cup TerminalStatuses]
      /\ lease \in [Task -> LeaseRecords]
  BY <1>r DEF FilesOK
<1>o. /\ AgedIsStarted(k) /\ LeaseFollows(k) /\ DescriptorIsRight(k)
      /\ \A r \in Reaper : ReapsOrphan(r, k)
  BY DEF InTime
<1>d. /\ SupervisorAt(k, "announced") => result[k] \in TerminalStatuses
      /\ \A r \in Reaper : reaper[r].at = "describe" /\ reaper[r].task = k =>
           result[k] \in TerminalStatuses
  BY DescribedStatus, <1>i, <1>r
<1>s. /\ supervisor[k].at # "none" =>
           status[k] \notin {"none", "created", "queued"} /\ admission.task # k
      /\ supervisor[k].at = "none" => lease[k].state = "none"
      /\ \A r \in Reaper : reaper[r].at = "identity" \/ reaper[r].lease.state # "none" =>
           supervisor[reaper[r].task].at # "none"
  BY <1>i DEF StartedOnce
<1>g. Finished(k) => Finished(k)'
  BY FinishedStays
<1>h. \A r \in Reaper : reaper[r].at = "describe" /\ reaper[r].task = k =>
        supervisor[k].at \in {"none", "gone"} /\ admission.task # k
  BY <1>o, <1>s DEF ReapsOrphan, Orphaned, AgedIsStarted
<1>c. admission.task = k => /\ admission.at \in {"dispatching", "admitting"} => status[k] = "starting"
                            /\ admission.at = "releasing" => Finished(k)
  BY <1>i, <1>o DEF DescriptorIsRight, DescriptorFollows, Shows
<1>u. status'[k] = status[k] /\ supervisor'[k] = supervisor[k]
      /\ admission'.at = admission.at /\ admission'.task = admission.task
        => DescriptorIsRight(k)'
  BY <1>o DEF DescriptorIsRight
<1> USE <1>a, <1>r, <1>f, <1>s, <1>u, <1>h, NoTaskAssumption DEF AdmissionPlaces
<1>1. CASE DispatchDescribe
  BY <1>1, <1>o, GotoTyped DEF DispatchDescribe, DescriptorIsRight
<1>2. CASE DispatchEnqueue
  BY <1>2, <1>o, <1>c, UnlockTyped, SupervisorEffect DEF DispatchEnqueue, DescriptorIsRight
<1>3. CASE DispatchStart
  BY <1>3, <1>o, GotoTyped DEF DispatchStart, DescriptorIsRight
<1>4. CASE DispatchSpawn
  BY <1>4, <1>o, <1>c, UnlockTyped, SupervisorEffect DEF DispatchSpawn, DescriptorIsRight
<1>5. CASE TickStart
  BY <1>5, <1>o, GotoTyped DEF TickStart, DescriptorIsRight
<1>6. CASE TickSpawn
  BY <1>6, <1>o, <1>c, GotoTyped, SupervisorEffect DEF TickSpawn, DescriptorIsRight
<1>7. CASE TickRequeue
  BY <1>7, <1>o, GotoTyped DEF TickRequeue, DescriptorIsRight
<1>8. CASE TickEnd
  BY <1>8, <1>o, <1>c, UnlockTyped, SupervisorEffect DEF TickEnd, DescriptorIsRight
<1>9. CASE CancelPublish
  BY <1>9, <1>o, <1>c, GotoTyped, UnlockTyped DEF CancelPublish, Unstarted, DescriptorIsRight
<1>10. CASE CancelAnnounce
  BY <1>10, <1>o, GotoTyped DEF CancelAnnounce, DescriptorIsRight
<1>11. CASE CancelEnd
  BY <1>11, <1>o, <1>c, GotoTyped, UnlockTyped DEF CancelEnd, Unstarted, DescriptorIsRight
<1>12. CASE TickBegin
  BY <1>12, <1>o, TodoTyped DEF TickBegin, DescriptorIsRight
<1>13. CASE AdmissionCrash
  BY <1>13, <1>o, <1>c, UnlockTyped, SupervisorEffect DEF AdmissionCrash, DescriptorIsRight
<1>14. ASSUME NEW t \in Task, TickPass(t)
      PROVE  DescriptorIsRight(k)'
  BY <1>14, <1>o, ConsideredTyped DEF TickPass, DescriptorIsRight
<1>15. ASSUME NEW t \in Task, TickMove(t)
      PROVE  DescriptorIsRight(k)'
  BY <1>15, <1>o, TodoTyped DEF TickMove, NextEntry, DescriptorIsRight
<1>16. ASSUME NEW t \in Task, DispatchCreate(t)
      PROVE  DescriptorIsRight(k)'
  BY <1>16, <1>o DEF DispatchCreate, DescriptorIsRight
<1>17. ASSUME NEW t \in Task, DispatchClaim(t)
      PROVE  DescriptorIsRight(k)'
  BY <1>17, <1>o, GotoTyped DEF DispatchClaim, DescriptorIsRight
<1>18. ASSUME NEW t \in Task,
              Ask(t) \/ CancelRequest(t) \/ OrphanExits(t) \/ Age(t) \/ LeaseExpires(t) \/
              BecomesDue(t)
       PROVE  DescriptorIsRight(k)'
  BY <1>18 DEF Ask, CancelRequest, OrphanExits, Age, LeaseExpires, BecomesDue
<1>19. ASSUME NEW t \in Task, CancelQueued(t)
      PROVE  DescriptorIsRight(k)'
  BY <1>19, <1>o, GotoTyped DEF CancelQueued, DescriptorIsRight
<1>20. ASSUME NEW t \in Task, AcquireLease(t)
      PROVE  DescriptorIsRight(k)'
  BY <1>20, <1>o, <1>d, SupervisorEffect DEF AcquireLease, DescriptorIsRight
<1>21. ASSUME NEW t \in Task, ClaimTask(t)
      PROVE  DescriptorIsRight(k)'
  BY <1>21, <1>o, <1>d, SupervisorEffect DEF ClaimTask, DescriptorIsRight
<1>22. ASSUME NEW t \in Task, SpawnWorker(t)
      PROVE  DescriptorIsRight(k)'
  BY <1>22, <1>o, <1>d, SupervisorEffect DEF SpawnWorker, DescriptorIsRight
<1>23. ASSUME NEW t \in Task, RecordWorker(t)
      PROVE  DescriptorIsRight(k)'
  BY <1>23, <1>o, <1>d, SupervisorEffect DEF RecordWorker, DescriptorIsRight
<1>24. ASSUME NEW t \in Task, ApplyCancel(t)
      PROVE  DescriptorIsRight(k)'
  BY <1>24, <1>o, <1>d, SupervisorEffect DEF ApplyCancel, DescriptorIsRight
<1>25. ASSUME NEW t \in Task, WorkerStops(t)
      PROVE  DescriptorIsRight(k)'
  BY <1>25, <1>o, <1>d, SupervisorEffect DEF WorkerStops, DescriptorIsRight
<1>26. ASSUME NEW t \in Task, Publish(t)
      PROVE  DescriptorIsRight(k)'
  BY <1>26, <1>o, <1>d, SupervisorEffect DEF Publish, DescriptorIsRight
<1>27. ASSUME NEW t \in Task, Announce(t)
      PROVE  DescriptorIsRight(k)'
  BY <1>27, <1>o, <1>d, SupervisorEffect DEF Announce, DescriptorIsRight
<1>28. ASSUME NEW t \in Task, Describe(t)
      PROVE  DescriptorIsRight(k)'
  BY <1>28, <1>o, <1>d, SupervisorEffect DEF Describe, DescriptorIsRight
<1>29. ASSUME NEW t \in Task, Release(t)
      PROVE  DescriptorIsRight(k)'
  BY <1>29, <1>o, <1>d, SupervisorEffect DEF Release, DescriptorIsRight
<1>30. ASSUME NEW t \in Task, Heartbeat(t)
      PROVE  DescriptorIsRight(k)'
  BY <1>30, <1>o DEF Heartbeat, DescriptorIsRight
<1>31. ASSUME NEW t \in Task, SupervisorCrash(t)
      PROVE  DescriptorIsRight(k)'
  BY <1>31, <1>o, <1>d, SupervisorEffect DEF SupervisorCrash, DescriptorIsRight
<1>32. ASSUME NEW r \in Reaper,
              ReapLease(r) \/ ReapIdentity(r) \/ ReapPublish(r) \/ ReapAnnounce(r) \/
              ReapRelease(r) \/ ReaperCrash(r)
       PROVE  DescriptorIsRight(k)'
  BY <1>32 DEF ReapLease, ReapIdentity, ReapPublish, ReapAnnounce, ReapRelease, ReaperCrash
<1>33. ASSUME NEW r \in Reaper, ReapDescribe(r)
      PROVE  DescriptorIsRight(k)'
  BY <1>33, <1>o, <1>d DEF ReapDescribe, DescriptorIsRight
<1>34. ASSUME NEW r \in Reaper, NEW t \in Task, ReapSee(r, t)
      PROVE  DescriptorIsRight(k)'
  BY <1>34 DEF ReapSee
<1>35. CASE UNCHANGED taskVars
  BY <1>35 DEF taskVars
<1> QED
  BY <1>1, <1>2, <1>3, <1>4, <1>5, <1>6, <1>7, <1>8, <1>9, <1>10, <1>11, <1>12, <1>13,
     <1>14, <1>15, <1>16, <1>17, <1>18, <1>19, <1>20, <1>21, <1>22, <1>23, <1>24,
     <1>25, <1>26, <1>27, <1>28, <1>29, <1>30, <1>31, <1>32, <1>33, <1>34, <1>35
  DEF Next, LockedStep, DispatchStep, TickStep, CancelStep, SupervisorStep, ReapStep

LEMMA InTimeStep ==
  ASSUME TaskInv, InTime, SlowStart = FALSE, Next
  PROVE  InTime'
BY LeaseStep, AgedStep, ReapsOrphanStep, DescriptorIsRightStep DEF InTime

-----------------------------------------------------------------------------
\* Only the claim of a finished task is released.
LEMMA ClaimsKept ==
  ASSUME TaskInv, InTime, Next, NEW k \in claims, ~Finished(k)
  PROVE  k \in claims'
<1>k. k \in Task
  BY DEF TaskInv, TypeOK, FilesOK
<1> DEFINE Kept == k \in claims'
<1> SUFFICES Kept
  OBVIOUS
<1>u. UNCHANGED claims => Kept
  OBVIOUS
<1>o. /\ DescriptorIsRight(k) /\ \A r \in Reaper : ReapsOrphan(r, k)
      /\ admission.task = k => admission.at # "releasing"
  BY <1>k DEF InTime, TaskInv, DescriptorFollows, Shows
<1> HIDE DEF Kept
<1> USE <1>u
<1>1. CASE DispatchDescribe \/ DispatchEnqueue \/ DispatchStart \/ DispatchSpawn \/
           TickStart \/ TickSpawn \/ TickRequeue \/ TickEnd \/ CancelPublish \/ CancelAnnounce
  BY <1>1 DEF DispatchDescribe, DispatchEnqueue, DispatchStart, DispatchSpawn, TickStart,
        TickSpawn, TickRequeue, TickEnd, CancelPublish, CancelAnnounce
<1>2. CASE CancelEnd
  BY <1>2, <1>o DEF CancelEnd, Kept
<1>3. CASE TickBegin \/ AdmissionCrash
  BY <1>3 DEF TickBegin, AdmissionCrash
<1>4. ASSUME NEW t \in Task,
             TickPass(t) \/ TickMove(t) \/ DispatchCreate(t) \/ Ask(t) \/ CancelRequest(t) \/
             CancelQueued(t) \/ AcquireLease(t) \/ ClaimTask(t) \/ SpawnWorker(t) \/
             RecordWorker(t)
      PROVE  Kept
  BY <1>4 DEF TickPass, TickMove, DispatchCreate, Ask, CancelRequest, CancelQueued,
        AcquireLease, ClaimTask, SpawnWorker, RecordWorker
<1>5. ASSUME NEW t \in Task, DispatchClaim(t)
      PROVE  Kept
  BY <1>5, <1>k DEF DispatchClaim, LiveClaims, Kept
<1>6. ASSUME NEW t \in Task,
             ApplyCancel(t) \/ WorkerStops(t) \/ Publish(t) \/ Announce(t) \/ Describe(t) \/
             Heartbeat(t) \/ SupervisorCrash(t) \/ OrphanExits(t) \/ Age(t) \/ LeaseExpires(t)
      PROVE  Kept
  BY <1>6 DEF ApplyCancel, WorkerStops, Publish, Announce, Describe, Heartbeat,
        SupervisorCrash, OrphanExits, Age, LeaseExpires
<1>7. ASSUME NEW t \in Task, Release(t)
      PROVE  Kept
  BY <1>7, <1>o DEF Release, DescriptorIsRight, Kept
<1>8. ASSUME NEW t \in Task, BecomesDue(t)
      PROVE  Kept
  BY <1>8 DEF BecomesDue
<1>9. ASSUME NEW r \in Reaper,
             ReapLease(r) \/ ReapIdentity(r) \/ ReapPublish(r) \/ ReapAnnounce(r) \/
             ReapDescribe(r) \/ ReaperCrash(r)
      PROVE  Kept
  BY <1>9 DEF ReapLease, ReapIdentity, ReapPublish, ReapAnnounce, ReapDescribe, ReaperCrash
<1>10. ASSUME NEW r \in Reaper, ReapRelease(r)
      PROVE  Kept
  BY <1>10, <1>o DEF ReapRelease, ReapsOrphan, Kept
<1>11. ASSUME NEW r \in Reaper, NEW t \in Task, ReapSee(r, t)
      PROVE  Kept
  BY <1>11 DEF ReapSee
<1>12. CASE UNCHANGED taskVars
  BY <1>12 DEF taskVars
<1> QED
  BY <1>1, <1>2, <1>3, <1>4, <1>5, <1>6, <1>7, <1>8, <1>9, <1>10, <1>11, <1>12
  DEF Next, LockedStep, DispatchStep, TickStep, CancelStep, SupervisorStep, ReapStep

\* A claim is taken by a dispatch that sees every other claim on the same work.
LEMMA ClaimSources ==
  ASSUME TaskInv, Next, NEW k \in claims', k \notin claims
  PROVE  /\ k \in Task
         /\ \A u \in claims' \ {k} : u \in claims
         /\ \A u \in claims' \ {k} :
              FingerprintOf[u] = FingerprintOf[k] /\ ~Finished(u) => k \in override'
<1> DEFINE Source ==
         /\ k \in Task
         /\ \A u \in claims' \ {k} : u \in claims
         /\ \A u \in claims' \ {k} :
              FingerprintOf[u] = FingerprintOf[k] /\ ~Finished(u) => k \in override'
<1> SUFFICES Source
  OBVIOUS
<1>u. claims' \subseteq claims => Source
  OBVIOUS
<1> HIDE DEF Source
<1> USE <1>u
<1>1. CASE DispatchDescribe \/ DispatchEnqueue \/ DispatchStart \/ DispatchSpawn \/
           TickStart \/ TickSpawn \/ TickRequeue \/ TickEnd \/ CancelPublish \/ CancelAnnounce
  BY <1>1 DEF DispatchDescribe, DispatchEnqueue, DispatchStart, DispatchSpawn, TickStart,
        TickSpawn, TickRequeue, TickEnd, CancelPublish, CancelAnnounce
<1>2. CASE CancelEnd \/ TickBegin \/ AdmissionCrash
  BY <1>2 DEF CancelEnd, TickBegin, AdmissionCrash
<1>3. ASSUME NEW t \in Task,
             TickPass(t) \/ TickMove(t) \/ DispatchCreate(t) \/ Ask(t) \/ CancelRequest(t) \/
             CancelQueued(t) \/ AcquireLease(t) \/ ClaimTask(t) \/ SpawnWorker(t) \/
             RecordWorker(t)
      PROVE  Source
  BY <1>3 DEF TickPass, TickMove, DispatchCreate, Ask, CancelRequest, CancelQueued,
        AcquireLease, ClaimTask, SpawnWorker, RecordWorker
<1>4. ASSUME NEW t \in Task, DispatchClaim(t)
      PROVE  Source
  BY <1>4 DEF DispatchClaim, LiveClaims, Conflicts, Source
<1>5. ASSUME NEW t \in Task,
             ApplyCancel(t) \/ WorkerStops(t) \/ Publish(t) \/ Announce(t) \/ Describe(t) \/
             Release(t) \/ Heartbeat(t) \/ SupervisorCrash(t) \/ OrphanExits(t) \/ Age(t)
      PROVE  Source
  BY <1>5 DEF ApplyCancel, WorkerStops, Publish, Announce, Describe, Release, Heartbeat,
        SupervisorCrash, OrphanExits, Age
<1>6. ASSUME NEW t \in Task,
             LeaseExpires(t) \/ BecomesDue(t)
      PROVE  Source
  BY <1>6 DEF LeaseExpires, BecomesDue
<1>7. ASSUME NEW r \in Reaper,
             ReapLease(r) \/ ReapIdentity(r) \/ ReapPublish(r) \/ ReapAnnounce(r) \/
             ReapDescribe(r) \/ ReapRelease(r) \/ ReaperCrash(r)
      PROVE  Source
  BY <1>7 DEF ReapLease, ReapIdentity, ReapPublish, ReapAnnounce, ReapDescribe, ReapRelease,
        ReaperCrash
<1>8. ASSUME NEW r \in Reaper, NEW t \in Task, ReapSee(r, t)
      PROVE  Source
  BY <1>8 DEF ReapSee
<1>9. CASE UNCHANGED taskVars
  BY <1>9 DEF taskVars
<1> QED
  BY <1>1, <1>2, <1>3, <1>4, <1>5, <1>6, <1>7, <1>8, <1>9
  DEF Next, LockedStep, DispatchStep, TickStep, CancelStep, SupervisorStep, ReapStep

LEMMA OverrideStays ==
  ASSUME Next
  PROVE  override \subseteq override'
<1> DEFINE Stays == override \subseteq override'
<1> SUFFICES Stays
  OBVIOUS
<1>u. UNCHANGED override => Stays
  OBVIOUS
<1> HIDE DEF Stays
<1> USE <1>u
<1>1. CASE DispatchDescribe \/ DispatchEnqueue \/ DispatchStart \/ DispatchSpawn \/
           TickStart \/ TickSpawn \/ TickRequeue \/ TickEnd \/ CancelPublish \/ CancelAnnounce
  BY <1>1 DEF DispatchDescribe, DispatchEnqueue, DispatchStart, DispatchSpawn, TickStart,
        TickSpawn, TickRequeue, TickEnd, CancelPublish, CancelAnnounce
<1>2. CASE CancelEnd \/ TickBegin \/ AdmissionCrash
  BY <1>2 DEF CancelEnd, TickBegin, AdmissionCrash
<1>3. ASSUME NEW t \in Task,
             TickPass(t) \/ TickMove(t) \/ DispatchCreate(t) \/ Ask(t) \/ CancelRequest(t) \/
             CancelQueued(t) \/ AcquireLease(t) \/ ClaimTask(t) \/ SpawnWorker(t) \/
             RecordWorker(t)
      PROVE  Stays
  BY <1>3 DEF TickPass, TickMove, DispatchCreate, Ask, CancelRequest, CancelQueued,
        AcquireLease, ClaimTask, SpawnWorker, RecordWorker
<1>4. ASSUME NEW t \in Task, DispatchClaim(t)
      PROVE  Stays
  BY <1>4 DEF DispatchClaim, Stays
<1>5. ASSUME NEW t \in Task,
             ApplyCancel(t) \/ WorkerStops(t) \/ Publish(t) \/ Announce(t) \/ Describe(t) \/
             Release(t) \/ Heartbeat(t) \/ SupervisorCrash(t) \/ OrphanExits(t) \/ Age(t)
      PROVE  Stays
  BY <1>5 DEF ApplyCancel, WorkerStops, Publish, Announce, Describe, Release, Heartbeat,
        SupervisorCrash, OrphanExits, Age
<1>6. ASSUME NEW t \in Task,
             LeaseExpires(t) \/ BecomesDue(t)
      PROVE  Stays
  BY <1>6 DEF LeaseExpires, BecomesDue
<1>7. ASSUME NEW r \in Reaper,
             ReapLease(r) \/ ReapIdentity(r) \/ ReapPublish(r) \/ ReapAnnounce(r) \/
             ReapDescribe(r) \/ ReapRelease(r) \/ ReaperCrash(r)
      PROVE  Stays
  BY <1>7 DEF ReapLease, ReapIdentity, ReapPublish, ReapAnnounce, ReapDescribe, ReapRelease,
        ReaperCrash
<1>8. ASSUME NEW r \in Reaper, NEW t \in Task, ReapSee(r, t)
      PROVE  Stays
  BY <1>8 DEF ReapSee
<1>9. CASE UNCHANGED taskVars
  BY <1>9 DEF taskVars
<1> QED
  BY <1>1, <1>2, <1>3, <1>4, <1>5, <1>6, <1>7, <1>8, <1>9
  DEF Next, LockedStep, DispatchStep, TickStep, CancelStep, SupervisorStep, ReapStep

\* A task is accepted only after its claim.
LEMMA AcceptedSources ==
  ASSUME TaskInv, InTime, Next, NEW k \in Task, Accepted(k)', ~Accepted(k)
  PROVE  admission.task = k /\ admission.at = "claimed"
<1>i. Shape /\ DescriptorFollows /\ StartedOnce /\ PublicationFollows
  BY ShapeFollows DEF TaskInv
<1>a. AdmissionOK /\ (admission.at \notin Idle => admission.task \in Task)
  BY <1>i DEF Shape, Rows
<1>r. /\ FilesOK /\ ReaperOK /\ SupervisorOK
      /\ \A r \in Reaper : reaper[r].at # "idle" => reaper[r].task \in Task
      /\ admission.todo \in SUBSET Task
  BY <1>i DEF Shape, Rows, AdmissionOK, AdmissionRecords
<1>f. /\ status \in [Task -> {"none", "created", "queued"} \cup Active \cup TerminalStatuses]
      /\ lease \in [Task -> LeaseRecords]
  BY <1>r DEF FilesOK
<1>o. /\ AgedIsStarted(k) /\ LeaseFollows(k) /\ DescriptorIsRight(k)
      /\ \A r \in Reaper : ReapsOrphan(r, k)
  BY DEF InTime
<1>d. /\ SupervisorAt(k, "announced") => result[k] \in TerminalStatuses
      /\ \A r \in Reaper : reaper[r].at = "describe" /\ reaper[r].task = k =>
           result[k] \in TerminalStatuses
  BY DescribedStatus, <1>i, <1>r
<1>s. /\ supervisor[k].at # "none" =>
           status[k] \notin {"none", "created", "queued"} /\ admission.task # k
      /\ supervisor[k].at = "none" => lease[k].state = "none"
      /\ \A r \in Reaper : reaper[r].at = "identity" \/ reaper[r].lease.state # "none" =>
           supervisor[reaper[r].task].at # "none"
  BY <1>i DEF StartedOnce
<1> DEFINE Source == admission.task = k /\ admission.at = "claimed"
<1> SUFFICES Source
  OBVIOUS
<1>u. status'[k] = status[k] \/ status'[k] \in {"none", "created"} \cup TerminalStatuses => Source
  BY DEF Accepted
<1>v. status[k] \in Active \cup {"queued"} => Source
  BY DEF Accepted
<1>w. supervisor[k].at \notin {"none", "gone", "described"} => status[k] \in Active
  BY <1>o DEF DescriptorIsRight
<1>x. admission.task = k /\ admission.at \notin Idle \cup {"claimed", "releasing"} =>
        status[k] \in Active \cup {"queued"}
  <2>1. admission.at \in AdmissionPlaces
    BY <1>a DEF AdmissionOK, AdmissionRecords
  <2> QED BY <2>1, <1>i, <1>o DEF DescriptorIsRight, DescriptorFollows, Shows, AdmissionPlaces
<1> USE <1>a, <1>r, <1>f, <1>u, <1>v, <1>w, <1>x
<1> HIDE DEF Source
<1>1. CASE DispatchDescribe
  BY <1>1 DEF DispatchDescribe, Source
<1>2. CASE DispatchEnqueue \/ DispatchStart \/ DispatchSpawn \/ TickStart \/ TickSpawn \/
           TickRequeue \/ TickEnd \/ CancelPublish \/ CancelAnnounce \/ TickBegin
  BY <1>2 DEF DispatchEnqueue, DispatchStart, DispatchSpawn, TickStart, TickSpawn,
        TickRequeue, TickEnd, CancelPublish, CancelAnnounce, TickBegin
<1>3. CASE CancelEnd
  BY <1>3 DEF CancelEnd, Unstarted
<1>4. CASE AdmissionCrash
  BY <1>4 DEF AdmissionCrash
<1>5. ASSUME NEW t \in Task,
             TickPass(t) \/ TickMove(t) \/ DispatchCreate(t) \/ DispatchClaim(t) \/ Ask(t) \/
             CancelRequest(t) \/ CancelQueued(t) \/ AcquireLease(t) \/ ClaimTask(t) \/
             SpawnWorker(t)
      PROVE  Source
  BY <1>5 DEF TickPass, TickMove, DispatchCreate, DispatchClaim, Ask, CancelRequest,
        CancelQueued, AcquireLease, ClaimTask, SpawnWorker
<1>6. ASSUME NEW t \in Task,
             RecordWorker(t) \/ ApplyCancel(t) \/ WorkerStops(t) \/ Publish(t) \/
             Announce(t) \/ Release(t) \/ Heartbeat(t) \/ SupervisorCrash(t) \/
             OrphanExits(t) \/ Age(t)
      PROVE  Source
  BY <1>6 DEF RecordWorker, ApplyCancel, WorkerStops, Publish, Announce, Release, Heartbeat,
        SupervisorCrash, OrphanExits, Age
<1>7. ASSUME NEW t \in Task, Describe(t)
      PROVE  Source
  BY <1>7, <1>d DEF Describe
<1>8. ASSUME NEW t \in Task,
             LeaseExpires(t) \/ BecomesDue(t)
      PROVE  Source
  BY <1>8 DEF LeaseExpires, BecomesDue
<1>9. ASSUME NEW r \in Reaper,
             ReapLease(r) \/ ReapIdentity(r) \/ ReapPublish(r) \/ ReapAnnounce(r) \/
             ReapRelease(r) \/ ReaperCrash(r)
      PROVE  Source
  BY <1>9 DEF ReapLease, ReapIdentity, ReapPublish, ReapAnnounce, ReapRelease, ReaperCrash
<1>10. ASSUME NEW r \in Reaper, ReapDescribe(r)
      PROVE  Source
  BY <1>10, <1>d DEF ReapDescribe
<1>11. ASSUME NEW r \in Reaper, NEW t \in Task, ReapSee(r, t)
      PROVE  Source
  BY <1>11 DEF ReapSee
<1>12. CASE UNCHANGED taskVars
  BY <1>12 DEF taskVars
<1> QED
  BY <1>1, <1>2, <1>3, <1>4, <1>5, <1>6, <1>7, <1>8, <1>9, <1>10, <1>11, <1>12
  DEF Next, LockedStep, DispatchStep, TickStep, CancelStep, SupervisorStep, ReapStep

LEMMA ClaimingSources ==
  ASSUME Shape, Next, NEW k \in Task, admission'.task = k, admission'.at = "claimed"
  PROVE  (admission.task = k /\ admission.at = "claimed") \/ k \in claims'
<1>a. AdmissionOK /\ (admission.at \notin Idle => admission.task \in Task)
  BY DEF Shape, Rows
<1>t. admission.todo \in SUBSET Task
  BY <1>a DEF AdmissionOK, AdmissionRecords
<1> DEFINE Source == (admission.task = k /\ admission.at = "claimed") \/ k \in claims'
<1> SUFFICES Source
  OBVIOUS
<1>u. admission'.at = admission.at /\ admission'.task = admission.task => Source
  OBVIOUS
<1>v. admission'.at # "claimed" => Source
  OBVIOUS
<1> USE <1>a, <1>t, <1>u, <1>v, NoTaskAssumption DEF AdmissionPlaces
<1> HIDE DEF Source
<1>1. CASE DispatchDescribe
  BY <1>1, GotoTyped DEF DispatchDescribe
<1>2. CASE DispatchEnqueue
  BY <1>2, UnlockTyped DEF DispatchEnqueue
<1>3. CASE DispatchStart
  BY <1>3, GotoTyped DEF DispatchStart
<1>4. CASE DispatchSpawn
  BY <1>4, UnlockTyped DEF DispatchSpawn
<1>5. CASE TickStart
  BY <1>5, GotoTyped DEF TickStart
<1>6. CASE TickSpawn
  BY <1>6, GotoTyped DEF TickSpawn
<1>7. CASE TickRequeue
  BY <1>7, GotoTyped DEF TickRequeue
<1>8. CASE TickEnd
  BY <1>8, UnlockTyped DEF TickEnd
<1>9. CASE CancelPublish
  BY <1>9, GotoTyped, UnlockTyped DEF CancelPublish
<1>10. CASE CancelAnnounce
  BY <1>10, GotoTyped DEF CancelAnnounce
<1>11. CASE CancelEnd
  BY <1>11, GotoTyped, UnlockTyped DEF CancelEnd
<1>12. CASE TickBegin
  BY <1>12, TodoTyped DEF TickBegin
<1>13. CASE AdmissionCrash
  BY <1>13, UnlockTyped DEF AdmissionCrash
<1>14. ASSUME NEW t \in Task, TickPass(t)
      PROVE  Source
  BY <1>14, ConsideredTyped DEF TickPass
<1>15. ASSUME NEW t \in Task, TickMove(t)
      PROVE  Source
  BY <1>15, TodoTyped DEF TickMove, NextEntry
<1>16. ASSUME NEW t \in Task,
              DispatchCreate(t) \/ Ask(t) \/ CancelRequest(t) \/ AcquireLease(t) \/
              ClaimTask(t) \/ SpawnWorker(t) \/ RecordWorker(t) \/ ApplyCancel(t) \/
              WorkerStops(t) \/ Publish(t)
       PROVE  Source
  BY <1>16 DEF DispatchCreate, Ask, CancelRequest, AcquireLease, ClaimTask, SpawnWorker,
        RecordWorker, ApplyCancel, WorkerStops, Publish
<1>17. ASSUME NEW t \in Task, DispatchClaim(t)
      PROVE  Source
  BY <1>17, GotoTyped DEF DispatchClaim, Source
<1>18. ASSUME NEW t \in Task, CancelQueued(t)
      PROVE  Source
  BY <1>18, GotoTyped DEF CancelQueued
<1>19. ASSUME NEW t \in Task,
              Announce(t) \/ Describe(t) \/ Release(t) \/ Heartbeat(t) \/ SupervisorCrash(t) \/
              OrphanExits(t) \/ Age(t) \/ LeaseExpires(t) \/ BecomesDue(t)
       PROVE  Source
  BY <1>19 DEF Announce, Describe, Release, Heartbeat, SupervisorCrash, OrphanExits, Age,
        LeaseExpires, BecomesDue
<1>20. ASSUME NEW r \in Reaper,
              ReapLease(r) \/ ReapIdentity(r) \/ ReapPublish(r) \/ ReapAnnounce(r) \/
              ReapDescribe(r) \/ ReapRelease(r) \/ ReaperCrash(r)
       PROVE  Source
  BY <1>20 DEF ReapLease, ReapIdentity, ReapPublish, ReapAnnounce, ReapDescribe, ReapRelease,
        ReaperCrash
<1>21. ASSUME NEW r \in Reaper, NEW t \in Task, ReapSee(r, t)
      PROVE  Source
  BY <1>21 DEF ReapSee
<1>22. CASE UNCHANGED taskVars
  BY <1>22 DEF taskVars
<1> QED
  BY <1>1, <1>2, <1>3, <1>4, <1>5, <1>6, <1>7, <1>8, <1>9, <1>10, <1>11, <1>12, <1>13,
     <1>14, <1>15, <1>16, <1>17, <1>18, <1>19, <1>20, <1>21, <1>22
  DEF Next, LockedStep, DispatchStep, TickStep, CancelStep, SupervisorStep, ReapStep

\* What is accepted and unfinished stays claimed, and no claim is doubled unawares.
LEMMA ClaimsStep ==
  ASSUME TaskInv, InTime, ClaimsCover, Next
  PROVE  ClaimsCover'
<1>i. Shape
  BY ShapeFollows DEF TaskInv
<1>1. ASSUME NEW k \in Task
      PROVE  Claimed(k)'
  <2>1. admission.task = k /\ admission.at = "claimed" => ~Finished(k)
    BY DEF InTime, DescriptorIsRight
  <2>2. Accepted(k) => ~Finished(k)
    BY DEF Accepted
  <2>3. Accepted(k) \/ (admission.task = k /\ admission.at = "claimed") => k \in claims'
    BY <2>1, <2>2, ClaimsKept DEF ClaimsCover, Claimed
  <2>4. Accepted(k)' => Accepted(k) \/ (admission.task = k /\ admission.at = "claimed")
    BY AcceptedSources
  <2>5. admission'.task = k /\ admission'.at = "claimed" =>
          (admission.task = k /\ admission.at = "claimed") \/ k \in claims'
    BY <1>i, ClaimingSources
  <2> QED BY <2>3, <2>4, <2>5 DEF Claimed
<1>2. ASSUME NEW t \in claims', NEW u \in claims', t # u, FingerprintOf[t] = FingerprintOf[u],
             ~Finished(t)', ~Finished(u)'
      PROVE  t \in override' \/ u \in override'
  <2>1. t \in Task /\ u \in Task
    BY ClaimSources DEF TaskInv, TypeOK, FilesOK
  <2>2. ~Finished(t) /\ ~Finished(u)
    BY <1>2, <2>1, FinishedStays
  <2>3. CASE t \in claims /\ u \in claims
    BY <1>2, <2>2, <2>3, OverrideStays DEF ClaimsCover
  <2>4. CASE t \notin claims
    BY <1>2, <2>2, <2>4, ClaimSources
  <2>5. CASE u \notin claims
    BY <1>2, <2>2, <2>5, ClaimSources
  <2> QED BY <2>3, <2>4, <2>5
<1> QED BY <1>1, <1>2 DEF ClaimsCover

-----------------------------------------------------------------------------
\* A task becomes active only under the admission lock, when there was a place for it.
LEMMA StartSources ==
  ASSUME TaskInv, InTime, Next, NEW k \in Task, status[k] \notin Active, status'[k] \in Active
  PROVE  /\ admission.task = k
         /\ admission.at = "moved" \/ (admission.at = "described" /\ CanAdmit(k))
         /\ admission'.at # "moved"
<1>i. Shape /\ DescriptorFollows /\ StartedOnce /\ PublicationFollows
  BY ShapeFollows DEF TaskInv
<1>a. AdmissionOK /\ (admission.at \notin Idle => admission.task \in Task)
  BY <1>i DEF Shape, Rows
<1>r. /\ FilesOK /\ ReaperOK /\ SupervisorOK
      /\ \A r \in Reaper : reaper[r].at # "idle" => reaper[r].task \in Task
      /\ admission.todo \in SUBSET Task
  BY <1>i DEF Shape, Rows, AdmissionOK, AdmissionRecords
<1>f. /\ status \in [Task -> {"none", "created", "queued"} \cup Active \cup TerminalStatuses]
      /\ lease \in [Task -> LeaseRecords]
  BY <1>r DEF FilesOK
<1>o. /\ AgedIsStarted(k) /\ LeaseFollows(k) /\ DescriptorIsRight(k)
      /\ \A r \in Reaper : ReapsOrphan(r, k)
  BY DEF InTime
<1>d. /\ SupervisorAt(k, "announced") => result[k] \in TerminalStatuses
      /\ \A r \in Reaper : reaper[r].at = "describe" /\ reaper[r].task = k =>
           result[k] \in TerminalStatuses
  BY DescribedStatus, <1>i, <1>r
<1>s. /\ supervisor[k].at # "none" =>
           status[k] \notin {"none", "created", "queued"} /\ admission.task # k
      /\ supervisor[k].at = "none" => lease[k].state = "none"
      /\ \A r \in Reaper : reaper[r].at = "identity" \/ reaper[r].lease.state # "none" =>
           supervisor[reaper[r].task].at # "none"
  BY <1>i DEF StartedOnce
<1> DEFINE Source ==
         /\ admission.task = k
         /\ admission.at = "moved" \/ (admission.at = "described" /\ CanAdmit(k))
         /\ admission'.at # "moved"
<1> SUFFICES Source
  OBVIOUS
<1>u. status'[k] # status[k] /\ status'[k] \in Active
  OBVIOUS
<1>w. supervisor[k].at \in {"none", "gone", "described"}
  BY <1>o DEF DescriptorIsRight
<1> USE <1>a, <1>r, <1>f, <1>u, <1>w
<1> HIDE DEF Source
<1>1. CASE DispatchDescribe \/ DispatchEnqueue \/ DispatchSpawn \/ TickSpawn \/ TickRequeue \/
           TickEnd \/ CancelPublish \/ CancelAnnounce \/ TickBegin \/ AdmissionCrash
  BY <1>1 DEF DispatchDescribe, DispatchEnqueue, DispatchSpawn, TickSpawn, TickRequeue,
        TickEnd, CancelPublish, CancelAnnounce, TickBegin, AdmissionCrash
<1>2. CASE DispatchStart
  <2>1. admission.at = "described" /\ CanAdmit(admission.task)
        /\ SetStatus(admission.task, "starting") /\ Goto("dispatching", admission.task)
    BY <1>2 DEF DispatchStart
  <2>2. admission.task \in Task /\ admission.task # NoTask
    BY <2>1, NoTaskAssumption DEF Idle
  <2>3. admission'.at = "dispatching"
    BY <2>1, <2>2, GotoTyped DEF AdmissionPlaces, Idle
  <2>4. k = admission.task
    BY <2>1, <2>2 DEF SetStatus
  <2> QED BY <2>1, <2>3, <2>4 DEF Source
<1>3. CASE TickStart
  <2>1. admission.at = "moved"
        /\ SetStatus(admission.task, "starting") /\ Goto("admitting", admission.task)
    BY <1>3 DEF TickStart
  <2>2. admission.task \in Task /\ admission.task # NoTask
    BY <2>1, NoTaskAssumption DEF Idle
  <2>3. admission'.at = "admitting"
    BY <2>1, <2>2, GotoTyped DEF AdmissionPlaces, Idle
  <2>4. k = admission.task
    BY <2>1, <2>2 DEF SetStatus
  <2> QED BY <2>1, <2>3, <2>4 DEF Source
<1>4. CASE CancelEnd
  BY <1>4 DEF CancelEnd, Unstarted
<1>5. ASSUME NEW t \in Task,
             TickPass(t) \/ TickMove(t) \/ DispatchCreate(t) \/ DispatchClaim(t) \/ Ask(t) \/
             CancelRequest(t) \/ CancelQueued(t) \/ AcquireLease(t) \/ ClaimTask(t) \/
             SpawnWorker(t)
      PROVE  Source
  BY <1>5 DEF TickPass, TickMove, DispatchCreate, DispatchClaim, Ask, CancelRequest,
        CancelQueued, AcquireLease, ClaimTask, SpawnWorker
<1>6. ASSUME NEW t \in Task,
             RecordWorker(t) \/ ApplyCancel(t) \/ WorkerStops(t) \/ Publish(t) \/
             Announce(t) \/ Release(t) \/ Heartbeat(t) \/ SupervisorCrash(t) \/
             OrphanExits(t) \/ Age(t)
      PROVE  Source
  BY <1>6 DEF RecordWorker, ApplyCancel, WorkerStops, Publish, Announce, Release, Heartbeat,
        SupervisorCrash, OrphanExits, Age
<1>7. ASSUME NEW t \in Task, Describe(t)
      PROVE  Source
  BY <1>7, <1>d DEF Describe
<1>8. ASSUME NEW t \in Task,
             LeaseExpires(t) \/ BecomesDue(t)
      PROVE  Source
  BY <1>8 DEF LeaseExpires, BecomesDue
<1>9. ASSUME NEW r \in Reaper,
             ReapLease(r) \/ ReapIdentity(r) \/ ReapPublish(r) \/ ReapAnnounce(r) \/
             ReapRelease(r) \/ ReaperCrash(r)
      PROVE  Source
  BY <1>9 DEF ReapLease, ReapIdentity, ReapPublish, ReapAnnounce, ReapRelease, ReaperCrash
<1>10. ASSUME NEW r \in Reaper, ReapDescribe(r)
      PROVE  Source
  BY <1>10, <1>d DEF ReapDescribe
<1>11. ASSUME NEW r \in Reaper, NEW t \in Task, ReapSee(r, t)
      PROVE  Source
  BY <1>11 DEF ReapSee
<1>12. CASE UNCHANGED taskVars
  BY <1>12 DEF taskVars
<1> QED
  BY <1>1, <1>2, <1>3, <1>4, <1>5, <1>6, <1>7, <1>8, <1>9, <1>10, <1>11, <1>12
  DEF Next, LockedStep, DispatchStep, TickStep, CancelStep, SupervisorStep, ReapStep

LEMMA MovedSources ==
  ASSUME Shape, Next, NEW k \in Task, admission'.task = k, admission'.at = "moved"
  PROVE  (admission.task = k /\ admission.at = "moved") \/ (admission.at = "tick" /\ CanAdmit(k))
<1>a. AdmissionOK /\ (admission.at \notin Idle => admission.task \in Task)
  BY DEF Shape, Rows
<1>t. admission.todo \in SUBSET Task
  BY <1>a DEF AdmissionOK, AdmissionRecords
<1> DEFINE Source ==
      (admission.task = k /\ admission.at = "moved") \/ (admission.at = "tick" /\ CanAdmit(k))
<1> SUFFICES Source
  OBVIOUS
<1>u. admission'.at = admission.at /\ admission'.task = admission.task => Source
  OBVIOUS
<1>v. admission'.at # "moved" => Source
  OBVIOUS
<1> USE <1>a, <1>t, <1>u, <1>v, NoTaskAssumption DEF AdmissionPlaces
<1> HIDE DEF Source
<1>1. CASE DispatchDescribe
  BY <1>1, GotoTyped DEF DispatchDescribe
<1>2. CASE DispatchEnqueue
  BY <1>2, UnlockTyped DEF DispatchEnqueue
<1>3. CASE DispatchStart
  BY <1>3, GotoTyped DEF DispatchStart
<1>4. CASE DispatchSpawn
  BY <1>4, UnlockTyped DEF DispatchSpawn
<1>5. CASE TickStart
  BY <1>5, GotoTyped DEF TickStart
<1>6. CASE TickSpawn
  BY <1>6, GotoTyped DEF TickSpawn
<1>7. CASE TickRequeue
  BY <1>7, GotoTyped DEF TickRequeue
<1>8. CASE TickEnd
  BY <1>8, UnlockTyped DEF TickEnd
<1>9. CASE CancelPublish
  BY <1>9, GotoTyped, UnlockTyped DEF CancelPublish
<1>10. CASE CancelAnnounce
  BY <1>10, GotoTyped DEF CancelAnnounce
<1>11. CASE CancelEnd
  BY <1>11, GotoTyped, UnlockTyped DEF CancelEnd
<1>12. CASE TickBegin
  BY <1>12, TodoTyped DEF TickBegin
<1>13. CASE AdmissionCrash
  BY <1>13, UnlockTyped DEF AdmissionCrash
<1>14. ASSUME NEW t \in Task, TickPass(t)
      PROVE  Source
  BY <1>14, ConsideredTyped DEF TickPass
<1>15. ASSUME NEW t \in Task, TickMove(t)
      PROVE  Source
  BY <1>15, TodoTyped DEF TickMove, NextEntry, Source
<1>16. ASSUME NEW t \in Task,
              DispatchCreate(t) \/ Ask(t) \/ CancelRequest(t) \/ AcquireLease(t) \/
              ClaimTask(t) \/ SpawnWorker(t) \/ RecordWorker(t) \/ ApplyCancel(t) \/
              WorkerStops(t) \/ Publish(t)
       PROVE  Source
  BY <1>16 DEF DispatchCreate, Ask, CancelRequest, AcquireLease, ClaimTask, SpawnWorker,
        RecordWorker, ApplyCancel, WorkerStops, Publish
<1>17. ASSUME NEW t \in Task, DispatchClaim(t)
      PROVE  Source
  BY <1>17, GotoTyped DEF DispatchClaim
<1>18. ASSUME NEW t \in Task, CancelQueued(t)
      PROVE  Source
  BY <1>18, GotoTyped DEF CancelQueued
<1>19. ASSUME NEW t \in Task,
              Announce(t) \/ Describe(t) \/ Release(t) \/ Heartbeat(t) \/ SupervisorCrash(t) \/
              OrphanExits(t) \/ Age(t) \/ LeaseExpires(t) \/ BecomesDue(t)
       PROVE  Source
  BY <1>19 DEF Announce, Describe, Release, Heartbeat, SupervisorCrash, OrphanExits, Age,
        LeaseExpires, BecomesDue
<1>20. ASSUME NEW r \in Reaper,
              ReapLease(r) \/ ReapIdentity(r) \/ ReapPublish(r) \/ ReapAnnounce(r) \/
              ReapDescribe(r) \/ ReapRelease(r) \/ ReaperCrash(r)
       PROVE  Source
  BY <1>20 DEF ReapLease, ReapIdentity, ReapPublish, ReapAnnounce, ReapDescribe, ReapRelease,
        ReaperCrash
<1>21. ASSUME NEW r \in Reaper, NEW t \in Task, ReapSee(r, t)
      PROVE  Source
  BY <1>21 DEF ReapSee
<1>22. CASE UNCHANGED taskVars
  BY <1>22 DEF taskVars
<1> QED
  BY <1>1, <1>2, <1>3, <1>4, <1>5, <1>6, <1>7, <1>8, <1>9, <1>10, <1>11, <1>12, <1>13,
     <1>14, <1>15, <1>16, <1>17, <1>18, <1>19, <1>20, <1>21, <1>22
  DEF Next, LockedStep, DispatchStep, TickStep, CancelStep, SupervisorStep, ReapStep

\* Who may start fits.
LEMMA AdmittedFits ==
  ASSUME PlacesKept, NEW k \in Task, CanAdmit(k)
  PROVE  PlaceFree(k)
<1> DEFINE mine == {WorkerOf[k]}
<1>1. WorkerOf[k] \in Worker /\ GlobalLimit \in Nat /\ WorkerLimit[WorkerOf[k]] \in Nat
  BY WorkerOfAssumption, LimitAssumption
<1>2. IsFiniteSet(Running(Worker)) /\ IsFiniteSet(Running(mine))
  BY <1>1 DEF PlacesKept, Fits
<1>3. Cardinality(Running(Worker)) \in Nat /\ Cardinality(Running(mine)) \in Nat
  BY <1>2, FS_CardinalityType
<1>4. Cardinality(Running(Worker)) < GlobalLimit /\ Cardinality(Running(mine)) < WorkerLimit[WorkerOf[k]]
  BY DEF CanAdmit
<1> HIDE DEF mine
<1>5. Cardinality(Running(Worker)) + 1 <= GlobalLimit
  BY <1>1, <1>3, <1>4
<1>6. Cardinality(Running(mine)) + 1 <= WorkerLimit[WorkerOf[k]]
  BY <1>1, <1>3, <1>4
<1> QED BY <1>2, <1>5, <1>6 DEF PlaceFree, Fits, mine

\* Fewer fit where more did, and one more fits where there was a place.
LEMMA FewerFit ==
  ASSUME NEW W, NEW n \in Nat, NEW limit \in Nat, Fits(n, W, limit), Running(W)' \subseteq Running(W)
  PROVE  Fits(n, W, limit)'
<1> DEFINE before == Running(W)
           after == Running(W)'
<1>1. IsFiniteSet(before) /\ after \subseteq before /\ Cardinality(before) + n <= limit
  BY DEF Fits
<1> HIDE DEF before, after
<1>2. IsFiniteSet(after) /\ Cardinality(after) <= Cardinality(before)
      /\ Cardinality(before) \in Nat /\ Cardinality(after) \in Nat
  BY <1>1, FS_Subset, FS_CardinalityType
<1>3. Cardinality(after) + n <= limit
  BY <1>1, <1>2
<1> QED BY <1>2, <1>3 DEF Fits, after

LEMMA OneMoreFits ==
  ASSUME NEW W, NEW limit \in Nat, NEW k, Fits(1, W, limit),
         Running(W)' \subseteq Running(W) \cup {k}
  PROVE  Fits(0, W, limit)'
<1> DEFINE before == Running(W)
           after == Running(W)'
<1>1. IsFiniteSet(before) /\ after \subseteq before \cup {k} /\ Cardinality(before) + 1 <= limit
  BY DEF Fits
<1> HIDE DEF before, after
<1>2. IsFiniteSet(before \cup {k}) /\ Cardinality(before \cup {k}) <= Cardinality(before) + 1
      /\ Cardinality(before) \in Nat
  <2>1. /\ IsFiniteSet(before \cup {k})
        /\ Cardinality(before \cup {k}) =
             IF k \in before THEN Cardinality(before) ELSE Cardinality(before) + 1
    BY <1>1, FS_AddElement
  <2>2. Cardinality(before) \in Nat
    BY <1>1, FS_CardinalityType
  <2>3. Cardinality(before \cup {k}) <= Cardinality(before) + 1
    BY <2>1, <2>2
  <2> QED BY <2>1, <2>2, <2>3
<1>3. IsFiniteSet(after) /\ Cardinality(after) <= Cardinality(before \cup {k})
      /\ Cardinality(after) \in Nat /\ Cardinality(before \cup {k}) \in Nat
  BY <1>1, <1>2, FS_Subset, FS_CardinalityType
<1>4. Cardinality(after) + 0 <= limit
  BY <1>1, <1>2, <1>3
<1> QED BY <1>3, <1>4 DEF Fits, after

LEMMA PlacesStep ==
  ASSUME TaskInv, InTime, PlacesKept, Next
  PROVE  PlacesKept'
<1>i. Shape
  BY ShapeFollows DEF TaskInv
<1>l. GlobalLimit \in Nat /\ \A w \in Worker : WorkerLimit[w] \in Nat
  BY LimitAssumption
<1>w. \A t \in Task : WorkerOf[t] \in Worker
  BY WorkerOfAssumption
<1>1. CASE \A k \in Task : status'[k] \in Active => status[k] \in Active
  <2>1. \A W : Running(W)' \subseteq Running(W)
    BY <1>1 DEF Running
  <2>2. Fits(0, Worker, GlobalLimit)' /\ \A w \in Worker : Fits(0, {w}, WorkerLimit[w])'
    BY <1>l, <2>1, FewerFit DEF PlacesKept
  <2>3. ASSUME NEW k \in Task, admission'.task = k, admission'.at = "moved"
        PROVE  PlaceFree(k)'
    <3>1. PlaceFree(k)
      BY <1>i, <2>3, MovedSources, AdmittedFits DEF PlacesKept
    <3> QED BY <1>l, <1>w, <2>1, <3>1, FewerFit DEF PlaceFree
  <2> QED BY <2>2, <2>3 DEF PlacesKept
<1>2. ASSUME NEW k \in Task, status'[k] \in Active, status[k] \notin Active
      PROVE  PlacesKept'
  <2>1. /\ admission.task = k /\ admission'.at # "moved"
        /\ admission.at = "moved" \/ CanAdmit(k)
    BY <1>2, StartSources
  <2>2. PlaceFree(k)
    BY <2>1, AdmittedFits DEF PlacesKept
  <2>3. ASSUME NEW u \in Task, u # k, status'[u] \in Active
        PROVE  status[u] \in Active
    BY <2>1, <2>3, StartSources
  <2>4. \A W : Running(W)' \subseteq Running(W) \cup {k}
    BY <2>3 DEF Running
  <2>5. \A w \in Worker : w # WorkerOf[k] => Running({w})' \subseteq Running({w})
    BY <2>3 DEF Running
  <2>6. Fits(0, Worker, GlobalLimit)'
    BY <1>l, <2>2, <2>4, OneMoreFits DEF PlaceFree
  <2>7. ASSUME NEW w \in Worker
        PROVE  Fits(0, {w}, WorkerLimit[w])'
    <3>1. CASE w = WorkerOf[k]
      BY <1>l, <2>2, <2>4, <3>1, OneMoreFits DEF PlaceFree
    <3>2. CASE w # WorkerOf[k]
      BY <1>l, <2>5, <3>2, FewerFit DEF PlacesKept
    <3> QED BY <3>1, <3>2
  <2> QED BY <2>1, <2>6, <2>7 DEF PlacesKept
<1> QED BY <1>1, <1>2

-----------------------------------------------------------------------------
LEMMA InTimeInvInit ==
  ASSUME Init
  PROVE  InTimeInv
<1>1. InTime
  BY NoTaskAssumption, EmptyRecords
  DEF Init, InTime, AgedIsStarted, LeaseFollows, ReapsOrphan, DescriptorIsRight, NoAdmission
<1>2. ClaimsCover
  BY NoTaskAssumption DEF Init, ClaimsCover, Claimed, Accepted, NoAdmission
<1>3. \A W : Running(W) = {}
  BY DEF Init, Running
<1>4. PlacesKept
  <2>1. ASSUME NEW W, NEW limit \in Nat
        PROVE  Fits(0, W, limit)
    <3>1. Running(W) = {}
      BY <1>3
    <3>2. IsFiniteSet(Running(W)) /\ Cardinality(Running(W)) = 0
      BY <3>1, FS_EmptySet
    <3>3. Cardinality(Running(W)) + 0 <= limit
      BY <3>2
    <3> QED BY <3>2, <3>3 DEF Fits
  <2>2. admission.at = "free"
    BY DEF Init, NoAdmission
  <2> QED BY <2>1, <2>2, LimitAssumption DEF PlacesKept
<1> QED BY <1>1, <1>2, <1>4 DEF InTimeInv

LEMMA InTimeInvStutter ==
  ASSUME InTimeInv, UNCHANGED taskVars
  PROVE  InTimeInv'
BY DEF InTimeInv, taskVars, InTime, AgedIsStarted, LeaseFollows, ReapsOrphan, Orphaned,
       DescriptorIsRight, ClaimsCover, Claimed, Accepted, PlacesKept, PlaceFree, Fits, Running

\* The invariant of admission, as long as supervisors take their lease in time.
THEOREM InTimeInvariant == SlowStart = FALSE => (TaskSpec => []InTimeInv)
<1> SUFFICES ASSUME SlowStart = FALSE
             PROVE  TaskSpec => []InTimeInv
  OBVIOUS
<1>1. Init => InTimeInv
  BY InTimeInvInit
<1>2. TaskInv /\ InTimeInv /\ [Next]_taskVars => InTimeInv'
  BY InTimeInvStutter, InTimeStep, ClaimsStep, PlacesStep DEF InTimeInv
<1> QED BY <1>1, <1>2, TaskInvariant, PTL DEF TaskSpec

\* Admission keeps the limits and the exclusion of duplicates (can_admit_worker,
\* claim_dispatch_fingerprint), although it counts descriptors and claims that others
\* change without its lock: as long as leases are taken in time.
THEOREM AdmissionIsSound == SlowStart = FALSE => (Spec => []AdmissionSound)
<1> SUFFICES ASSUME SlowStart = FALSE
             PROVE  Spec => []AdmissionSound
  OBVIOUS
<1>1. InTimeInv => LimitsRespected
  <2> SUFFICES ASSUME InTimeInv
               PROVE  LimitsRespected
    OBVIOUS
  <2>1. \A W : Driving(W) \subseteq Running(W)
    BY DEF InTimeInv, InTime, DescriptorIsRight, Driving, Running
  <2>2. ASSUME NEW W, NEW limit \in Nat, Fits(0, W, limit)
        PROVE  Cardinality(Driving(W)) <= limit
    <3>1. IsFiniteSet(Running(W)) /\ Cardinality(Running(W)) + 0 <= limit
      BY <2>2 DEF Fits
    <3>2. Cardinality(Driving(W)) <= Cardinality(Running(W)) /\ IsFiniteSet(Driving(W))
      BY <2>1, <3>1, FS_Subset
    <3>3. Cardinality(Driving(W)) \in Nat /\ Cardinality(Running(W)) \in Nat
      BY <3>1, <3>2, FS_CardinalityType
    <3> QED BY <3>1, <3>2, <3>3
  <2> QED BY <2>2, LimitAssumption DEF InTimeInv, PlacesKept, LimitsRespected
<1>2. InTimeInv => DuplicatesExcluded
  BY DEF InTimeInv, ClaimsCover, Claimed, Accepted, DuplicatesExcluded
<1> QED BY <1>1, <1>2, WaitsOnlyLook, InTimeInvariant, PTL DEF AdmissionSound

\* run_worker's hazard, "resurrect a finished task as `running`", cannot happen while
\* leases are taken in time: a terminal descriptor stays as it is.
THEOREM TerminalDescriptorsStay == SlowStart = FALSE => (Spec => TerminalStays)
<1> SUFFICES ASSUME SlowStart = FALSE
             PROVE  Spec => TerminalStays
  OBVIOUS
<1>1. TaskInv /\ InTimeInv /\ [Next]_taskVars =>
        [\A t \in Task : Finished(t) => status'[t] = status[t]]_vars
  BY FinishedStays DEF InTimeInv, vars, taskVars
<1> QED BY <1>1, WaitsOnlyLook, TaskInvariant, InTimeInvariant, PTL DEF TaskSpec, TerminalStays

-----------------------------------------------------------------------------
(***************************************************************************)
(* Waits.  A look reads its files one after another; what it has read of a *)
(* finished task stays true, and the supervisor it calls dead is gone.     *)
(***************************************************************************)
LookRecords ==
  [at : {"idle", "result", "health"},
   status : {"none", "queued"} \cup Active \cup TerminalStatuses,
   result : {"none"} \cup TerminalStatuses]

\* What a look has read of the records of a task.
ReadFollows(t) ==
  /\ SaysFinished(t) => Told(t) /\ look[t].status = result[t]
  /\ look[t].result \in {"none", result[t]}
  /\ look[t].at = "health" /\ SaysFinished(t) => look[t].result = result[t]

\* A look that began after a verdict of death and finds no result finds that there is no
\* success to come.
DeadFollows(t) ==
  dead[t] > 0 =>
    /\ supervisor[t].at = "gone"
    /\ look[t].at = "health" /\ ~HasResult(t) => result[t] \in {"none", "failed"}

LooksFollow ==
  /\ look \in [Task -> LookRecords] /\ dead \in [Task -> 0..2]
  /\ \A t \in Task : ReadFollows(t) /\ DeadFollows(t)

LEMMA LooksInit ==
  ASSUME Init
  PROVE  LooksFollow
<1>1. NoLook \in LookRecords
  BY DEF NoLook, LookRecords
<1>2. look \in [Task -> LookRecords] /\ dead \in [Task -> 0..2]
  BY <1>1 DEF Init
<1>3. \A t \in Task : ReadFollows(t) /\ DeadFollows(t)
  BY DEF Init, ReadFollows, DeadFollows, SaysFinished, NoLook, TerminalStatuses
<1> QED BY <1>2, <1>3 DEF LooksFollow

\* What is told of a finished task stays told.
LEMMA RecordsStay ==
  ASSUME TaskInv, Next, NEW t \in Task
  PROVE  /\ result[t] # "none" => result'[t] = result[t]
         /\ event[t] # "none" => event'[t] = event[t]
         /\ Told(t) => Told(t)'
<1>1. Shape /\ PublicationFollows
  BY ShapeFollows DEF TaskInv
<1>2. /\ result[t] # "none" => result'[t] = result[t]
      /\ event[t] # "none" => event'[t] = event[t]
      /\ t \in signal => t \in signal'
  BY <1>1, RecordsGrow
<1> QED BY <1>2 DEF Told, Wakes

\* Nobody but a reaper publishes for a task whose supervisor is gone.
LEMMA OnlyFailureFollows ==
  ASSUME TaskInv, Next, NEW t \in Task, supervisor[t].at = "gone"
  PROVE  supervisor'[t].at = "gone" /\ result'[t] \in {result[t], "failed"}
<1>1. Shape /\ PublicationFollows /\ StartedOnce
  BY ShapeFollows DEF TaskInv
<1>2. supervisor'[t].at = "gone"
  BY <1>1, GoneStays
<1>3. admission.task # t /\ ~SupervisorAt(t, "ended")
  BY <1>1 DEF StartedOnce, SupervisorAt
<1>4. result'[t] # result[t] => result'[t] = "failed"
  BY <1>1, <1>3, ResultSources
<1> QED BY <1>2, <1>4

\* No step of a task is a look at it.
LEMMA TasksDoNotLook ==
  ASSUME Next
  PROVE  UNCHANGED waits
<1>1. CASE DispatchDescribe \/ DispatchEnqueue \/ DispatchStart \/ DispatchSpawn \/
           TickStart \/ TickSpawn \/ TickRequeue \/ TickEnd \/ CancelPublish \/ CancelAnnounce
  BY <1>1 DEF DispatchDescribe, DispatchEnqueue, DispatchStart, DispatchSpawn, TickStart,
        TickSpawn, TickRequeue, TickEnd, CancelPublish, CancelAnnounce
<1>2. CASE CancelEnd \/ TickBegin \/ AdmissionCrash
  BY <1>2 DEF CancelEnd, TickBegin, AdmissionCrash
<1>3. ASSUME NEW t \in Task,
             TickPass(t) \/ TickMove(t) \/ DispatchCreate(t) \/ DispatchClaim(t) \/ Ask(t) \/
             CancelRequest(t) \/ CancelQueued(t) \/ AcquireLease(t) \/ ClaimTask(t) \/
             SpawnWorker(t)
      PROVE  UNCHANGED waits
  BY <1>3 DEF TickPass, TickMove, DispatchCreate, DispatchClaim, Ask, CancelRequest,
        CancelQueued, AcquireLease, ClaimTask, SpawnWorker
<1>4. ASSUME NEW t \in Task,
             RecordWorker(t) \/ ApplyCancel(t) \/ WorkerStops(t) \/ Publish(t) \/
             Announce(t) \/ Describe(t) \/ Release(t) \/ Heartbeat(t) \/ SupervisorCrash(t) \/
             OrphanExits(t)
      PROVE  UNCHANGED waits
  BY <1>4 DEF RecordWorker, ApplyCancel, WorkerStops, Publish, Announce, Describe, Release,
        Heartbeat, SupervisorCrash, OrphanExits
<1>5. ASSUME NEW t \in Task,
             Age(t) \/ LeaseExpires(t) \/ BecomesDue(t)
      PROVE  UNCHANGED waits
  BY <1>5 DEF Age, LeaseExpires, BecomesDue
<1>6. ASSUME NEW r \in Reaper,
             ReapLease(r) \/ ReapIdentity(r) \/ ReapPublish(r) \/ ReapAnnounce(r) \/
             ReapDescribe(r) \/ ReapRelease(r) \/ ReaperCrash(r)
      PROVE  UNCHANGED waits
  BY <1>6 DEF ReapLease, ReapIdentity, ReapPublish, ReapAnnounce, ReapDescribe, ReapRelease,
        ReaperCrash
<1>7. ASSUME NEW r \in Reaper, NEW t \in Task, ReapSee(r, t)
      PROVE  UNCHANGED waits
  BY <1>7 DEF ReapSee
<1> QED
  BY <1>1, <1>2, <1>3, <1>4, <1>5, <1>6, <1>7
  DEF Next, LockedStep, DispatchStep, TickStep, CancelStep, SupervisorStep, ReapStep

LEMMA LooksKept ==
  ASSUME TaskInv, LooksFollow, Next, UNCHANGED <<look, dead>>
  PROVE  LooksFollow'
<1>1. ASSUME NEW t \in Task
      PROVE  ReadFollows(t)'
  <2>1. /\ result[t] # "none" => result'[t] = result[t]
        /\ Told(t) => Told(t)'
    BY RecordsStay
  <2>2. ReadFollows(t)
    BY DEF LooksFollow
  <2> QED BY <2>1, <2>2 DEF ReadFollows, SaysFinished, Told
<1>2. ASSUME NEW t \in Task
      PROVE  DeadFollows(t)'
  <2>1. supervisor[t].at = "gone" =>
          supervisor'[t].at = "gone" /\ result'[t] \in {result[t], "failed"}
    BY OnlyFailureFollows
  <2> QED BY <2>1 DEF LooksFollow, DeadFollows, HasResult
<1> QED BY <1>1, <1>2 DEF LooksFollow

LEMMA LookDescriptorKeeps ==
  ASSUME TaskInv, LooksFollow, NEW t \in Task, LookDescriptor(t)
  PROVE  LooksFollow'
<1> DEFINE read == [at |-> "result", status |-> status[t], result |-> "none"]
<1>1. look' = [look EXCEPT ![t] = read] /\ UNCHANGED <<taskVars, dead>>
  BY DEF LookDescriptor
<1>2. read \in LookRecords
  BY DEF LookDescriptor, TaskInv, TypeOK, FilesOK, LookRecords
<1>3. Finished(t) => Told(t) /\ status[t] = result[t]
  BY DEF TaskInv, PublicationFollows
<1>4. look' \in [Task -> LookRecords] /\ dead' \in [Task -> 0..2]
  BY <1>1, <1>2 DEF LooksFollow
<1>5. ReadFollows(t)' /\ DeadFollows(t)'
  BY <1>1, <1>3 DEF LooksFollow, ReadFollows, DeadFollows, SaysFinished, Finished, Told, taskVars,
                    records, processes
<1>6. \A u \in Task \ {t} : look'[u] = look[u]
  BY <1>1 DEF LooksFollow
<1>7. \A u \in Task \ {t} : ReadFollows(u)' /\ DeadFollows(u)'
  BY <1>1, <1>6 DEF LooksFollow, ReadFollows, DeadFollows, SaysFinished, HasResult, Told, taskVars,
                    records, processes
<1> QED BY <1>4, <1>5, <1>7 DEF LooksFollow

LEMMA LookResultKeeps ==
  ASSUME TaskInv, LooksFollow, NEW t \in Task, LookResult(t)
  PROVE  LooksFollow'
<1>1. /\ look' = [look EXCEPT ![t].at = "health", ![t].result = result[t]]
      /\ UNCHANGED <<taskVars, dead>>
  BY DEF LookResult
<1>2. result[t] \in {"none"} \cup TerminalStatuses /\ look[t] \in LookRecords
  BY DEF TaskInv, TypeOK, FilesOK, LooksFollow
<1>3. /\ look'[t].at = "health" /\ look'[t].status = look[t].status
      /\ look'[t].result = result[t] /\ look'[t] \in LookRecords
  BY <1>1, <1>2 DEF LooksFollow, LookRecords
<1>4. \A u \in Task \ {t} : look'[u] = look[u]
  BY <1>1 DEF LooksFollow
<1>5. look' \in [Task -> LookRecords] /\ dead' \in [Task -> 0..2]
  BY <1>1, <1>3, <1>4 DEF LooksFollow
<1>6. ReadFollows(t)' /\ DeadFollows(t)'
  BY <1>1, <1>3 DEF LooksFollow, ReadFollows, DeadFollows, SaysFinished, HasResult, Told, taskVars,
                    records, processes
<1>7. \A u \in Task \ {t} : ReadFollows(u)' /\ DeadFollows(u)'
  BY <1>1, <1>4 DEF LooksFollow, ReadFollows, DeadFollows, SaysFinished, HasResult, Told, taskVars,
                    records, processes
<1> QED BY <1>5, <1>6, <1>7 DEF LooksFollow

\* A verdict of death finds a supervisor that is gone for good.
LEMMA DeadIsGone ==
  ASSUME TaskInv, NEW t \in Task, Health(t, FALSE) = "supervisor_dead"
  PROVE  supervisor[t].at = "gone" /\ ~HasResult(t)
<1>1. ~HasResult(t) /\ SupervisorGone(t)
  BY DEF Health
<1>2. supervisor[t].at # "none"
  BY <1>1 DEF SupervisorGone, TaskInv, StartedOnce
<1> QED BY <1>1, <1>2 DEF SupervisorGone, SupervisorLives

LEMMA LookHealthKeeps ==
  ASSUME TaskInv, LooksFollow, NEW t \in Task, LookHealth(t)
  PROVE  LooksFollow'
<1>1. look' = [look EXCEPT ![t] = NoLook] /\ UNCHANGED taskVars
  BY DEF LookHealth
<1>2. /\ dead' \in [Task -> 0..2] /\ \A u \in Task \ {t} : dead'[u] = dead[u]
      /\ dead'[t] > 0 => dead[t] > 0 \/ Health(t, FALSE) = "supervisor_dead"
  <2>1. dead \in [Task -> 0..2]
    BY DEF LooksFollow
  <2>2. \/ dead' = dead
        \/ /\ Health(t, FALSE) = "supervisor_dead" /\ dead[t] < 2
           /\ dead' = [dead EXCEPT ![t] = @ + 1]
    BY DEF LookHealth
  <2>3. CASE dead' = dead
    BY <2>1, <2>3
  <2>4. ASSUME dead[t] < 2, dead' = [dead EXCEPT ![t] = @ + 1]
        PROVE  dead' \in [Task -> 0..2] /\ \A u \in Task \ {t} : dead'[u] = dead[u]
    <3>1. dead[t] + 1 \in 0..2
      BY <2>1, <2>4
    <3> QED BY <2>1, <2>4, <3>1
  <2> QED BY <2>2, <2>3, <2>4
<1>3. NoLook \in LookRecords
  BY DEF NoLook, LookRecords
<1>4. look' \in [Task -> LookRecords]
  BY <1>1, <1>3 DEF LooksFollow
<1>5. ReadFollows(t)'
  BY <1>1 DEF LooksFollow, ReadFollows, SaysFinished, NoLook, TerminalStatuses
<1>6. DeadFollows(t)'
  BY <1>1, <1>2, DeadIsGone DEF LooksFollow, DeadFollows, NoLook, taskVars, processes
<1>7. \A u \in Task \ {t} : look'[u] = look[u]
  BY <1>1 DEF LooksFollow
<1>8. \A u \in Task \ {t} : ReadFollows(u)' /\ DeadFollows(u)'
  BY <1>1, <1>2, <1>7 DEF LooksFollow, ReadFollows, DeadFollows, SaysFinished, HasResult, Told,
                          taskVars, records, processes
<1> QED BY <1>2, <1>4, <1>5, <1>6, <1>8 DEF LooksFollow

\* What a look has read, and what it means that it called a task dead.
LEMMA LooksInvariant == WaitSpec => []LooksFollow
<1>1. Init => LooksFollow
  BY LooksInit
<1>2. ASSUME TaskInv, LooksFollow, [WaitNext]_vars
      PROVE  LooksFollow'
  <2>1. CASE Next
    BY <1>2, <2>1, LooksKept, TasksDoNotLook DEF waits
  <2>2. ASSUME NEW t \in Task, Looks(t)
        PROVE  LooksFollow'
    BY <1>2, <2>2, LookDescriptorKeeps, LookResultKeeps, LookHealthKeeps DEF Looks
  <2>3. CASE UNCHANGED vars
    BY <1>2, <2>3 DEF vars, waits, taskVars, records, processes, LooksFollow, ReadFollows,
                      DeadFollows, SaysFinished, HasResult, Told
  <2> QED BY <1>2, <2>1, <2>2, <2>3 DEF WaitNext
<1> QED BY <1>1, <1>2, WaitsOnlyLook, TaskInvariant, PTL DEF WaitSpec

\* What a wait makes of one look at a task.
LEMMA SnapshotTruthful ==
  ASSUME LooksFollow, NEW t \in Looked, NEW late \in BOOLEAN
  PROVE  LET snapshot == WaitSnapshot(t, late) IN
           /\ snapshot.terminal \in BOOLEAN /\ snapshot.action \in BOOLEAN
           /\ snapshot.terminal => /\ Told(t) /\ snapshot.status = event[t]
                                   /\ snapshot.successful <=> event[t] = "completed"
<1>1. t \in Task /\ look[t].at = "health"
  BY DEF Looked
<1>2. WaitTerminal(t) \in BOOLEAN
  BY DEF WaitTerminal, HasResult, SaysFinished
<1>3. WaitTerminal(t) => Told(t) /\ look[t].result = result[t]
  BY <1>1 DEF WaitTerminal, LooksFollow, ReadFollows
<1> QED BY <1>2, <1>3 DEF WaitSnapshot, Told

\* What a wait over several tasks concludes from its looks at them.
LEMMA AggregateSays ==
  ASSUME NEW looks, NEW mode \in WAIT_MODES,
         NEW told, told = Ends(Aggregate(looks, mode), FALSE)
  PROVE  /\ told = "completed" /\ mode = "all" =>
              \A x \in looks : x.terminal /\ x.successful
         /\ told = "completed" /\ mode = "any" =>
              \E x \in looks : x.terminal /\ x.successful
         /\ told = "unsuccessful" => \E x \in looks : x.terminal /\ ~x.successful
<1> DEFINE verdict == Aggregate(looks, mode)
           ended == {x \in looks : x.terminal}
<1>1. told \in {"completed", "unsuccessful"} => verdict.met /\ verdict.status = told
  BY DEF Ends, Aggregate
<1>2. verdict.met <=> IF mode = "any" THEN ended # {} ELSE ended = looks
  BY DEF Aggregate
<1>3. verdict.status = "completed" => \A x \in ended : x.successful
  BY DEF Aggregate
<1>4. verdict.status = "unsuccessful" => \E x \in ended : ~x.successful
  BY DEF Aggregate
<1> HIDE DEF verdict
<1> QED BY <1>1, <1>2, <1>3, <1>4

\* A wait tells of success or failure only from what is told for good.
LEMMA WaitsAreTruthful ==
  ASSUME LooksFollow
  PROVE  WaitTruthful
<1> DEFINE Over(t) == event[t] # "none" /\ (Wakes(t, result[t]) => t \in signal)
           over == {t \in Looked : Over(t)}
<1>d. Looked \subseteq Task
  BY DEF Looked
<1>t. \A t \in Task : Told(t) => Over(t)
  BY DEF Told
<1> SUFFICES ASSUME NEW late \in BOOLEAN
             PROVE  /\ \A t \in Looked : WaitForTask(t, late, FALSE) \in TerminalStatuses
                          => t \in over /\ event[t] = WaitForTask(t, late, FALSE)
                    /\ \A T \in WaitableSets(Looked), mode \in WAIT_MODES :
                         LET told == WaitForTasks(T, mode, late, FALSE)
                         IN /\ told = "completed" =>
                                 /\ \E t \in T \cap over : event[t] = "completed"
                                 /\ mode = "all" =>
                                      \A t \in T : t \in over /\ event[t] = "completed"
                            /\ told = "unsuccessful" =>
                                 \E t \in T \cap over : event[t] # "completed"
  BY DEF WaitTruthful
<1>1. ASSUME NEW t \in Looked, WaitForTask(t, late, FALSE) \in TerminalStatuses
      PROVE  t \in over /\ event[t] = WaitForTask(t, late, FALSE)
  <2> DEFINE snapshot == WaitSnapshot(t, late)
  <2>1. snapshot.terminal /\ WaitForTask(t, late, FALSE) = snapshot.status
    BY <1>1 DEF WaitForTask
  <2> QED BY <1>d, <1>t, <2>1, SnapshotTruthful
<1>2. ASSUME NEW T \in WaitableSets(Looked), NEW mode \in WAIT_MODES,
             NEW told, told = WaitForTasks(T, mode, late, FALSE)
      PROVE  /\ told = "completed" => \E t \in T \cap over : event[t] = "completed"
             /\ told = "completed" /\ mode = "all" =>
                  \A t \in T : t \in over /\ event[t] = "completed"
             /\ told = "unsuccessful" => \E t \in T \cap over : event[t] # "completed"
  <2> DEFINE looks == {WaitSnapshot(t, late) : t \in T}
  <2>1. T # {} /\ T \subseteq Looked
    BY DEF WaitableSets
  <2>2. ASSUME NEW t \in T, WaitSnapshot(t, late).terminal
        PROVE  /\ t \in over
               /\ WaitSnapshot(t, late).successful <=> event[t] = "completed"
    BY <1>d, <1>t, <2>1, <2>2, SnapshotTruthful
  <2>3. told = Ends(Aggregate(looks, mode), FALSE)
    BY <1>2 DEF WaitForTasks, GroupVerdict
  <2>4. /\ told = "completed" /\ mode = "all" =>
             \A x \in looks : x.terminal /\ x.successful
        /\ told = "completed" /\ mode = "any" =>
             \E x \in looks : x.terminal /\ x.successful
        /\ told = "unsuccessful" => \E x \in looks : x.terminal /\ ~x.successful
    BY <2>3, AggregateSays
  <2>5. told = "completed" /\ mode = "all" =>
          \A t \in T : t \in over /\ event[t] = "completed"
    BY <2>2, <2>4
  <2>6. told = "completed" /\ mode = "any" => \E t \in T \cap over : event[t] = "completed"
    BY <2>2, <2>4
  <2>7. told = "unsuccessful" => \E t \in T \cap over : event[t] # "completed"
    BY <2>2, <2>4
  <2> QED BY <2>1, <2>5, <2>6, <2>7 DEF WAIT_MODES
<1> QED BY <1>1, <1>2

\* What the files of a task tell in every state, to whoever reads them: a terminal
\* descriptor is backed by its result and event, and a wait that ends tells the truth.
THEOREM TasksAreConsistent == WaitSpec => []TaskConsistent
<1>1. TaskInv => TypeOK
  BY DEF TaskInv
<1>2. TaskInv => TerminalAgrees
  BY DEF TaskInv, PublicationFollows, TerminalAgrees, Told
<1>3. LooksFollow => WaitTypeOK /\ WaitTruthful
  BY WaitsAreTruthful DEF LooksFollow, WaitTypeOK, LookRecords
<1> QED BY <1>1, <1>2, <1>3, WaitsOnlyLook, TaskInvariant, LooksInvariant, PTL DEF TaskConsistent

\* What was published or told stands: terminal records are written once, and after a wait
\* has called a task dead only a failure is published of it; if a later look says so again,
\* the task has not succeeded (finalize_terminal_task, worker_wait_health).
THEOREM VerdictsHold == WaitSpec => VerdictsStand
<1>1. TaskInv /\ [Next]_taskVars =>
        [\A t \in Task : /\ result[t] # "none" => result'[t] = result[t]
                         /\ event[t] # "none" => event'[t] = event[t]]_vars
  BY RecordsStay DEF taskVars
<1>2. ASSUME TaskInv, LooksFollow, [WaitNext]_vars
      PROVE  [\A t \in Task :
                /\ dead[t] > 0 => result'[t] \in {result[t], "failed"}
                /\ dead[t] = 1 /\ dead'[t] = 2 => result[t] \in {"none", "failed"}]_vars
  <2> SUFFICES ASSUME WaitNext, NEW t \in Task
               PROVE  /\ dead[t] > 0 => result'[t] \in {result[t], "failed"}
                      /\ dead[t] = 1 /\ dead'[t] = 2 => result[t] \in {"none", "failed"}
    BY <1>2
  <2>d. DeadFollows(t) /\ dead \in [Task -> 0..2]
    BY <1>2 DEF LooksFollow
  <2>1. CASE Next
    BY <1>2, <2>1, <2>d, OnlyFailureFollows, TasksDoNotLook DEF DeadFollows, waits
  <2>2. CASE \E u \in Task : LookDescriptor(u) \/ LookResult(u)
    BY <2>2 DEF LookDescriptor, LookResult, taskVars, records
  <2>3. CASE \E u \in Task : LookHealth(u)
    <3>1. PICK u \in Task : LookHealth(u)
      BY <2>3
    <3>2. UNCHANGED result
      BY <3>1 DEF LookHealth, taskVars, records
    <3>3. dead'[t] # dead[t] => look[t].at = "health" /\ Health(t, FALSE) = "supervisor_dead"
      BY <3>1, <2>d DEF LookHealth
    <3>4. Health(t, FALSE) = "supervisor_dead" => ~HasResult(t)
      BY <1>2, DeadIsGone
    <3>5. dead[t] > 0 /\ look[t].at = "health" /\ ~HasResult(t)
            => result[t] \in {"none", "failed"}
      BY <2>d DEF DeadFollows
    <3>6. dead[t] = 1 /\ dead'[t] = 2 => dead[t] > 0 /\ dead'[t] # dead[t]
      OBVIOUS
    <3> QED BY ONLY <3>2, <3>3, <3>4, <3>5, <3>6
  <2> QED BY ONLY <2>1, <2>2, <2>3, WaitNext DEF WaitNext, Looks
<1> QED BY <1>1, <1>2, WaitsOnlyLook, TaskInvariant, LooksInvariant, PTL
        DEF TaskSpec, WaitSpec, VerdictsStand, RecordsFinal, DeathStands
===============================================================================
