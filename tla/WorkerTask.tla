------------------------------ MODULE WorkerTask ------------------------------
(***************************************************************************)
(* Detached worker tasks (workers.py, worker_lease.py): a task is dispatched *)
(* or queued, driven by a supervisor process, cancelled, or reaped after    *)
(* its supervisor died.  All state is in files; every step below is one     *)
(* file operation (two where nothing can come between them that matters),   *)
(* and any process may die between two steps.                               *)
(*                                                                         *)
(* Actors: whoever holds the admission lock (a dispatch, a queue tick or a  *)
(* cancellation of a queued task); one supervisor per spawned task, with    *)
(* its worker process; reapers, which take no lock but the publication      *)
(* lock; and users who ask for cancellation.                                *)
(*                                                                         *)
(* Abstracted: prompts, policies, usage and progress; the delivery          *)
(* preflight of a queued task, which only delays it like `not_before`; the  *)
(* tick a finishing supervisor runs is one more tick of an unnamed process; *)
(* terminal-artifact writing is atomic per file (atomic_json).              *)
(***************************************************************************)
EXTENDS Naturals, FiniteSets, Sequences

CONSTANTS
  Task, Worker, Fingerprint, Reaper,
  WorkerOf,       \* [Task -> Worker]: the profile of a task
  FingerprintOf,  \* [Task -> Fingerprint]: the exact work of a dispatch
  AllowDuplicate, \* tasks dispatched with --allow-duplicate
  GlobalLimit,    \* [dispatch].max_concurrent
  WorkerLimit,    \* [Worker -> max_concurrent of the profile]
  NotBefore,      \* tasks dispatched with a `not_before` in the future
  WakePolicy,     \* [Task -> "always", "on-failure" or "never"]
  Cancellable,    \* tasks a user may want cancelled
  Verdict,        \* how a worker's end may be classified
  SlowStart,      \* may a supervisor take its lease after the expiry period?
  FaultKind,      \* what may go wrong: see Fault
  MaxFaults,      \* bound on the faults of a behaviour
  NoTask

ASSUME WorkerOfAssumption == WorkerOf \in [Task -> Worker]
ASSUME FingerprintOfAssumption == FingerprintOf \in [Task -> Fingerprint]
ASSUME LimitAssumption == GlobalLimit \in Nat \ {0} /\ WorkerLimit \in [Worker -> Nat \ {0}]
ASSUME WakePolicyAssumption == WakePolicy \in [Task -> {"always", "on-failure", "never"}]
ASSUME NotBeforeAssumption ==
  NotBefore \subseteq Task /\ Cancellable \subseteq Task /\ AllowDuplicate \subseteq Task
ASSUME SlowStartAssumption == SlowStart \in BOOLEAN
ASSUME FaultKindAssumption ==
  FaultKind \subseteq {"supervisor", "admission", "reaper",  \* the process dies
                       "spawn",   \* a process cannot be started (OSError)
                       "files",   \* the supervisor cannot write its own files
                       "stop"}    \* a worker tree cannot be confirmed stopped
ASSUME MaxFaultsAssumption == MaxFaults \in Nat
ASSUME NoTaskAssumption == NoTask \notin Task

VARIABLES
  status,     \* [Task -> status in task.json]; "none": no file, "created": {}
  entry,      \* [Task -> directory of the queue entry]
  queue,      \* the tasks ever queued, by queued_at
  claims,     \* tasks with a dispatch claim
  override,   \* tasks whose descriptor records a duplicate_override
  lease,      \* [Task -> lease.json]
  result,     \* [Task -> terminal_status in result.json, or "none"]
  event,      \* [Task -> terminal_status in the terminal event, or "none"]
  signal,     \* tasks whose signal was written
  request,    \* tasks with a cancellation request file
  publisher,  \* [Task -> holder of the publication lock, or "free"]
  admission,  \* the holder of the admission lock and its place
  supervisor, \* [Task -> its place and the status it will report]
  worker,     \* tasks whose worker process runs
  reaper,     \* [Reaper -> its place, task and what it read]
  asked,      \* tasks whose user wants them cancelled
  aged,       \* tasks created longer ago than the lease expiry
  due,        \* tasks whose not_before has passed
  faults,
  \* Not of a task: what a wait for it has read and told (module WorkerWait).
  look,       \* [Task -> the latest look at the task: its place and what it has read]
  dead        \* [Task -> how many looks have called the task dead, counted to 2]

records == <<result, event, signal, publisher>>
clock == <<aged, due>>
waits == <<look, dead>>
outside == <<clock, waits>>
processes == <<supervisor, worker, reaper>>
taskVars == <<status, entry, queue, claims, override, lease, records, request, admission,
              processes, asked, clock, faults>>
vars == <<taskVars, waits>>

Active == {"starting", "running", "cancelling"}
TerminalStatuses ==
  {"completed", "failed", "timed_out", "rate_limited", "invalid_result", "cancelled"}

ASSUME VerdictAssumption == Verdict \subseteq TerminalStatuses

NoLease == [state |-> "none", stale |-> FALSE, worker |-> FALSE]
NoAdmission == [at |-> "free", task |-> NoTask, todo |-> {}]
NoSupervisor == [at |-> "none", verdict |-> "completed"]
NoReap == [at |-> "idle", task |-> NoTask, seen |-> "none", lease |-> NoLease]
NoLook == [at |-> "idle", status |-> "none", result |-> "none"]

Fault(kind) ==
  /\ kind \in FaultKind
  /\ faults < MaxFaults
  /\ faults' = faults + 1
SetStatus(t, s) == status' = [status EXCEPT ![t] = s]
SupervisorLives(t) == supervisor[t].at \notin {"none", "gone"}
SupervisorAt(t, place) == supervisor[t].at = place
SupervisorGo(t, place) == supervisor' = [supervisor EXCEPT ![t].at = place]
Spawned == [NoSupervisor EXCEPT !.at = "spawned"]

(***************************************************************************)
(* can_admit_worker: the limits count active descriptors.                  *)
(***************************************************************************)
\* Variant: the tasks that wait are counted too.
Running_CountsQueued(W) ==
  {t \in Task : status[t] \in Active \cup {"queued"} /\ WorkerOf[t] \in W}

Running(W) == {t \in Task : status[t] \in Active /\ WorkerOf[t] \in W}

\* Variant: the limits may be exceeded by one.
CanAdmit_OffByOne(t) ==
  /\ Cardinality(Running(Worker)) <= GlobalLimit
  /\ Cardinality(Running({WorkerOf[t]})) <= WorkerLimit[WorkerOf[t]]
  /\ t \in due

CanAdmit(t) ==
  /\ Cardinality(Running(Worker)) < GlobalLimit
  /\ Cardinality(Running({WorkerOf[t]})) < WorkerLimit[WorkerOf[t]]
  /\ t \in due

Goto(place, t) == admission' = [admission EXCEPT !.at = place, !.task = t]
Unlock == admission' = NoAdmission

(***************************************************************************)
(* run_worker: create task.json exclusively, claim the fingerprint, then   *)
(* queue the task or spawn its supervisor, under the admission lock.       *)
(***************************************************************************)
DispatchCreate(t) ==
  /\ status[t] = "none"
  /\ SetStatus(t, "created")
  /\ UNCHANGED <<entry, queue, claims, override, lease, records, request, admission,
                 processes, asked, outside, faults>>

Finished(t) == status[t] \in TerminalStatuses

\* Variant: a queued task does not count as a duplicate.
Conflicts_ActiveOnly(t) ==
  {u \in claims : FingerprintOf[u] = FingerprintOf[t] /\ status[u] \in Active}

Conflicts(t) ==
  {u \in claims : FingerprintOf[u] = FingerprintOf[t] /\ ~Finished(u)}

\* The claims on the same work that finished tasks left behind are released.
LiveClaims(t) == {u \in claims : FingerprintOf[u] # FingerprintOf[t] \/ ~Finished(u)}

DispatchClaim(t) ==
  /\ admission.at = "free"
  /\ status[t] = "created"
  /\ t \notin claims
  /\ \/ /\ Conflicts(t) = {} \/ t \in AllowDuplicate
        /\ claims' = LiveClaims(t) \cup {t}
        /\ override' = IF Conflicts(t) # {} THEN override \cup {t} ELSE override
        /\ Goto("claimed", t)
        /\ UNCHANGED status
     \/ /\ Conflicts(t) # {} /\ t \notin AllowDuplicate
        /\ SetStatus(t, "none")
        /\ claims' = LiveClaims(t)
        /\ UNCHANGED <<override, admission>>
  /\ UNCHANGED <<entry, queue, lease, records, request, processes, asked, outside, faults>>

\* Variant: the descriptor takes the name of the queue directory.
DispatchDescribe_Pending ==
  /\ admission.at = "claimed"
  /\ SetStatus(admission.task, "pending")
  /\ Goto("described", admission.task)
  /\ UNCHANGED <<entry, queue, claims, override, lease, records, request, processes,
                 asked, outside, faults>>

DispatchDescribe ==
  LET t == admission.task IN
    /\ admission.at = "claimed"
    /\ SetStatus(t, "queued")
    /\ Goto("described", t)
    /\ UNCHANGED <<entry, queue, claims, override, lease, records, request, processes,
                   asked, outside, faults>>

DispatchEnqueue ==
  LET t == admission.task IN
    /\ admission.at = "described"
    /\ ~CanAdmit(t)
    /\ entry' = [entry EXCEPT ![t] = "pending"]
    /\ queue' = Append(queue, t)
    /\ Unlock
    /\ UNCHANGED <<status, claims, override, lease, records, request, processes, asked,
                   outside, faults>>

DispatchStart ==
  LET t == admission.task IN
    /\ admission.at = "described"
    /\ CanAdmit(t)
    /\ SetStatus(t, "starting")
    /\ Goto("dispatching", t)
    /\ UNCHANGED <<entry, queue, claims, override, lease, records, request, processes,
                   asked, outside, faults>>

\* A spawn that raises OSError leaves the descriptor as it is.
DispatchSpawn ==
  LET t == admission.task IN
    /\ admission.at = "dispatching"
    /\ \/ supervisor' = [supervisor EXCEPT ![t] = Spawned] /\ UNCHANGED faults
       \/ Fault("spawn") /\ UNCHANGED supervisor
    /\ Unlock
    /\ UNCHANGED <<status, entry, queue, claims, override, lease, records, request, worker,
                   reaper, asked, outside>>

(***************************************************************************)
(* queue_tick: the pending entries in the order they were queued.          *)
(***************************************************************************)
Pending == {t \in Task : entry[t] = "pending"}

TickBegin ==
  /\ admission.at = "free"
  /\ Pending # {}
  /\ admission' = [at |-> "tick", task |-> NoTask, todo |-> Pending]
  /\ UNCHANGED <<status, entry, queue, claims, override, lease, records, request,
                 processes, asked, outside, faults>>

QueuedEarlier(t, u) ==
  \E i, j \in DOMAIN queue : i < j /\ queue[i] = t /\ queue[j] = u

NextEntry(t) ==
  /\ admission.at = "tick"
  /\ t \in admission.todo
  /\ \A u \in admission.todo \ {t} : ~QueuedEarlier(u, t)

Considered(t) == admission' = [admission EXCEPT !.todo = @ \ {t}]

TickPass(t) ==
  /\ NextEntry(t)
  /\ \/ /\ status[t] # "queued"
        /\ entry' = [entry EXCEPT ![t] = "none"]
     \/ /\ status[t] = "queued"
        /\ ~CanAdmit(t)
        /\ UNCHANGED entry
  /\ Considered(t)
  /\ UNCHANGED <<status, queue, claims, override, lease, records, request, processes,
                 asked, outside, faults>>

TickMove(t) ==
  /\ NextEntry(t)
  /\ status[t] = "queued"
  /\ CanAdmit(t)
  /\ entry' = [entry EXCEPT ![t] = "admitted"]
  /\ admission' = [at |-> "moved", task |-> t, todo |-> admission.todo \ {t}]
  /\ UNCHANGED <<status, queue, claims, override, lease, records, request, processes,
                 asked, outside, faults>>

TickStart ==
  LET t == admission.task IN
    /\ admission.at = "moved"
    /\ SetStatus(t, "starting")
    /\ Goto("admitting", t)
    /\ UNCHANGED <<entry, queue, claims, override, lease, records, request, processes,
                   asked, outside, faults>>

TickSpawn ==
  LET t == admission.task IN
    /\ admission.at = "admitting"
    /\ \/ /\ supervisor' = [supervisor EXCEPT ![t] = Spawned]
          /\ Goto("tick", NoTask)
          /\ UNCHANGED <<status, faults>>
       \/ /\ Fault("spawn")
          /\ SetStatus(t, "queued")
          /\ Goto("requeue", t)
          /\ UNCHANGED supervisor
    /\ UNCHANGED <<entry, queue, claims, override, lease, records, request, worker, reaper,
                   asked, outside>>

TickRequeue ==
  LET t == admission.task IN
    /\ admission.at = "requeue"
    /\ entry' = [entry EXCEPT ![t] = "pending"]
    /\ Goto("tick", NoTask)
    /\ UNCHANGED <<status, queue, claims, override, lease, records, request, processes,
                   asked, outside, faults>>

TickEnd ==
  /\ admission.at = "tick"
  /\ admission.todo = {}
  /\ Unlock
  /\ UNCHANGED <<status, entry, queue, claims, override, lease, records, request,
                 processes, asked, outside, faults>>

(***************************************************************************)
(* finalize_terminal_task, in three file operations under the publication  *)
(* lock of the task.  Without takeover an existing result means the caller *)
(* lost; with it the caller completes the retained result.  The caller     *)
(* decides by its own verdict whether a signal is due.                     *)
(***************************************************************************)
\* Variant: taking over replaces the retained result.
PublishResult_Overwrite(t, who, verdict) ==
  /\ publisher[t] = "free"
  /\ publisher' = [publisher EXCEPT ![t] = who]
  /\ result' = [result EXCEPT ![t] = verdict]
  /\ UNCHANGED <<event, signal>>

PublishResult(t, who, verdict) ==
  /\ publisher[t] = "free"
  /\ publisher' = [publisher EXCEPT ![t] = who]
  /\ result' = [result EXCEPT ![t] = IF @ = "none" THEN verdict ELSE @]
  /\ UNCHANGED <<event, signal>>

PublishEvent(t) ==
  /\ event' = [event EXCEPT ![t] = IF @ = "none" THEN result[t] ELSE @]
  /\ UNCHANGED <<result, signal, publisher>>

Wakes(t, verdict) ==
  \/ WakePolicy[t] = "always"
  \/ WakePolicy[t] = "on-failure" /\ verdict # "completed"

PublishSignal(t, verdict) ==
  /\ signal' = IF Wakes(t, verdict) THEN signal \cup {t} ELSE signal
  /\ publisher' = [publisher EXCEPT ![t] = "free"]
  /\ UNCHANGED <<result, event>>

(***************************************************************************)
(* cancel_worker_task.                                                     *)
(***************************************************************************)
Ask(t) ==
  /\ t \in Cancellable \ asked
  /\ status[t] \notin {"none"} \cup TerminalStatuses
  /\ asked' = asked \cup {t}
  /\ UNCHANGED <<status, entry, queue, claims, override, lease, records, request,
                 admission, processes, outside, faults>>

CancelRequest(t) ==
  /\ t \in asked \ request
  /\ status[t] \in Active \cup {"created"}
  /\ request' = request \cup {t}
  /\ UNCHANGED <<status, entry, queue, claims, override, lease, records, admission,
                 processes, asked, outside, faults>>

\* Variant: the pending entry stays until the cancellation is complete.
CancelQueued_KeepsEntry(t) ==
  /\ t \in asked
  /\ admission.at = "free"
  /\ status[t] = "queued"
  /\ Goto("cancelling", t)
  /\ UNCHANGED <<status, entry, queue, claims, override, lease, records, request, processes,
                 asked, outside, faults>>

CancelQueued(t) ==
  /\ t \in asked
  /\ admission.at = "free"
  /\ status[t] = "queued"
  /\ entry' = [entry EXCEPT ![t] = IF @ = "pending" THEN "cancelled" ELSE @]
  /\ Goto("cancelling", t)
  /\ UNCHANGED <<status, queue, claims, override, lease, records, request, processes,
                 asked, outside, faults>>

\* queued_cancellation_artifacts: the outcome of a task that never started.
Unstarted == "cancelled"

\* The caller that lost gets no event_path: the cancellation ends in a KeyError.
CancelPublish ==
  LET t == admission.task IN
    /\ admission.at = "cancelling"
    /\ publisher[t] = "free"
    /\ \/ /\ result[t] = "none"
          /\ PublishResult(t, "admission", Unstarted)
          /\ Goto("publishing", t)
       \/ /\ result[t] # "none"
          /\ Unlock
          /\ UNCHANGED records
    /\ UNCHANGED <<status, entry, queue, claims, override, lease, request, processes,
                   asked, outside, faults>>

CancelAnnounce ==
  LET t == admission.task IN
    /\ \/ /\ admission.at = "publishing"
          /\ PublishEvent(t)
          /\ Goto("signalling", t)
       \/ /\ admission.at = "signalling"
          /\ PublishSignal(t, Unstarted)
          /\ Goto("ending", t)
    /\ UNCHANGED <<status, entry, queue, claims, override, lease, request, processes,
                   asked, outside, faults>>

CancelEnd ==
  LET t == admission.task IN
    /\ \/ /\ admission.at = "ending"
          /\ SetStatus(t, Unstarted)
          /\ Goto("releasing", t)
          /\ UNCHANGED claims
       \/ /\ admission.at = "releasing"
          /\ claims' = claims \ {t}
          /\ Unlock
          /\ UNCHANGED status
    /\ UNCHANGED <<entry, queue, override, lease, records, request, processes, asked,
                   outside, faults>>

\* The process that holds the admission lock dies; the lock goes with it.
AdmissionCrash ==
  /\ admission.at # "free"
  /\ Fault("admission")
  /\ Unlock
  /\ publisher' = [t \in Task |-> IF publisher[t] = "admission" THEN "free"
                                  ELSE publisher[t]]
  /\ UNCHANGED <<status, entry, queue, claims, override, lease, result, event, signal,
                 request, processes, asked, outside>>

(***************************************************************************)
(* supervise_worker.  It writes whole snapshots of task.json and lease.json *)
(* and never reads them again.                                             *)
(***************************************************************************)
HeldLease(recorded) == [state |-> "held", stale |-> FALSE, worker |-> recorded]
Ended(t, verdict) ==
  supervisor' = [supervisor EXCEPT ![t] = [at |-> "ended", verdict |-> verdict]]

AcquireLease(t) ==
  /\ SupervisorAt(t, "spawned")
  /\ lease' = [lease EXCEPT ![t] = HeldLease(FALSE)]
  /\ SupervisorGo(t, "leased")
  /\ UNCHANGED <<status, entry, queue, claims, override, records, request, admission,
                 worker, reaper, asked, outside, faults>>

ClaimTask(t) ==
  /\ SupervisorAt(t, "leased")
  /\ SetStatus(t, "running")
  /\ SupervisorGo(t, "claimed")
  /\ UNCHANGED <<entry, queue, claims, override, lease, records, request, admission,
                 worker, reaper, asked, outside, faults>>

SpawnWorker(t) ==
  /\ SupervisorAt(t, "claimed")
  /\ \/ worker' = worker \cup {t} /\ SupervisorGo(t, "spawnedWorker") /\ UNCHANGED faults
     \/ Fault("spawn") /\ Ended(t, "failed") /\ UNCHANGED worker
  /\ UNCHANGED <<status, entry, queue, claims, override, lease, records, request, admission,
                 reaper, asked, outside>>

RecordWorker(t) ==
  /\ SupervisorAt(t, "spawnedWorker")
  /\ lease' = [lease EXCEPT ![t] = HeldLease(TRUE)]
  /\ SupervisorGo(t, "watching")
  /\ UNCHANGED <<status, entry, queue, claims, override, records, request, admission,
                 worker, reaper, asked, outside, faults>>

Heartbeat(t) ==
  /\ SupervisorAt(t, "watching")
  /\ t \notin request
  /\ SetStatus(t, "running")
  /\ lease' = [lease EXCEPT ![t] = HeldLease(TRUE)]
  /\ UNCHANGED <<entry, queue, claims, override, records, request, admission, processes,
                 asked, outside, faults>>

ApplyCancel(t) ==
  /\ SupervisorAt(t, "watching")
  /\ t \in request
  /\ SetStatus(t, "cancelling")
  /\ SupervisorGo(t, "stopping")
  /\ UNCHANGED <<entry, queue, claims, override, lease, records, request, admission,
                 worker, reaper, asked, outside, faults>>

\* terminate_worker, by TERM and then KILL to the group of the worker.
Terminates(t) == worker' = worker \ {t}

\* The worker exits, is stopped at its timeout or on request; or an OSError of the
\* supervisor's own files ends the loop with the worker still running.
WorkerStops(t) ==
  /\ \/ /\ SupervisorAt(t, "watching")
        /\ \E verdict \in Verdict : Ended(t, verdict)
        /\ Terminates(t)
        /\ UNCHANGED faults
     \/ /\ SupervisorAt(t, "stopping")
        /\ Ended(t, "cancelled")
        /\ Terminates(t)
        /\ UNCHANGED faults
     \/ /\ supervisor[t].at \in {"spawnedWorker", "watching", "stopping"}
        /\ Fault("files")
        /\ Ended(t, "failed")
        /\ UNCHANGED worker
  /\ UNCHANGED <<status, entry, queue, claims, override, lease, records, request, admission,
                 reaper, asked, outside>>

\* Finalization without takeover: another writer's result means it is lost.
Publish(t) ==
  /\ SupervisorAt(t, "ended")
  /\ publisher[t] = "free"
  /\ \/ /\ result[t] = "none"
        /\ PublishResult(t, "supervisor", supervisor[t].verdict)
        /\ SupervisorGo(t, "publishing")
     \/ /\ result[t] # "none"
        /\ SupervisorGo(t, "gone")
        /\ UNCHANGED records
  /\ UNCHANGED <<status, entry, queue, claims, override, lease, request, admission, worker,
                 reaper, asked, outside, faults>>

Announce(t) ==
  /\ \/ /\ SupervisorAt(t, "publishing")
        /\ PublishEvent(t)
        /\ SupervisorGo(t, "signalling")
     \/ /\ SupervisorAt(t, "signalling")
        /\ PublishSignal(t, supervisor[t].verdict)
        /\ SupervisorGo(t, "announced")
  /\ UNCHANGED <<status, entry, queue, claims, override, lease, request, admission, worker,
                 reaper, asked, outside, faults>>

Describe(t) ==
  /\ SupervisorAt(t, "announced")
  /\ SetStatus(t, result[t])
  /\ SupervisorGo(t, "described")
  /\ UNCHANGED <<entry, queue, claims, override, lease, records, request, admission, worker,
                 reaper, asked, outside, faults>>

Release(t) ==
  /\ SupervisorAt(t, "described")
  /\ claims' = claims \ {t}
  /\ lease' = [lease EXCEPT ![t] = [HeldLease(TRUE) EXCEPT !.state = "released"]]
  /\ SupervisorGo(t, "gone")
  /\ UNCHANGED <<status, entry, queue, override, records, request, admission, worker,
                 reaper, asked, outside, faults>>

SupervisorCrash(t) ==
  /\ SupervisorLives(t)
  /\ Fault("supervisor")
  /\ SupervisorGo(t, "gone")
  /\ publisher' = [publisher EXCEPT ![t] = IF @ = "supervisor" THEN "free" ELSE @]
  /\ UNCHANGED <<status, entry, queue, claims, override, lease, result, event, signal,
                 request, admission, worker, reaper, asked, outside>>

OrphanExits(t) ==
  /\ t \in worker
  /\ ~SupervisorLives(t)
  /\ worker' = worker \ {t}
  /\ UNCHANGED <<status, entry, queue, claims, override, lease, records, request, admission,
                 supervisor, reaper, asked, outside, faults>>

(***************************************************************************)
(* reap_worker_tasks, one task at a time.  The descriptor, the lease and   *)
(* the process table are read in three separate steps.                     *)
(***************************************************************************)
Reaping(r, place) == reaper' = [reaper EXCEPT ![r].at = place]
StopReaping(r) == reaper' = [reaper EXCEPT ![r] = NoReap]
Unclaimed(seen, t) == seen = "starting" /\ lease[t].state = "none" /\ t \in aged

\* Variant: only running tasks are looked at.
ReapSee_RunningOnly(r, t) ==
  /\ reaper[r].at = "idle"
  /\ status[t] = "running"
  /\ reaper' = [reaper EXCEPT ![r] = [at |-> "lease", task |-> t, seen |-> status[t],
                                      lease |-> NoLease]]
  /\ UNCHANGED <<status, entry, queue, claims, override, lease, records, request, admission,
                 supervisor, worker, asked, outside, faults>>

ReapSee(r, t) ==
  /\ reaper[r].at = "idle"
  /\ status[t] \in Active
  /\ reaper' = [reaper EXCEPT ![r] = [at |-> "lease", task |-> t, seen |-> status[t],
                                      lease |-> NoLease]]
  /\ UNCHANGED <<status, entry, queue, claims, override, lease, records, request, admission,
                 supervisor, worker, asked, outside, faults>>

ReapLease(r) ==
  LET t == reaper[r].task IN
    /\ reaper[r].at = "lease"
    /\ \/ /\ \/ Unclaimed(reaper[r].seen, t)
             \/ lease[t].state = "released" /\ result[t] # "none"
          /\ reaper' = [reaper EXCEPT ![r].at = "publish", ![r].lease = lease[t]]
       \/ /\ lease[t].state = "held" /\ lease[t].stale
          /\ reaper' = [reaper EXCEPT ![r].at = "identity", ![r].lease = lease[t]]
       \/ /\ ~Unclaimed(reaper[r].seen, t)
          /\ ~(lease[t].state = "released" /\ result[t] # "none")
          /\ ~(lease[t].state = "held" /\ lease[t].stale)
          /\ StopReaping(r)
    /\ UNCHANGED <<status, entry, queue, claims, override, lease, records, request, admission,
                   supervisor, worker, asked, outside, faults>>

\* It acts on the worker the lease names, and may fail to confirm that it is gone.
StopWorkerTree(t, held) ==
  \/ /\ worker' = IF held.worker THEN worker \ {t} ELSE worker
     /\ UNCHANGED faults
  \/ Fault("stop") /\ UNCHANGED worker

\* Variant: an expired lease is taken for the proof that its holder is gone.
ReapIdentity_StaleIsGone(r) ==
  /\ reaper[r].at = "identity"
  /\ Reaping(r, "publish")
  /\ UNCHANGED <<status, entry, queue, claims, override, lease, records, request, admission,
                 supervisor, worker, asked, outside, faults>>

ReapIdentity(r) ==
  LET t == reaper[r].task IN
    /\ reaper[r].at = "identity"
    /\ \/ /\ SupervisorLives(t)
          /\ StopReaping(r)
          /\ UNCHANGED <<worker, faults>>
       \/ /\ ~SupervisorLives(t)
          /\ Reaping(r, "publish")
          /\ StopWorkerTree(t, reaper[r].lease)
    /\ UNCHANGED <<status, entry, queue, claims, override, lease, records, request, admission,
                   supervisor, asked, outside>>

ReapPublish(r) ==
  LET t == reaper[r].task IN
    /\ reaper[r].at = "publish"
    /\ PublishResult(t, r, "failed")
    /\ Reaping(r, "event")
    /\ UNCHANGED <<status, entry, queue, claims, override, lease, request, admission,
                   supervisor, worker, asked, outside, faults>>

ReapAnnounce(r) ==
  LET t == reaper[r].task IN
    /\ \/ /\ reaper[r].at = "event"
          /\ PublishEvent(t)
          /\ Reaping(r, "signal")
       \/ /\ reaper[r].at = "signal"
          /\ PublishSignal(t, IF reaper[r].lease.state = "released" THEN result[t]
                                                                  ELSE "failed")
          /\ Reaping(r, "describe")
    /\ UNCHANGED <<status, entry, queue, claims, override, lease, request, admission,
                   supervisor, worker, asked, outside, faults>>

\* Variant: the descriptor tells the verdict of the reaper, not the retained result.
ReapDescribe_Failed(r) ==
  /\ reaper[r].at = "describe"
  /\ SetStatus(reaper[r].task, "failed")
  /\ Reaping(r, "release")
  /\ UNCHANGED <<entry, queue, claims, override, lease, records, request, admission,
                 supervisor, worker, asked, outside, faults>>

ReapDescribe(r) ==
  LET t == reaper[r].task IN
    /\ reaper[r].at = "describe"
    /\ SetStatus(t, result[t])
    /\ Reaping(r, "release")
    /\ UNCHANGED <<entry, queue, claims, override, lease, records, request, admission,
                   supervisor, worker, asked, outside, faults>>

ReapRelease(r) ==
  LET t == reaper[r].task IN
    /\ reaper[r].at = "release"
    /\ claims' = claims \ {t}
    /\ lease' = IF reaper[r].lease.state = "held"
                THEN [lease EXCEPT ![t] = [reaper[r].lease EXCEPT !.state = "released"]]
                ELSE lease
    /\ StopReaping(r)
    /\ UNCHANGED <<status, entry, queue, override, records, request, admission, supervisor,
                   worker, asked, outside, faults>>

ReaperCrash(r) ==
  /\ reaper[r].at # "idle"
  /\ Fault("reaper")
  /\ StopReaping(r)
  /\ publisher' = [t \in Task |-> IF publisher[t] = r THEN "free" ELSE publisher[t]]
  /\ UNCHANGED <<status, entry, queue, claims, override, lease, result, event, signal, request,
                 admission, supervisor, worker, asked, outside>>

(***************************************************************************)
(* Time: a lease is not renewed for the expiry period, a task was created  *)
(* longer ago than that, a `not_before` passes.  With SlowStart FALSE a    *)
(* task does not wait that long for the lease of a live supervisor.        *)
(***************************************************************************)
AwaitsLease(t) ==
  \/ status[t] \in {"created", "queued"}
  \/ admission.task = t
  \/ SupervisorAt(t, "spawned")

Age(t) ==
  /\ t \notin aged
  /\ status[t] # "none"
  /\ SlowStart \/ ~AwaitsLease(t)
  /\ aged' = aged \cup {t}
  /\ UNCHANGED <<status, entry, queue, claims, override, lease, records, request, admission,
                 processes, asked, due, waits, faults>>

LeaseExpires(t) ==
  /\ lease[t].state = "held"
  /\ ~lease[t].stale
  /\ lease' = [lease EXCEPT ![t].stale = TRUE]
  /\ UNCHANGED <<status, entry, queue, claims, override, records, request, admission,
                 processes, asked, outside, faults>>

BecomesDue(t) ==
  /\ t \notin due
  /\ due' = due \cup {t}
  /\ UNCHANGED <<status, entry, queue, claims, override, lease, records, request, admission,
                 processes, asked, aged, waits, faults>>

-----------------------------------------------------------------------------
Init ==
  /\ status = [t \in Task |-> "none"]
  /\ entry = [t \in Task |-> "none"]
  /\ queue = <<>>
  /\ claims = {}
  /\ override = {}
  /\ lease = [t \in Task |-> NoLease]
  /\ result = [t \in Task |-> "none"]
  /\ event = [t \in Task |-> "none"]
  /\ signal = {}
  /\ request = {}
  /\ publisher = [t \in Task |-> "free"]
  /\ admission = NoAdmission
  /\ supervisor = [t \in Task |-> NoSupervisor]
  /\ worker = {}
  /\ reaper = [r \in Reaper |-> NoReap]
  /\ asked = {}
  /\ aged = {}
  /\ due = Task \ NotBefore
  /\ faults = 0
  /\ look = [t \in Task |-> NoLook]
  /\ dead = [t \in Task |-> 0]

DispatchStep == DispatchDescribe \/ DispatchEnqueue \/ DispatchStart \/ DispatchSpawn
TickStep ==
  \/ \E t \in Task : TickPass(t) \/ TickMove(t)
  \/ TickStart \/ TickSpawn \/ TickRequeue \/ TickEnd
CancelStep == CancelPublish \/ CancelAnnounce \/ CancelEnd
LockedStep == DispatchStep \/ TickStep \/ CancelStep

SupervisorStep(t) ==
  \/ AcquireLease(t) \/ ClaimTask(t) \/ SpawnWorker(t) \/ RecordWorker(t)
  \/ ApplyCancel(t) \/ WorkerStops(t)
  \/ Publish(t) \/ Announce(t) \/ Describe(t) \/ Release(t)

ReapStep(r) ==
  \/ ReapLease(r) \/ ReapIdentity(r) \/ ReapPublish(r) \/ ReapAnnounce(r)
  \/ ReapDescribe(r) \/ ReapRelease(r)

Next ==
  \/ LockedStep \/ TickBegin \/ AdmissionCrash
  \/ \E t \in Task :
       \/ DispatchCreate(t) \/ DispatchClaim(t)
       \/ Ask(t) \/ CancelRequest(t) \/ CancelQueued(t)
       \/ SupervisorStep(t) \/ Heartbeat(t) \/ SupervisorCrash(t) \/ OrphanExits(t)
       \/ Age(t) \/ LeaseExpires(t) \/ BecomesDue(t)
  \/ \E r \in Reaper : ReapStep(r) \/ ReaperCrash(r) \/ \E t \in Task : ReapSee(r, t)

Spec == Init /\ [][Next]_vars

\* Assumed: a process goes on unless it dies; watcher scans tick while an entry is
\* pending, and each tick reaps every task; without pending entries somebody repeats
\* `worker reap` (no process does so by itself); a worker exits or has a timeout;
\* time passes; a user repeats a cancellation until it succeeds.
Fairness ==
  /\ WF_vars(LockedStep) /\ WF_vars(TickBegin)
  /\ \A t \in Task :
       /\ WF_vars(SupervisorStep(t)) /\ WF_vars(WorkerStops(t))
       /\ WF_vars(CancelRequest(t)) /\ SF_vars(CancelQueued(t))
       /\ WF_vars(Age(t)) /\ WF_vars(LeaseExpires(t)) /\ WF_vars(BecomesDue(t))
  /\ \A r \in Reaper :
       /\ WF_vars(ReapStep(r))
       /\ \A t \in Task : SF_vars(ReapSee(r, t))

LiveSpec == Spec /\ Fairness

-----------------------------------------------------------------------------
LeaseRecords == [state : {"none", "held", "released"}, stale : BOOLEAN, worker : BOOLEAN]
AdmissionPlaces ==
  {"free", "claimed", "described", "dispatching", "tick", "moved", "admitting", "requeue",
   "cancelling", "publishing", "signalling", "ending", "releasing"}
SupervisorPlaces ==
  {"none", "spawned", "leased", "claimed", "spawnedWorker", "watching", "stopping", "ended",
   "publishing", "signalling", "announced", "described", "gone"}
ReapPlaces ==
  {"idle", "lease", "identity", "publish", "event", "signal", "describe", "release"}

AdmissionRecords == [at : AdmissionPlaces, task : Task \cup {NoTask}, todo : SUBSET Task]
SupervisorRecords == [at : SupervisorPlaces, verdict : TerminalStatuses]
ReapRecords ==
  [at : ReapPlaces, task : Task \cup {NoTask}, seen : {"none"} \cup Active,
   lease : LeaseRecords]

FilesOK ==
  /\ status \in [Task -> {"none", "created", "queued"} \cup Active \cup TerminalStatuses]
  /\ entry \in [Task -> {"none", "pending", "admitted", "cancelled"}]
  /\ queue \in Seq(Task)
  /\ claims \cup override \cup signal \cup request \cup worker \cup asked \cup aged \cup due
       \subseteq Task
  /\ lease \in [Task -> LeaseRecords]
  /\ result \in [Task -> {"none"} \cup TerminalStatuses]
  /\ event \in [Task -> {"none"} \cup TerminalStatuses]
  /\ publisher \in [Task -> {"free", "admission", "supervisor"} \cup Reaper]
  /\ faults \in 0..MaxFaults

TypeOK ==
  /\ FilesOK
  /\ admission \in AdmissionRecords
  /\ supervisor \in [Task -> SupervisorRecords]
  /\ reaper \in [Reaper -> ReapRecords]

\* A terminal task.json is backed by a result and an event with that very status,
\* whoever of supervisor, reaper and canceller published them.
TerminalAgrees ==
  \A t \in Task : Finished(t) => result[t] = status[t] /\ event[t] = status[t]

\* The terminal result and the terminal event of a task are written once: a late
\* supervisor, a second reaper or a repeated cancellation never replaces them.
RecordsFinal ==
  [][\A t \in Task : /\ result[t] # "none" => result'[t] = result[t]
                     /\ event[t] # "none" => event'[t] = event[t]]_vars

\* A task whose cancellation was published before it had a supervisor never runs,
\* although the cancelling process may die at any point (cancel_worker_task).
CancelledNeverRuns ==
  \A t \in Task :
    [](result[t] = "cancelled" /\ supervisor[t].at = "none" => [](t \notin worker))

\* No more supervisors drive a worker than the limits admit, across dispatches, ticks,
\* failed spawns, crashes and reaping (can_admit_worker).
Driving(W) ==
  {t \in Task : /\ WorkerOf[t] \in W
                /\ supervisor[t].at \in {"claimed", "spawnedWorker", "watching",
                                         "stopping"}}

LimitsRespected ==
  /\ Cardinality(Driving(Worker)) <= GlobalLimit
  /\ \A w \in Worker : Cardinality(Driving({w})) <= WorkerLimit[w]

\* Two tasks with the same dispatch fingerprint are never accepted and unfinished at
\* the same time unless one of them records the override that admitted it
\* (claim_dispatch_fingerprint).
DuplicatesExcluded ==
  \A t, u \in Task :
    /\ t # u /\ FingerprintOf[t] = FingerprintOf[u]
    /\ {status[t], status[u]} \subseteq Active \cup {"queued"}
    => {t, u} \cap override # {}

\* Admission keeps the limits and the exclusion of duplicates (can_admit_worker,
\* claim_dispatch_fingerprint) although it counts descriptors and claims that
\* supervisors, reapers and crashes change without its lock.
AdmissionSound == LimitsRespected /\ DuplicatesExcluded

\* run_worker: a write after the spawn "could resurrect a finished task as `running`";
\* a terminal descriptor stays terminal.
TerminalStays ==
  [][\A t \in Task : Finished(t) => status'[t] = status[t]]_vars

\* A task whose supervisor was ever spawned ends with a terminal descriptor for good,
\* with its event and the signal its wake policy asks for, whatever processes die on
\* the way (supervise_worker, reap_worker_tasks).
Settled(t) ==
  Finished(t) /\ event[t] # "none" /\ (Wakes(t, result[t]) => t \in signal)

SpawnedSettles ==
  \A t \in Task : <>[](supervisor[t].at = "none" \/ Settled(t))

\* docs/contracts.md: the wake policy "selects whether terminal evidence also creates
\* an inbox signal"; no signal is written for a result it does not select.
PolicyRespected ==
  \A t \in signal : Wakes(t, result[t])

\* docs/contracts.md: a queued task, and a retry whose not_before becomes due,
\* "progresses even when no other worker finishes".
QueuedProgresses ==
  \A t \in Task : []<>(entry[t] # "pending")

\* docs/contracts.md: `worker cancel` "is durable" and "Repeating cancellation is
\* safe": cancelling a queued task, again if it did not succeed, ends the task.
CancellationEnds ==
  \A t \in Task : t \in asked /\ status[t] = "queued" ~> Finished(t)
===============================================================================
