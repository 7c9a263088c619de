---------------------------- MODULE WatcherService ----------------------------
(***************************************************************************)
(* The watcher service of one host (watcher.py): `service ensure`, start,  *)
(* stop and restart under the lock of the service file, the record they    *)
(* leave, and the heartbeat of the processes they start.                   *)
(*                                                                         *)
(* A process is told apart by its identity (pid and start time), here its  *)
(* number, which is its pid too unless it got the pid of the process on    *)
(* record, and is free again when nobody refers to it.  Settings, the choice of the *)
(* host, warnings and counts in the status are left out.  An identity is   *)
(* checked and the signal sent in one step: no pid changes hands between   *)
(* the two.                                                                *)
(***************************************************************************)
EXTENDS WatcherDelivery

CONSTANTS
  Command,      \* processes that run the commands
  MaxProcesses, \* bound on processes that matter at a time
  Managers,     \* commands that may be a start, stop or restart
  MaxErrands,   \* bound on starts, stops and restarts an operator asks for
  MaxMishaps    \* bound on deaths, hangs, reused pids and failing calls

ASSUME ServiceBoundAssumption == {MaxProcesses, MaxErrands, MaxMishaps} \subseteq Nat
ASSUME CommandAssumption == "free" \notin Command /\ Managers \subseteq Command

Process == 1..MaxProcesses
Nobody == [alive |-> FALSE, kind |-> "none", pid |-> 0, hung |-> FALSE, sent |-> "none",
           orphan |-> FALSE]
Watcher(pid) == [Nobody EXCEPT !.alive = TRUE, !.kind = "watcher", !.pid = pid]
Stranger(pid) == [Nobody EXCEPT !.alive = TRUE, !.kind = "stranger", !.pid = pid]
NoRecord == [process |-> 0, status |-> "none"]
NoCommand == [at |-> "idle", errand |-> "none", read |-> NoRecord, healthy |-> FALSE,
              child |-> 0]

\* process_alive: any process of the pid will do.
PidTaken(pid) == \E n \in Process : process[n].alive /\ process[n].pid = pid
RecordTaken == record.process # 0 /\ PidTaken(process[record.process].pid)

\* identity_state: alive or gone.
\* Variant: the pid is taken for the process.
RecordAlive_ByPid == RecordTaken

RecordAlive == record.process # 0 /\ process[record.process].alive

\* heartbeat_health of a live process.
Healthy(r) == r.process # 0 /\ heartbeat.fresh /\ heartbeat.pid = process[r.process].pid

ServiceStatus(r, healthy) ==
  CASE r.process = 0 -> "not_started"
    [] r.process # 0 /\ process[r.process].alive -> IF healthy THEN "running" ELSE "degraded"
    [] r.process # 0 /\ ~process[r.process].alive ->
         IF r.status = "stopped" THEN "stopped" ELSE "crashed"

\* Variant: what crashed is left to the operator.
Ensurable_NotCrashed == {"not_started", "stopped"}

Ensurable == {"not_started", "stopped", "crashed"}

-----------------------------------------------------------------------------
CommandAt(c, place) == command[c].at = place
MoveTo(c, place) == command' = [command EXCEPT ![c].at = place]
Unlock(c) == serviceLock' = IF serviceLock = c THEN "free" ELSE serviceLock
End(c) == command' = [command EXCEPT ![c] = NoCommand] /\ Unlock(c)
Mishap == mishaps < MaxMishaps /\ mishaps' = mishaps + 1
Serviced == play = "service" /\ UNCHANGED <<play, delivery>>

(***************************************************************************)
(* ensure_service: the status is read without the lock.                    *)
(***************************************************************************)
EnsureReads(c) ==
  /\ CommandAt(c, "idle")
  /\ command' = [command EXCEPT ![c] = [NoCommand EXCEPT
                   !.at = "judging", !.errand = "ensure", !.read = record,
                   !.healthy = Healthy(record)]]
  /\ UNCHANGED <<record, heartbeat, process, serviceLock, errands, mishaps>> /\ Serviced

EnsureJudges(c) ==
  /\ CommandAt(c, "judging")
  /\ command' = [command EXCEPT ![c] =
       IF ServiceStatus(command[c].read, command[c].healthy) \in Ensurable
         THEN [NoCommand EXCEPT !.at = "locking", !.errand = "ensure"]
         ELSE NoCommand]
  /\ UNCHANGED <<record, heartbeat, process, serviceLock, errands, mishaps>> /\ Serviced

\* start_service, `start --replace`, stop_service and restart_service.
Order(c) ==
  /\ c \in Managers /\ CommandAt(c, "idle")
  /\ errands < MaxErrands
  /\ errands' = errands + 1
  /\ \E errand \in {"start", "replace", "stop", "restart"} :
       command' = [command EXCEPT ![c] = [NoCommand EXCEPT !.at = "locking",
                                                           !.errand = errand]]
  /\ UNCHANGED <<record, heartbeat, process, serviceLock, mishaps>> /\ Serviced

\* Variant: nothing serialises the commands.
LockService_Shared(c) ==
  /\ CommandAt(c, "locking")
  /\ UNCHANGED serviceLock
  /\ MoveTo(c, IF command[c].errand \in {"stop", "restart"} THEN "stopping" ELSE "starting")
  /\ UNCHANGED <<record, heartbeat, process, errands, mishaps>> /\ Serviced

LockService(c) ==
  /\ CommandAt(c, "locking")
  /\ serviceLock = "free"
  /\ serviceLock' = c
  /\ MoveTo(c, IF command[c].errand \in {"stop", "restart"} THEN "stopping" ELSE "starting")
  /\ UNCHANGED <<record, heartbeat, process, errands, mishaps>> /\ Serviced

(***************************************************************************)
(* _start_service_unlocked.  A refused ensure looks at the status once     *)
(* more, which only decides what it returns.                               *)
(***************************************************************************)
RefuseStart(c) ==
  /\ CommandAt(c, "starting")
  /\ RecordTaken
  /\ command[c].errand # "replace"
  /\ End(c)
  /\ UNCHANGED <<record, heartbeat, process, errands, mishaps>> /\ Serviced

StartStops(c) ==
  /\ CommandAt(c, "starting")
  /\ RecordTaken
  /\ command[c].errand = "replace"
  /\ MoveTo(c, "stopping")
  /\ UNCHANGED <<record, heartbeat, process, serviceLock, errands, mishaps>> /\ Serviced

Unused(n) ==
  /\ ~process[n].alive /\ ~PidTaken(n)
  /\ n \notin {record.process, heartbeat.pid}
  /\ \A c \in Command : n \notin {command[c].read.process, command[c].child}
NewNumber == CHOOSE n \in Process : Unused(n)
NumberLeft == \E n \in Process : Unused(n)
FreshPids == {NewNumber} \cup
  IF record.process = 0 \/ RecordTaken THEN {} ELSE {process[record.process].pid}

Spawns(c) ==
  /\ NumberLeft
  /\ \E pid \in FreshPids : process' = [process EXCEPT ![NewNumber] = Watcher(pid)]
  /\ command' = [command EXCEPT ![c].at = "recording", ![c].child = NewNumber]
  /\ UNCHANGED <<record, heartbeat, serviceLock, errands, mishaps>> /\ Serviced

SpawnService(c) ==
  /\ CommandAt(c, "spawning") \/ (CommandAt(c, "starting") /\ ~RecordTaken)
  /\ Spawns(c)

RecordService(c) ==
  /\ CommandAt(c, "recording")
  /\ process[command[c].child].alive
  /\ record' = [process |-> command[c].child, status |-> "running"]
  /\ End(c)
  /\ UNCHANGED <<heartbeat, process, errands, mishaps>> /\ Serviced

\* The identity cannot be read, always so of a dead child, or the record cannot be
\* written: terminate_spawned_process.
\* Variant: the child is left alone.
AbandonStart_KeepsChild(c) ==
  /\ CommandAt(c, "recording")
  /\ IF process[command[c].child].alive THEN Mishap ELSE UNCHANGED mishaps
  /\ UNCHANGED process
  /\ End(c)
  /\ UNCHANGED <<record, heartbeat, errands>> /\ Serviced

AbandonStart(c) ==
  /\ CommandAt(c, "recording")
  /\ IF process[command[c].child].alive THEN Mishap ELSE UNCHANGED mishaps
  /\ process' = [process EXCEPT ![command[c].child].sent = "kill"]
  /\ End(c)
  /\ UNCHANGED <<record, heartbeat, errands>> /\ Serviced

(***************************************************************************)
(* _stop_service_unlocked; restart then starts as with --replace.          *)
(***************************************************************************)
AfterStop(c) ==
  CASE command[c].errand = "stop" -> End(c)
    [] command[c].errand = "restart" ->
         /\ command' = [command EXCEPT ![c].at = "starting", ![c].errand = "replace"]
         /\ UNCHANGED serviceLock
    [] command[c].errand = "replace" -> MoveTo(c, "spawning") /\ UNCHANGED serviceLock

NotedStopped == IF record.process = 0 THEN record ELSE [record EXCEPT !.status = "stopped"]

StopFindsGone(c) ==
  /\ command[c].at \in {"stopping", "waiting"}
  /\ ~RecordAlive
  /\ record' = NotedStopped
  /\ AfterStop(c)
  /\ UNCHANGED <<heartbeat, process, errands, mishaps>> /\ Serviced

\* The group of the pid gets the signal; nothing undoes a KILL.
Sends(sent) ==
  process' = [n \in Process |->
    IF /\ process[n].alive /\ process[n].pid = process[record.process].pid
       /\ process[n].sent # "kill"
      THEN [process[n] EXCEPT !.sent = sent] ELSE process[n]]

StopTerminates(c) ==
  /\ CommandAt(c, "stopping")
  /\ RecordAlive
  /\ Sends("term")
  /\ MoveTo(c, "waiting")
  /\ UNCHANGED <<record, heartbeat, serviceLock, errands, mishaps>> /\ Serviced

\* The time is up.
\* Variant: it is taken for stopped.
StopKills_Trusting(c) ==
  /\ CommandAt(c, "waiting")
  /\ RecordAlive
  /\ UNCHANGED process
  /\ MoveTo(c, "killed")
  /\ UNCHANGED <<record, heartbeat, serviceLock, errands, mishaps>> /\ Serviced

StopKills(c) ==
  /\ CommandAt(c, "waiting")
  /\ RecordAlive
  /\ Sends("kill")
  /\ MoveTo(c, "killed")
  /\ UNCHANGED <<record, heartbeat, serviceLock, errands, mishaps>> /\ Serviced

StopConcludes(c) ==
  /\ CommandAt(c, "killed")
  /\ record' = NotedStopped
  /\ AfterStop(c)
  /\ UNCHANGED <<heartbeat, process, errands, mishaps>> /\ Serviced

\* The process table cannot be read: no signal, no record.
StopRefuses(c) ==
  /\ command[c].at \in {"stopping", "waiting"}
  /\ RecordAlive
  /\ Mishap
  /\ End(c)
  /\ UNCHANGED <<record, heartbeat, process, errands>> /\ Serviced

\* The lock goes with the command; a child it did not record goes on.
CommandDies(c) ==
  /\ command[c].at \in {"stopping", "waiting", "killed", "starting", "spawning", "recording"}
  /\ Mishap
  /\ End(c)
  /\ process' = IF CommandAt(c, "recording")
                  THEN [process EXCEPT ![command[c].child].orphan = TRUE] ELSE process
  /\ UNCHANGED <<record, heartbeat, errands>> /\ Serviced

(***************************************************************************)
(* The processes.  watch beats between scans and, in a thread of its own,  *)
(* during one, well within the age a heartbeat may have.                   *)
(***************************************************************************)
Ends(n) == process' = [process EXCEPT ![n] = [Nobody EXCEPT !.pid = process[n].pid]]
Beats(n) ==
  LET p == process[n] IN p.alive /\ p.kind = "watcher" /\ ~p.hung /\ p.sent = "none"

Beat(n) ==
  /\ Beats(n)
  /\ heartbeat' = [pid |-> process[n].pid, fresh |-> TRUE]
  /\ UNCHANGED <<record, process, command, serviceLock, errands, mishaps>> /\ Serviced

HeartbeatAges ==
  /\ heartbeat.fresh
  /\ \A n \in Process : ~Beats(n)
  /\ heartbeat' = [heartbeat EXCEPT !.fresh = FALSE]
  /\ UNCHANGED <<record, process, command, serviceLock, errands, mishaps>> /\ Serviced

\* Every signal kills but TERM a process that hangs.
Dies(n) ==
  LET p == process[n] IN
    /\ p.alive
    /\ p.sent = "kill" \/ (p.sent = "term" /\ ~p.hung)
    /\ Ends(n)
    /\ UNCHANGED <<record, heartbeat, command, serviceLock, errands, mishaps>> /\ Serviced

\* watch dies of a heartbeat it cannot write, or is killed, or hangs.
WatcherFails(n) ==
  /\ Beats(n)
  /\ Mishap
  /\ \/ Ends(n)
     \/ process' = [process EXCEPT ![n].hung = TRUE]
  /\ UNCHANGED <<record, heartbeat, command, serviceLock, errands>> /\ Serviced

\* Another program gets the pid of the recorded process.
PidReused ==
  /\ record.process # 0
  /\ ~RecordTaken
  /\ NumberLeft
  /\ Mishap
  /\ process' = [process EXCEPT ![NewNumber] = Stranger(process[record.process].pid)]
  /\ UNCHANGED <<record, heartbeat, command, serviceLock, errands>> /\ Serviced

StrangerEnds(n) ==
  /\ process[n].alive /\ process[n].kind = "stranger"
  /\ Ends(n)
  /\ UNCHANGED <<record, heartbeat, command, serviceLock, errands, mishaps>> /\ Serviced

-----------------------------------------------------------------------------
ServiceRecords == [process : {0} \cup Process, status : {"none", "running", "stopped"}]
ProcessRecords ==
  [alive : BOOLEAN, kind : {"none", "watcher", "stranger"}, pid : {0} \cup Process,
   hung : BOOLEAN, sent : {"none", "term", "kill"}, orphan : BOOLEAN]
CommandRecords ==
  [at : {"idle", "judging", "locking", "starting", "spawning", "recording", "stopping",
         "waiting", "killed"},
   errand : {"none", "ensure", "start", "replace", "stop", "restart"},
   read : ServiceRecords, healthy : BOOLEAN, child : {0} \cup Process]

ServiceTypeOK ==
  /\ record \in ServiceRecords
  /\ heartbeat \in [pid : {0} \cup Process, fresh : BOOLEAN]
  /\ process \in [Process -> ProcessRecords]
  /\ command \in [Command -> CommandRecords]
  /\ serviceLock \in {"free"} \cup Command

\* docs/contracts.md: start and stop "use the same serialized lifecycle rule": however
\* ensures, starts, stops and restarts overlap, a host has one watcher that is not on its
\* way out, but for those whose start died before recording them.
OneWatcher ==
  Cardinality({n \in Process : /\ process[n].alive /\ process[n].kind = "watcher"
                               /\ process[n].sent = "none" /\ ~process[n].orphan}) <= 1

\* A record that says stopped is of a process that ended or was killed, also one that
\* did not listen to TERM, and whoever died between the signals and the record.
StoppedIsDown ==
  record.status = "stopped" =>
    ~process[record.process].alive \/ process[record.process].sent = "kill"

\* The service lock and the record describe the watchers of the host (start_service,
\* stop_service).
ServiceSound == OneWatcher /\ StoppedIsDown

\* SECURITY.md: a watcher "is signalled only while its recorded process identity"
\* matches: no program that got a pid of a former watcher is ever signalled.
StrangersUnharmed == \A n \in Process : process[n].kind = "stranger" => process[n].sent = "none"

\* docs/contracts.md: ensure "starts a missing, stopped or crashed service": again and
\* again the recorded watcher lives, unless it hangs, which ensure leaves to a restart,
\* or its former pid belongs to another process, which ensure takes for it.
Blocked == IF RecordAlive THEN process[record.process].hung ELSE RecordTaken

EnsureRecovers == play = "service" => []<>(RecordAlive \/ Blocked)
===============================================================================
