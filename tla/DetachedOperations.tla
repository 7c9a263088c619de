-------------------------- MODULE DetachedOperations --------------------------
(* What local checks, GitHub Actions monitors and pull-request monitors    *)
(* share: a descriptor that a starter creates, a detached supervisor that  *)
(* claims it, a result, an evidence and an event that are published in     *)
(* that order, and a reaper that does for a dead supervisor what it left   *)
(* undone.  LocalCheck, ActionsMonitor and PullRequestMonitor add the      *)
(* operations of each kind, Workstream those of the workstream, whose      *)
(* state is the variable stream; Operations puts them together.            *)
(*                                                                         *)
(* Processes that write, each at its own step between file operations:     *)
(* "sup" (the supervisor), "starter" (the dispatching command) and         *)
(* "reaper" (check reap, ci reap, pr reap).                                *)
EXTENDS OperationVerdicts, FiniteSets, Sequences

CONSTANTS
    Check, Actions, Pull,   \* the operations of each kind
    WakePolicy,             \* the requested policy of each operation
    Plays,                  \* sets of operations (or "stream", or an index)
    Sorted,                 \* the operations in the order a reaper visits them
    FaultKind, MaxFaults    \* what may go wrong, and how often in a play

ASSUME KindsAssumption ==
    Check \cap Actions = {} /\ Check \cap Pull = {} /\ Actions \cap Pull = {}
ASSUME MaxFaultsAssumption == MaxFaults \in [Plays -> Nat]

Op == Check \cup Actions \cup Pull
Writer == {"sup", "starter", "reaper"}

VARIABLES
    play,       \* the operations of this behaviour
    desc,       \* check.json or monitor.json
    launch,     \* supervisor-launch.json holds the supervisor's identity
    result,     \* verification-result.json (and summary.txt)
    evidence,   \* evidence.json
    event,      \* the retained terminal event
    signal,     \* the inbox signal exists
    starter,    \* where the dispatching command is
    sup,        \* where the supervisor is
    pen,        \* what each writer is publishing
    child,      \* the command or the gh watch is running
    cancel,     \* cancel-request.json exists
    faults,     \* faults so far
    stream,     \* the workstream (see Workstream)
    archive,    \* the artifacts of the indexes and their publishers,
    index       \* and the indexes with their readers (see ArtifactIndex)

files == <<result, evidence, event, signal>>
processes == <<starter, sup, pen, child>>
others == <<play, stream, archive, index>>
vars == <<play, desc, launch, files, processes, cancel, faults, stream, archive, index>>

Fails(kind) == kind \in FaultKind[play] /\ faults < MaxFaults[play] /\ faults' = faults + 1

-----------------------------------------------------------------------------
(* Observations of one kind of operation.                                  *)

EventStatus(op, obs) ==
    CASE op \in Check -> check_event_status(obs)
      [] op \in Actions -> run_event_status(obs)
      [] OTHER -> pull_event_status(obs)

Wakes(op, obs) ==
    CASE op \in Check -> check_wakes(desc[op].policy, obs)
      [] op \in Actions -> run_should_wake(desc[op].policy, obs)
      [] OTHER -> pull_should_wake(desc[op].policy, obs)

TerminalStatus(op) ==
    CASE op \in Check -> CheckStatus [] op \in Actions -> MonitorStatus [] OTHER -> PullStatus

Terminal(op) == desc[op].status \in TerminalStatus(op)
Active(op) == desc[op].status # "absent" /\ ~Terminal(op)

(* Variant: every operation that is lost is "errored".                     *)
Lost_Errored(op) == Seen("errored")

Lost(op) == Seen(IF op \in Check THEN "errored" ELSE "failed")

Alive(op) == sup[op].at \notin {"none", "gone"}

(* supervisor_process_state: the identity in the descriptor, or else the   *)
(* one in the launch file.  Without either the process cannot be judged.   *)
SupervisorState(op) ==
    IF ~(desc[op].identity \/ launch[op]) THEN "unknown"
    ELSE IF Alive(op) THEN "alive" ELSE "gone"

(* The descriptor lock of a check; the admission lock of all monitors of   *)
(* one kind.  Reapers hold it from their look to their last write.         *)
Peers(op) == IF op \in Check THEN {op} ELSE IF op \in Actions THEN Actions ELSE Pull
Unlocked(op) ==
    \A o \in Peers(op) : pen[o]["reaper"].at = "idle" /\ starter[o] # "stamping"

-----------------------------------------------------------------------------
(* Publication: result, evidence, event, signal, descriptor, one file      *)
(* operation at a time.                                                    *)

Idle == [at |-> "idle", obs |-> None]
Begins(op, w, at, obs) == pen' = [pen EXCEPT ![op][w] = [at |-> at, obs |-> obs]]
Proceeds(op, w, at) == pen' = [pen EXCEPT ![op][w].at = at]
At(op, w, at) == pen[op][w].at = at

Leaves(op, w) ==
    /\ pen' = [pen EXCEPT ![op][w] = Idle]
    /\ sup' = IF w = "sup" THEN [sup EXCEPT ![op].at = "gone"] ELSE sup
    /\ starter' = IF w = "starter" THEN [starter EXCEPT ![op] = "idle"] ELSE starter

WriteResult(op, w) ==
    /\ At(op, w, "result")
    /\ result' = [result EXCEPT ![op] = [obs |-> pen[op][w].obs, by |-> w]]
    /\ Proceeds(op, w, "evidence")
    /\ UNCHANGED <<others, desc, launch, evidence, event, signal, starter, sup, child, cancel, faults>>

WriteEvidence(op, w) ==
    /\ At(op, w, "evidence")
    /\ evidence' = [evidence EXCEPT ![op] = [obs |-> pen[op][w].obs, by |-> w]]
    /\ Proceeds(op, w, "event")
    /\ UNCHANGED <<others, desc, launch, result, event, signal, starter, sup, child, cancel, faults>>

(* The event names the digests of the result and the evidence it was       *)
(* written for.                                                            *)
EventOf(op, w) ==
    [status |-> EventStatus(op, pen[op][w].obs), result |-> result[op], evidence |-> evidence[op]]

(* Variant: a later event replaces the retained one.                       *)
Retains_Always(op, w) == TRUE

Retains(op, w) == event[op] \in {None, EventOf(op, w)}

(* Variant: an event that is there already raises no signal.               *)
RetainEvent_ReplaySilent(op, w) ==
    /\ At(op, w, "event")
    /\ Retains(op, w)
    /\ event' = [event EXCEPT ![op] = EventOf(op, w)]
    /\ Proceeds(op, w, IF Wakes(op, pen[op][w].obs) /\ event[op] = None
                      THEN "signal" ELSE "descriptor")
    /\ UNCHANGED <<others, desc, launch, result, evidence, signal, starter, sup, child, cancel, faults>>

(* _retain_event_and_signal: an event that is there already is kept, and   *)
(* must be the same.                                                       *)
RetainEvent(op, w) ==
    /\ At(op, w, "event")
    /\ Retains(op, w)
    /\ event' = [event EXCEPT ![op] = EventOf(op, w)]
    /\ Proceeds(op, w, IF Wakes(op, pen[op][w].obs) THEN "signal" ELSE "descriptor")
    /\ UNCHANGED <<others, desc, launch, result, evidence, signal, starter, sup, child, cancel, faults>>

(* The conflict is an exception that ends the writer.                      *)
EventConflict(op, w) ==
    /\ At(op, w, "event")
    /\ ~Retains(op, w)
    /\ Leaves(op, w)
    /\ UNCHANGED <<others, desc, launch, files, child, cancel, faults>>

RaiseSignal(op, w) ==
    /\ At(op, w, "signal")
    /\ signal' = [signal EXCEPT ![op] = TRUE]
    /\ Proceeds(op, w, "descriptor")
    /\ UNCHANGED <<others, desc, launch, result, evidence, event, starter, sup, child, cancel, faults>>

(* Every writer closes the copy of the descriptor it has in memory: the    *)
(* supervisor's was read before its child was recorded, the starter's      *)
(* before there was a supervisor.                                          *)
CopyOf(op, w) ==
    CASE w = "sup" -> [desc[op] EXCEPT !.child = "none"]
      [] w = "starter" -> [desc[op] EXCEPT !.child = "none", !.identity = FALSE]
      [] OTHER -> desc[op]

CloseDescriptor(op, w) ==
    /\ At(op, w, "descriptor")
    /\ desc' = [desc EXCEPT ![op] = [CopyOf(op, w) EXCEPT !.status = pen[op][w].obs.status]]
    /\ Leaves(op, w)
    /\ UNCHANGED <<others, launch, files, child, cancel, faults>>

-----------------------------------------------------------------------------
(* finalize_launch_failure: an operation that nobody runs any more is      *)
(* published as lost, by its starter, its reaper or itself.                *)
Abandons(op, w) == Begins(op, w, "result", Lost(op))

(* The dispatching command starts the supervisor, or fails to and          *)
(* publishes that.                                                         *)

Spawns(op) ==
    /\ starter[op] = "spawning"
    /\ sup[op].at = "none"
    /\ \/ /\ sup' = [sup EXCEPT ![op].at = "spawned"]
          /\ starter' = [starter EXCEPT ![op] = "recording"]
          /\ UNCHANGED <<pen, faults>>
       \/ /\ Fails("spawn")
          /\ Abandons(op, "starter")
          /\ starter' = [starter EXCEPT ![op] = "failing"]
          /\ UNCHANGED sup
    /\ UNCHANGED <<others, desc, launch, files, child, cancel>>

(* A monitor's launch file; without it the reaper cannot judge a           *)
(* supervisor that never claims.                                           *)
RecordLaunchFile(op) ==
    /\ op \notin Check
    /\ starter[op] = "recording"
    /\ \/ launch' = [launch EXCEPT ![op] = TRUE] /\ UNCHANGED faults
       \/ Fails("files") /\ UNCHANGED launch
    /\ starter' = [starter EXCEPT ![op] = "idle"]
    /\ UNCHANGED <<others, desc, files, sup, pen, child, cancel>>

-----------------------------------------------------------------------------
(* What may go wrong: a process dies between two of its steps.  A file     *)
(* operation that raises ends a publication in the same way, except where  *)
(* ActionsMonitor catches it.                                              *)

SupervisorDies(op) ==
    /\ Alive(op)
    /\ Fails("supervisor")
    /\ sup' = [sup EXCEPT ![op].at = "gone"]
    /\ pen' = [pen EXCEPT ![op]["sup"] = Idle]
    /\ UNCHANGED <<others, desc, launch, files, starter, child, cancel>>

StarterDies(op) ==
    /\ starter[op] # "idle"
    /\ Fails("starter")
    /\ starter' = [starter EXCEPT ![op] = "idle"]
    /\ pen' = [pen EXCEPT ![op]["starter"] = Idle]
    /\ UNCHANGED <<others, desc, launch, files, sup, child, cancel>>

ReaperDies(op) ==
    /\ pen[op]["reaper"].at # "idle"
    /\ Fails("reaper")
    /\ pen' = [pen EXCEPT ![op]["reaper"] = Idle]
    /\ UNCHANGED <<others, desc, launch, files, starter, sup, child, cancel>>

(* The command or the watch of a dead supervisor may end by itself.        *)
OrphanEnds(op) ==
    /\ child[op] /\ ~Alive(op)
    /\ child' = [child EXCEPT ![op] = FALSE]
    /\ UNCHANGED <<others, desc, launch, files, starter, sup, pen, cancel, faults>>

-----------------------------------------------------------------------------
(* The reaper completes from the artifacts when result and evidence are    *)
(* there, and publishes a failure otherwise.  A check takes its status     *)
(* from the result, a monitor from the evidence.                           *)

Recovers(op) == result[op] # None /\ evidence[op] # None
Recorded(op) == IF op \in Check THEN result[op].obs ELSE evidence[op].obs

(* An operation whose artifacts contradict its retained event ends every   *)
(* reaping with an exception, and those that sort after it are not reached.*)
Contradicted(op) ==
    /\ Active(op) /\ SupervisorState(op) = "gone" /\ Recovers(op)
    /\ event[op] \notin {None, [status |-> EventStatus(op, Recorded(op)),
                               result |-> result[op], evidence |-> evidence[op]]}

Reached(op) ==
    \A i, j \in DOMAIN Sorted :
        (i < j /\ Sorted[j] = op /\ Sorted[i] \in Peers(op)) => ~Contradicted(Sorted[i])

(* Variant: artifacts that are complete only need the descriptor closed.   *)
Reaps_NoEvent(op) ==
    IF Recovers(op) THEN Begins(op, "reaper", "descriptor", Recorded(op))
                    ELSE Abandons(op, "reaper")

Reaps(op) ==
    IF Recovers(op) THEN Begins(op, "reaper", "event", Recorded(op))
                    ELSE Abandons(op, "reaper")
=============================================================================
