------------------------------ MODULE Operations ------------------------------
(* The detached operations of a project together: local checks, Actions    *)
(* monitors, pull-request monitors and workstreams, and the indexes over   *)
(* what they retain.                                                       *)
EXTENDS LocalCheck, ActionsMonitor, PullRequestMonitor, Workstream, ArtifactIndex

(* What the files of an operation hold.                                    *)
Conclusion == {None} \cup {obs.conclusion : obs \in UNION {Views[op] : op \in Actions}}
Observation == [status : CheckStatus \cup MonitorStatus \cup PullStatus, conclusion : Conclusion]
Publication == [obs : Observation, by : Writer]
EventRecord ==
    [status : {"completed", "failed", "cancelled", "timed_out", "action_required", "unavailable",
               "ambiguous"},
     result : Publication \cup {None}, evidence : Publication \cup {None}]

ASSUME NoneAssumption == None \notin Publication /\ None \notin EventRecord

NoDescriptor == [status |-> "absent", identity |-> FALSE, child |-> "none", run |-> None,
                 execution |-> None, policy |-> None]
NoSupervisor == [at |-> "none", cmd |-> 1, note |-> "passed", clean |-> TRUE]

Init ==
    /\ play \in Plays
    /\ desc = [op \in Op |-> NoDescriptor]
    /\ launch = [op \in Op |-> FALSE]
    /\ result = [op \in Op |-> None]
    /\ evidence = [op \in Op |-> None]
    /\ event = [op \in Op |-> None]
    /\ signal = [op \in Op |-> FALSE]
    /\ starter = [op \in Op |-> "idle"]
    /\ sup = [op \in Op |-> NoSupervisor]
    /\ pen = [op \in Op |-> [w \in Writer |-> Idle]]
    /\ child = [op \in Op |-> FALSE]
    /\ cancel = [op \in Op |-> FALSE]
    /\ faults = 0
    /\ stream = NoStream
    /\ archive = NoArchive
    /\ index = NoIndex

Next ==
    \/ \E op \in Op, w \in Writer :
         \/ WriteResult(op, w) \/ WriteEvidence(op, w) \/ RetainEvent(op, w)
         \/ EventConflict(op, w) \/ RaiseSignal(op, w) \/ CloseDescriptor(op, w)
    \/ \E op \in Op :
         \/ SupervisorDies(op) \/ StarterDies(op) \/ ReaperDies(op) \/ OrphanEnds(op)
         \/ RecordLaunchFile(op)
    \/ \E op \in Check :
         \/ StartCheck(op) \/ LaunchCheckSupervisor(op) \/ ReadCheckSupervisor(op)
         \/ StampCheckSupervisor(op) \/ ClaimCheck(op) \/ RecordCommandLaunch(op)
         \/ SpawnCommand(op) \/ RecordActiveCommand(op) \/ CommandEnds(op)
         \/ ClearActiveCommand(op) \/ ReapCheck(op)
    \/ \E op \in Actions :
         \/ StartActions(op) \/ LaunchActionsSupervisor(op) \/ ClaimActions(op)
         \/ Discover(op) \/ ClaimRun(op) \/ InitialView(op) \/ SpawnWatch(op)
         \/ RecordWatch(op) \/ WatchExits(op) \/ WatchStopped(op) \/ FinalView(op)
         \/ SupervisorRaises(op) \/ SettlingRaises(op) \/ CancelActions(op) \/ ReapActions(op)
    \/ \E op \in Pull :
         \/ StartPull(op) \/ LaunchPullSupervisor(op) \/ ClaimPull(op) \/ SamplePull(op)
         \/ SampleRaises(op) \/ CancelPull(op) \/ ReapPull(op)
    \/ StartStream \/ Checkpoint \/ ApplyCheckpoint \/ PublishCheckpoint \/ CheckpointDies
    \/ ReconcileStream \/ ReconcileDies \/ SetPolicy \/ ResumeStream \/ WallClockPasses
    \/ \E i \in 1..MaxCheckpoints : DeliverContinuation(i) \/ GuardRaises(i)
    \/ \E w \in Publisher :
         \/ PrepareMarker(w) \/ WriteArtifact(w) \/ AppendJournal(w) \/ ClearMarker(w)
         \/ PublisherDies(w) \/ \E a \in Artifacts : ClaimArtifact(w, a) \/ ReplaceArtifact(w, a)
    \/ \E r \in Reader :
         \/ BeginSummaries(r) \/ ScanTasks(r) \/ ReadJournal(r) \/ CommitSummaries(r)
         \/ ClearRecovered(r) \/ BeginCollect(r) \/ PageCandidates(r) \/ Ingest(r)
         \/ AdvanceCursor(r) \/ ReaderDies(r)
    \/ DeleteIndex

(* A process that was not killed goes on; the reaper and the watcher run   *)
(* again and again.  Nothing makes an operator act, a run on GitHub end or *)
(* an orphan exit, and a watch ends only for a cancellation or a timeout.  *)
Publishes(op, w) ==
    WriteResult(op, w) \/ WriteEvidence(op, w) \/ RetainEvent(op, w) \/ EventConflict(op, w)
        \/ RaiseSignal(op, w) \/ CloseDescriptor(op, w)
Starts(op) ==
    \/ LaunchCheckSupervisor(op) \/ ReadCheckSupervisor(op) \/ StampCheckSupervisor(op)
    \/ LaunchActionsSupervisor(op) \/ LaunchPullSupervisor(op) \/ RecordLaunchFile(op)
    \/ Publishes(op, "starter")
Supervises(op) ==
    \/ ClaimCheck(op) \/ RecordCommandLaunch(op) \/ SpawnCommand(op) \/ RecordActiveCommand(op)
    \/ CommandEnds(op) \/ ClearActiveCommand(op)
    \/ ClaimActions(op) \/ Discover(op) \/ ClaimRun(op) \/ InitialView(op) \/ SpawnWatch(op)
    \/ RecordWatch(op) \/ WatchStopped(op) \/ FinalView(op)
    \/ ClaimPull(op) \/ SamplePull(op)
    \/ Publishes(op, "sup")
ReapsOne(op) == ReapCheck(op) \/ ReapActions(op) \/ ReapPull(op) \/ Publishes(op, "reaper")

Fairness ==
    /\ \A op \in Op :
         /\ WF_vars(op \in play /\ Starts(op))
         /\ WF_vars(op \in play /\ Supervises(op))
         /\ WF_vars(op \in play /\ ReapsOne(op))
    /\ WF_vars(ApplyCheckpoint \/ PublishCheckpoint)
    /\ WF_vars(ReconcileStream)

Spec == Init /\ [][Next]_vars /\ Fairness

-----------------------------------------------------------------------------
Clean(op) == sup[op].clean
Notes == {"passed", "failed", "errored", "exited", "cancelled", "timed_out"}

TypeOK ==
    /\ play \in Plays
    /\ \A op \in Op :
         /\ desc[op].status \in {"absent", "starting", "running"} \cup TerminalStatus(op)
         /\ desc[op].child \in {"none", "launching", "active"}
         /\ desc[op].identity \in BOOLEAN
         /\ starter[op] \in {"idle", "spawning", "recording", "stamping", "failing"}
         /\ \A w \in Writer :
              pen[op][w].at \in {"idle", "result", "evidence", "event", "signal", "descriptor"}
         /\ <<launch[op], signal[op], child[op], cancel[op], sup[op].clean>>
                \in BOOLEAN \X BOOLEAN \X BOOLEAN \X BOOLEAN \X BOOLEAN
    /\ faults \in 0..MaxFaults[play]
    /\ stream.files \in Seq(Decision \cup {"needs_user"})
    /\ stream.signals \cup stream.seen \cup stream.delivered \subseteq 1..MaxCheckpoints

(* The descriptor, the retained event, the result and the evidence of a    *)
(* finished operation tell one outcome, whoever wrote each of them.        *)
OutcomeAgrees ==
    \A op \in Op : Terminal(op) /\ Clean(op) =>
        /\ Recovers(op)
        /\ result[op].obs = evidence[op].obs
        /\ event[op] = [status |-> EventStatus(op, Recorded(op)),
                        result |-> result[op], evidence |-> evidence[op]]
        /\ desc[op].status = Recorded(op).status

(* The chat of a finished operation was woken exactly when its policy asks *)
(* for that outcome, also when a reaper completed it.                      *)
SignalAgrees ==
    \A op \in Op : Terminal(op) /\ Clean(op) => signal[op] = Wakes(op, Recorded(op))

(* Outcome and announcement of a finished operation (finalize_monitor,     *)
(* supervise_check and the recoveries).                                    *)
PublicationSound == TypeOK /\ OutcomeAgrees /\ SignalAgrees

(* A detached check is finished only when its command is not running.      *)
NoOrphanCommand ==
    \A op \in Check : Terminal(op) /\ Detached(op) => ~child[op]

(* Two active monitors never share a run, a discovery or a pull request.   *)
OneOwner ==
    /\ \A a, b \in Actions : a # b /\ Active(a) /\ Active(b) =>
         /\ desc[a].run # None => desc[a].run # desc[b].run
         /\ Requested[a] = None /\ Requested[b] = None => DiscoveryKey[a] # DiscoveryKey[b]
    /\ \A a, b \in Pull : a # b /\ Active(a) /\ Active(b) => PullKey[a] # PullKey[b]

(* docs/contracts.md: "ready" is said of an exact head, an open pull       *)
(* request that is no draft, with resolved mergeability, without visible   *)
(* pending or failed checks and with the approval the policy asks for.     *)
Ready(op, s) ==
    /\ s.identity /\ s.head /\ s.state = "OPEN" /\ ~s.draft /\ s.mergeable = "MERGEABLE"
    /\ \A item \in s.checks : CheckCategory(item) = "passed"
    /\ op \in Approval => s.review = "APPROVED"

ReadinessSound ==
    \A op \in Pull : sup[op].at = "publishing" /\ sup[op].note \in Samples[op] =>
        /\ pen[op]["sup"].obs.status = "ready" <=> Ready(op, sup[op].note)
        /\ pen[op]["sup"].obs.status = "merged" =>
             sup[op].note.identity /\ sup[op].note.head /\ sup[op].note.state = "MERGED"

(* The descriptor of a workstream follows its checkpoint files at most one *)
(* behind, counts what they consumed, and authorises only the continuation *)
(* of the last one; nothing follows a completion.                          *)
Automatic(n) == Cardinality({i \in 1..n : stream.files[i] \in AUTOMATIC_DECISIONS})

StreamAgrees ==
    /\ Len(stream.files) - stream.applied \in {0, 1}
    /\ stream.used = Automatic(stream.applied)
    /\ stream.active # 0 =>
         /\ stream.status = "active" /\ stream.active = stream.applied
         /\ stream.files[stream.active] = "continue"
    /\ \A i \in 1..(Len(stream.files) - 1) : stream.files[i] # "complete"

(* Under an unchanged policy the automatic decisions never exceed the      *)
(* limit, whatever crashed between a checkpoint and its application.       *)
WithinLimit ==
    stream.revision = 0 /\ Limit # None => Automatic(Len(stream.files)) <= Limit

(* Checkpoints and limits of a workstream (checkpoint_workstream).         *)
StreamSound == StreamAgrees /\ WithinLimit

(* A finished operation keeps its status.                                  *)
VerdictFinal ==
    [][\A op \in Op : Terminal(op) /\ Clean(op) => desc'[op].status = desc[op].status]_desc

(* A delivered continuation is the last decision of its workstream.        *)
OnlyAuthorised ==
    [][\A i \in stream'.delivered \ stream.delivered :
          /\ i = Len(stream.files) /\ stream.files[i] = "continue"
          /\ stream'.status = "active" /\ ~stream.expired]_stream

(* Decisions stand: an outcome is not taken back by a starter, a reaper or *)
(* a repeated call, nor an old continuation delivered after a newer one.   *)
DecisionsStand == VerdictFinal /\ OnlyAuthorised

(* What the chats are promised: see DetachedOutcome.                       *)
Promise == INSTANCE DetachedOutcome WITH
    admitted <- {op \in Op : desc[op].status # "absent"},
    outcome <- event,
    announced <- {op \in Op : signal[op]}

RefinesOutcome == Promise!Spec

(* Again and again no operation is pending whose supervisor can be judged: *)
(* each is finished by its supervisor, or by a reaper after the supervisor *)
(* died.  Excepted are a command that may have been launched unseen, and   *)
(* the double publications that leave a contradicted event.                *)
Bounded(op) == op \in Check \cup Pull \cup Timed \/ cancel[op]
Unseen(op) == desc[op].child = "launching" /\ ~Alive(op)
Pending(op) == Active(op) /\ SupervisorState(op) # "unknown" /\ Bounded(op) /\ ~Unseen(op)

Settles == []<>((\A op \in Op : Clean(op)) => \A op \in Op : ~Pending(op))

(* Again and again every continuation that was decided has its signal,     *)
(* whatever crashed between its checkpoint and the signal.                 *)
ContinuationsSignalled ==
    []<>({i \in DOMAIN stream.files : stream.files[i] = "continue"} \subseteq stream.signals)
=============================================================================
