# A TLA+ development of OrchestratorEngine

OrchestratorEngine coordinates long-running local work for AI assistants: it
runs worker tasks, checks and GitHub monitors detached from a chat, shares
physical test resources between projects, keeps track of what chats owe each
other, and wakes the right chat when something ends. It has no server it can
trust to stay alive: its state is a directory of JSON files and a few SQLite
ledgers, and any of its processes may die between two steps. Everything below
concerns `src/src/orchestrator_engine/`; source paths in this file are relative
to it unless they start with `docs/`, which is `src/docs/`.

Contents: 1 inventory, 2 modules, 3 runs, 4 fairness, 5 proofs, 6 disagreements
found, 7 further observations, 8 what is not modelled, 9 plan.

## 1. Inventory

| Component | State it keeps | Operations | Interacts through |
|---|---|---|---|
| Resource ledger (`resource_queue.py`) | SQLite: requests, stages, subscribers with generations, outbox, released leaves | submit, schedule, attach, admit, cancel, subscribe, finish, abort, recover | transactions only |
| Resource authority (`resource_service.py`) | spawned runners, configuration, delivery lock | project calls; tick: reconcile, schedule, launch, deliver; configuration update | the ledger, a pipe to each runner, project files |
| Resource runner (`resource_runner.py`) | one process per stage, its contained commands | admit, run, clean up, probe, finish, deliver | the ledger, process groups |
| Worker dispatch and queue (`workers.py`) | `task.json`, queue entries, fingerprint claims, admission lock | run, queue tick, cancel | descriptor files, spawned supervisors |
| Worker supervisor, lease, reaper (`workers.py`, `worker_lease.py`) | `lease.json`, `result.json`, cancellation request | lease, claim, heartbeat, stop, finalize; reap; wait | files, process identities |
| Watcher (`watcher.py`, `codex_app.py`) | state file (seen, deferred, acknowledged), wakeup and acknowledgement receipts; service record, heartbeat | scan, deliver, defer, acknowledge, retry; ensure, start, stop, restart | inbox signals, host processes, file locks |
| Continuity (`continuity.py`) | SQLite: works, owners, endpoints, obligations, requests, replies, waits, activations, incidents, controls | adopt, rebind, checkpoint, transfer, send, accept, respond, resolve, stop, resume, claim, publish, reconcile, self_check | its database, packets and events, the watcher |
| Workstreams (`workstreams.py`) | descriptor, checkpoint files, continuation budget | start, checkpoint, reconcile, policy, resume, guard | signals, the watcher |
| Local checks (`local_checks.py`, `resource_checks.py`) | check descriptor, launch file, results, evidence, the identity of the running command | start, launch, run, publish, reap, view | terminal events, resource requests |
| GitHub monitors (`github_*.py`) | monitor descriptors, result, evidence | start, retry, discover, claim, watch, sample, cancel, publish, reap, view | GitHub, terminal events |
| Waits (`operation_wait.py`, `workers.py`) | none | snapshot, verdict | the descriptors of all the above |
| Durable files (`core.py`) | terminal events, inbox signals, index markers and journals | atomic write, exclusive claim, event then signal | everybody |
| Indexes (`task_diagnostics.py`, `metrics/`) | SQLite indexes over retained artifacts, collector cursor, observations | refresh, rebuild, page, ingest, advance | markers and journals of `core.py` |
| Host adapters (`claude_stream.py`, `vscode_chat.py`) | receipts | deliver one signal | host programs |
| Status, reports, upgrade, adoption, command line | reports | read and report | read-only |

Where the behaviour is hard, and what makes each component correct:

- **Ledger.** Partial releases, late completions, cancellation and recovery of
  one allocation arrive in any order. Correct means: exclusive claims never
  overlap, capacity is never exceeded, nobody but an owner holds a leaf, a
  protected scope is not overtaken, an ended stage stays ended, a settled request
  is announced once and to everybody, and its announcement survives a deliverer
  that dies between any two of its five writes.
- **Authority and runners.** The service, a runner and its commands die
  independently, and launching is four steps over three processes. Correct
  means: live processes own their leaves; a cancelled launch never runs; every
  grant ends or is quarantined.
- **Workers.** A supervisor, two reapers and a canceller may finalize the same
  task, and each may die between result, event, signal and descriptor, while
  chats wait for it. Correct means: terminal records are written once and agree;
  limits and duplicate rules survive crashes; a spawned task settles; a queued
  one leaves the queue; a wait reports no success that is not one.
- **Watcher.** Scans decide on snapshots, the host may or may not have taken a
  message whose sender died, the operator intervenes at any time, and commands
  start and stop the service under each other. Correct means: at most one message
  per operator release, nothing consumed undelivered, nothing delivered after an
  acknowledgement, nothing forgotten; one service, no stranger's process
  signalled, a dead service recovered.
- **Continuity.** Some thirty transactions rewrite the same dozen tables; a
  checkpoint, a new endpoint, a transfer, a stop and a resume each revoke routes
  that only one of them restores. Correct means: what is delivered can be claimed
  and acted on; whoever owes something is reached by a route or held up by a
  reason; claims are single; requests follow a simple lifecycle; reports leave
  out nothing that somebody owes.
- **Checks, monitors, workstreams.** Four processes publish result, evidence,
  event, signal and descriptor of one operation in an order, and a reaper
  completes what a dead one left. Correct means: one outcome, told once to the
  chat when its policy asks; one owner per run and pull request; no command left
  behind; no continuation past its authority or its limit.
- **Indexes.** Publishers never fail because of an index, so an index must find
  out by itself what it missed. Correct means: it never misses a publication for
  good while reporting complete coverage.

The interaction of the parts: a worker (or check, monitor, resource request)
ends with a terminal event and, if its wake policy says so, a signal in the
inbox; watcher scans first reconcile the workstreams and continuity, tick the worker
queue, and then deliver the signals of the inbox, asking the
workstream or the continuity ledger once more before they do; a local check that
needs hardware submits a request to the resource authority, whose outbox rows
come back as events of the project; every file that is published goes through
`core.py`, which feeds the indexes.

## 2. Modules

| Module | Models | Extends or instantiates |
|---|---|---|
| `ResourceScopes` | what the ledger promises: one complete scope at once, never twice, only given back afterwards | - |
| `ResourceLedger` | `resource_queue.Ledger`, one action per transaction | instance of `ResourceScopes` |
| `ResourceSelectors` | `registry`, `assignments`: from the needs of a stage to its complete scopes | `ResourceLedger` |
| `ResourceOutbox` | delivery of the outbox rows to projects, with crashes | `ResourceLedger` |
| `ResourceAuthority` | service tick, clients, runners, commands, administrator | `ResourceLedger` |
| `WaitVerdicts` | what a wait over several operations concludes | - |
| `WorkerTask` | dispatch, queue, supervisor, cancellation, reaper, one file operation at a time | - |
| `WorkerWait` | looks of a wait at tasks, read by read, and what it reports | `WorkerTask`, `WaitVerdicts` |
| `WatcherDelivery` | scans, the Codex delivery protocol, acknowledge, retry, notices of continuity | - |
| `WatcherService` | ensure, start, stop, restart, heartbeat | `WatcherDelivery` |
| `WatcherHost` | the two together: Next, fairness | `WatcherService` |
| `ContinuityLedger` | the tables and the helpers that rewrite them inside a transaction | - |
| `Continuity` | every transaction of the service, publication, claims | `ContinuityLedger`, instance of `RequestLifecycle` |
| `ContinuityViews` | entry packets, status pages, `self_check` and its repair | `Continuity` |
| `RequestLifecycle` | what continuity promises about a request | - |
| `OperationVerdicts` | the pure functions from observations to statuses and wake decisions | - |
| `DetachedOperations` | what checks and monitors share: descriptors, publication, reaping, crashes | `OperationVerdicts` |
| `LocalCheck`, `ActionsMonitor`, `PullRequestMonitor`, `Workstream` | the operations of each kind | `DetachedOperations` |
| `ArtifactIndex` | markers, journals, and the two indexes over retained artifacts | `DetachedOperations` |
| `Operations` | all of these together: Init, Next, fairness, properties | the five above, instance of `DetachedOutcome` |
| `DetachedOutcome` | what a detached operation promises to its chat | - |
| `OperationWait` | waits for checks, monitors and pull requests | `Operations`, `WaitVerdicts` |
| `ResourceLedgerProofs`, `ResourceAuthorityProofs`, `ResourceOutboxProofs`, `WatcherProofs`, `WorkerTaskProofs`, `OperationProofs`, `ContinuityLedgerProofs`, `ContinuityProofs` | theorems and their invariants (section 5) | the component's module |
| `MC*` | instances for the runs | the module they are named for, or the last that extends it |

**`ResourceLedger`.** A transaction is one step, except the scheduling pass: it
is `ScheduleBegin`, one `Grant` or `Protect` per ready stage in ready order, and
`ScheduleCommit`; no other transaction comes between (`Idle`), and it exists only
so that a pass need not be computed by one recursive operator. A pass that rolls
back is a pass that did not begin. `state`, `epoch`, `allocation`, `protection`,
`launchToken`, `cancelRequested` and `outcome` are columns of the stage table;
`submittedBefore` and `readyBefore` are the orders of the request and ready
sequence numbers; `outbox` is the set of outbox rows; `subscribed` and
`generation` the subscriber table. `Options` stands for the result of the
selector search: the alternative complete scopes of a stage. `Finish`, the two
aborts and `Recover` take any epoch and any set of leaves that the code would
accept, so stale and partial completions are all in.

**`ResourceScopes`** keeps of this only `phase` and `holds`. The refinement
mapping (`Phase`, `allocation`) is stated at the end of `ResourceLedger`:
waiting stages are pending, owning ones hold, terminal ones are over.

**`ResourceSelectors`** is the missing half of `Options`: the registry of names
(leaves, aliases, pools, bundles), the backtracking search with its pruning, and,
as the reference, the complete assignments by definition. `AllocationSound` says
that both agree, also while other leaves are booked, that `Options` is what they
give, and that a grant is one of them.

**`ResourceOutbox`** is `deliver` and `deliver_pending`: a deliverer takes the
rows that are due, and writes for each the result file, the descriptor of a check
that the subscriber stands for, the event, the signal and the delivered mark. It
may die or fail in between; only the ledger's outbox remembers what is left.

**`ResourceAuthority`** adds the processes. `tick` is the program counter of the
service thread and its local variables (the reconcile snapshot, the grants, the
stage being launched); `children` the runners this service instance spawned;
`attached` the recorded supervisor identities; `runner` each runner's program
counter; `command` the stages with live contained processes. Clients take the
tick's lock (`Unlocked`), runners do not: their ledger transactions come between
any two steps of a tick. A process identity that cannot be read counts as a fault.

**`WorkerTask`.** `status` is the status field of `task.json` (`created` is the
`{}` that claims the identity), `entry` the queue directory that holds the
task's entry, `claims` the fingerprint claims, `lease`, `result`, `event`,
`signal` and `request` the files of those names, `publisher` the publication
lock, `admission` the admission lock with the place of its holder. Supervisors
and reapers are program counters with what they remember. The supervisor writes
whole snapshots of the descriptor and never reads it again, so `ClaimTask` and
`Heartbeat` are unconditional writes. A lease goes stale at any time
(`LeaseExpires`), whether or not its holder lives. `Fault(kind)` names what may
go wrong: death of a supervisor, of the holder of the admission lock or of a
reaper, a spawn that raises, a file error inside the supervision loop, a process
tree that cannot be confirmed stopped. `WorkerWait` adds whoever waits: a look
reads `task.json` (`LookDescriptor`), then `result.json` (`LookResult`), then probes
lease and process and tells its verdict (`LookHealth`), with any steps of the task
in between. `look` is what a look has read, `dead` counts the looks that called the
task dead, up to two, which is all that tells a first verdict from a repeated one.
Looks at one task follow each other: a second waiter that begins after the verdict
of the first is that later look. `WorkerTask` declares both variables and no action
of a task changes them, so that `WaitNext` is its `Next` and the looks.

**`WatcherDelivery`.** `file` is the state file of one host; each scan carries a
snapshot and its own changes (`scanner[s].file`) and merges them at the end under
the state lock, reading and writing in two steps because `deferred retry` takes
no lock at all. `receipt` is the status of the wakeup receipt, with `accepted`
for queued, woken and submitted. `submitted` and `released` are history: messages
that reached the chat, and receipts an operator released. A submission has the
results the queue command and the App Server can report, among them the ambiguous
ones, of which nobody knows whether the message arrived. Signals in `Notices`
belong to continuity, whose ledger may withdraw them before the submission.

**`WatcherService`.** `record` is the service file, `heartbeat` its heartbeat;
commands are program counters that ensure, start, stop or restart under the
service lock. Processes are told apart by their identity; one of them may be a
stranger that got the recorded pid. `WatcherHost` plays delivery and service
apart, because they share no variable of the code but the settings.

**`ContinuityLedger`, `Continuity`.** A ledger is one record with a field per
table; each helper that the code calls with an open connection is an operator
from ledgers to ledgers, and each transaction composes them in the order of the
code, trailing normalisation included. The actions that are not transactions are
the publication of a row (read, files, mark) and what a chat does when it is
woken. `RequestLifecycle` is the abstract view: a request is owed, held, answered
and handled, once; the mapping is at the end of `Continuity`.

**`ContinuityViews`.** The reports are functions of the ledger, checked against
what the actors owe. `EntryLimit` and `PageLimit` stand for the 64 rows of the
code and are 1, so that truncation happens.

**`DetachedOperations` and its users.** `desc` is the descriptor, `launch` the
launch file, `result`, `evidence`, `event` and `signal` the files of those names;
`sup`, `starter`, `reaper`, `watch` and `child` are processes, and `pen[op][w]`
is where writer `w` is in the sequence result, evidence, event, signal,
descriptor. The order and the file operations are shared; what a kind does
differently (an event conflict, a wake decision, what a reaper may close) is in
its own module. `Plays` selects the operations that exist in a behaviour, so that
one run covers each kind alone and the pairs that compete. GitHub is the
environment: `Views` and `Samples` are what it may answer.

**`Workstream`.** Checkpoint file, descriptor and signal are three writes; every
later operation reconciles first. Delivery asks the guard, which reads the
descriptor again.

**`ArtifactIndex`.** Marker, replacement, journal record and removal of the
marker are four steps of a publisher that may die in between; a reader rebuilds
its index if a marker shows that the journal misses something. The candidates
of the metrics collector have in addition a cursor outside the index, which moves
after what it passed over was stored.

## 3. Runs

All runs use breadth-first search over the complete state space of their
instance. A run's `play`, `session` or `agenda` is chosen in the initial state
and selects what that behaviour is about.

| Run | Instance | Shows |
|---|---|---|
| `ledger` | 4 stages of 2 requests in 2 projects plus one more request, leaf A of capacity 2, leaf B of capacity 1, registry with pool, bundle, alias and nesting, one subscriber with 2 generations, a deliverer with 1 interrupt; three sessions; fair delivery | allocation is exclusive, within capacity, protected, dependency-ordered and final; selectors find exactly the complete scopes; implements `ResourceScopes`; every settled request is announced once and consistently, incidents before results |
| `authority` | 2 stages on 2 leaves, one with a probe and cleanup, 2 faults, fair | live work owns its leaves, a cancelled launch never runs, every grant resolves |
| `worker_task` | 1 delayed cancellable task, 2 reapers, slow start, 1 fault of any kind | terminal records are written once and agree; a wait that reads its files one after another tells the truth, and what its verdict of death says stands; a task cancelled in the queue never runs |
| `worker_live` | 2 tasks with the same fingerprint (one with an override), 1 slot, 1 fault of any kind, fair | limits, duplicate rule, terminal descriptors stay terminal; spawned tasks settle, queued tasks leave the queue |
| `watcher` | plays: delivery of 1 signal by 2 overlapping scans with 1 operator, 2 attempts, 1 retry, 1 crash; the same for a notice that the ledger may withdraw, with 1 busy thread; the service under 2 commands, 1 errand, 2 mishaps; fair | at most one message per release, nothing lost, nothing after an acknowledgement, everything settles; one service, no stranger signalled, a dead service recovered by `ensure` |
| `continuity` | 2 actors, 1 work, 14 agendas over 2 obligations, 2 requests with replies, 1 informational request, 1 external source | the tables agree; every live notice can be acted on; no debt or owner is forgotten; reports are truthful; finished rows stay; requests implement `RequestLifecycle` |
| `operations` | plays: each of 3 checks, 5 Actions monitors and 3 pull-request monitors alone or in the pairs that compete, a workstream with 4 checkpoints, and the two indexes with 2 publications; up to 3 faults per play, fair | one outcome per operation, told once; one owner per run and pull request; readiness exact; no orphan command; no continuation past its authority or limit; waits and indexes claim no more than the files say; implements `DetachedOutcome` |
| `authority_race`, `worker_late_start`, `worker_cancel_crash`, `worker_wake`, `continuity_stop` | violations | section 6, F1 to F5 |

The state spaces have 312,634 (`ledger`), 176,070 (`authority`), 1,468,344
(`worker_task`), 299,554 (`worker_live`), 461,201 (`watcher`), 178,282
(`continuity`) and 352,467 (`operations`) distinct states.

Properties are conjunctions of named parts where the parts concern one concern:
`HoldingsSound` (`NoConflict`, `WithinCapacity`, `OnlyOwnersHold`,
`DependenciesDone`), `AllocationSound` (`SearchExact`, `OptionsSearched`,
`GrantsComplete`), `DeliverySound` (`AtMostOnce`, `NothingLost`), `ServiceSound`
(`OneWatcher`, `StoppedIsDown`), `AnnouncementsSound` (`OneFinalResult`, `OutboxComplete`,
`FilesAgree`), `TaskConsistent` (`TypeOK`, `TerminalAgrees`, `WaitTruthful`),
`VerdictsStand` (`RecordsFinal`, `DeathStands`), `AdmissionSound`
(`LimitsRespected`, `DuplicatesExcluded`), `PublicationSound` (`TypeOK`,
`OutcomeAgrees`, `SignalAgrees`), `StreamSound`, `DecisionsStand`, `Progress`,
`ReportsTrue` (`WaitTruthful`, `IndexTruthful`), `LedgerConsistent` and
`NobodyForgotten`; their definitions name the parts.

Why these bounds. *Ledger:* conflicts are between two stages, capacity needs two
shared holders beside an exclusive wish, protection needs a stage that waits for
two leaves while another takes one of them, dependencies need a chain of two,
and leaving and returning is generation 2. The instance has each of these and
lets them overlap; delivery is played where one request is alone, because rows of
different requests share nothing but the lock. *Authority:* the races are between
one tick and one runner; the second stage contends for the leaf. Two faults cover
a crash during the handling of a crash. *Workers:* each file has at most three
writers, one each of supervisor, reaper and canceller; two reapers cover two of a
kind; two tasks and one slot make the limit bind. One fault is enough for every
pair of steps of two processes, because the fault may fall anywhere; with one
task `SpawnedSettles` also holds under any two faults. A look meets one of the two
reapers (`OneReaperSeen`), because it cannot tell which of them publishes; the
theorem has no such bound. *Watcher:* signals share
nothing but the state file, whose merge works key by key, so one signal and two
scans contain the races; `MaxAttempts = 2` distinguishes first, repeated and last
attempt; a service play has six process identities, enough for a watcher per
command, their predecessors and a stranger. *Continuity:* an agenda names what a
behaviour may use and how many rows, revisions, generations and disruptions it
has; together they pair every kind of debt with every kind of disruption.
`EntryLimit = PageLimit = 1`, so that every report is truncated as soon as two
things are owed. *Operations:* operations of different kinds share no file, so
one alone shows its crashes and two of a kind their races (`Plays`); the pairs
have fewer faults because the race is the point. *Indexes:* two publications and
one fault, which may be a death of publisher or reader, a marker or a journal that
cannot be written, or the removal of the index; the collector's page has one
candidate, so it is always truncated. With two publishers, two readers or two
faults `IndexTruthful` was checked separately.

`CHECK_DEADLOCK FALSE` everywhere: each system may legitimately be quiescent
(every request ended, every task terminal, every bound of the environment used).

Every property has a variant definition in its module, preceded by a comment
`Variant` or `Mutant`, which is a plausible mistake in the code that violates
it; `PROJECT.json` lists which. The variants are never used by a specification.

## 4. Fairness

- `ResourceOutbox`: strong fairness of the deliverer. The service delivers in
  every tick and every runner at its end; a row that failed is tried again, and
  the delivery lock and SQLite's write lock are retried until they are got.
- `ResourceAuthority`: weak fairness of the tick's steps and of restarting the
  service (`serve` loops for ever and its owner restarts it), strong fairness of a
  runner's steps, because a runner waits for the SQLite write lock that the tick
  holds for one pass at a time. Commands end or are stopped at their timeout.
  Nothing is assumed of clients, of orphans or of the administrator.
- `WorkerTask`: weak fairness of every process that is in the middle of something
  and of time; ticks repeat while an entry is pending, because each watcher scan
  runs `queue_tick` then; reaping repeats. The last is an assumption on the
  operator when no entry is pending: no process of the repository reaps by itself
  then, so a task whose supervisor died stays `running` until somebody calls
  `worker reap`. Liveness also assumes that a supervisor takes its lease within
  the expiry period (`SlowStart = FALSE`); F2 shows what happens otherwise.
- `WatcherHost`: scans repeat; a process that waits for a lock that is free
  again and again gets it (strong fairness of `ScanRead` and `AckReceipt`); the
  target thread is not active for ever (`MaxBusy`): against a thread that is,
  the documentation promises retries only. Commands go on unless they die,
  somebody calls `ensure` again and again, and a process that was sent KILL dies.
- `Operations`: weak fairness of starters, supervisors and reapers, each while
  its operation is played, and of the reconciliation that every watcher scan runs.
  Nothing makes an operator act, a run on GitHub end or an orphan exit; a watch
  ends only for a cancellation or a timeout.
- `Continuity` and `ArtifactIndex` have safety properties only. The code promises
  no time by which a chat acts; that a notice exists and is deliverable is a state
  property (`NobodyForgotten`).

## 5. Proofs

`tlapm` checks eight modules. Each theorem holds for every value of the constants
that the named assumptions allow; the runs show the same properties on one
instance. Where a run's property is a conjunction, the theorem names it as a
whole.

| Module | Theorem | States |
|---|---|---|
| `ResourceLedgerProofs` | `TypeCorrect`, `HoldingsSafe`, `EndedIsFinal`, `ProtectionKept`, `OutboxIsSound` | `TypeOK`, `HoldingsSound`, `EndedForGood`, `ProtectionHonoured`, `OutboxSound` |
| | `LedgerRefinesScopes` | the ledger implements `ResourceScopes` |
| `ResourceAuthorityProofs` | `AuthorityImplementsLedger` (with it `LedgerPromisesHold`) | the composition of service, runners, commands and administrator implements the ledger, so its properties hold there |
| | `LiveWorkIsOwned`, `CancelledNeverAdmitted` (from `AuthorityInvariant`) | `LiveWorkOwns`, `CancelledBeforeAdmission` |
| `ResourceOutboxProofs` | `AnnouncementsAreSound`, `ResultComesLast` | `AnnouncementsSound`, `AdvisoryBeforeResult` of the composition of ledger and deliverer |
| `WatcherProofs` | `WatcherTypeCorrect`, `DeliveryIsSound`, `AcknowledgedStaysUnclaimed`, `ServiceIsSound`, `NoStrangerSignalled` | `TypeOK`, `DeliverySound`, `AcknowledgedNotClaimed`, `ServiceSound`, `StrangersUnharmed` |
| `WorkerTaskProofs` | `TasksAreConsistent`, `VerdictsHold`, `CancelledTasksNeverRun` (from `TaskInvariant`) | `TaskConsistent`, `VerdictsStand`, `CancelledNeverRuns` |
| | `AdmissionIsSound`, `TerminalDescriptorsStay` (from `InTimeInvariant`) | `AdmissionSound`, `TerminalStays`, while leases are taken in time |
| `OperationProofs` | `PublicationIsSound`, `NoOrphanIsLeft`, `OwnersAreApart`, `ReadinessIsSound`, `StreamStaysSound`, `DecisionsAreKept` (from `InOrder`) | `PublicationSound`, `NoOrphanCommand`, `OneOwner`, `ReadinessSound`, `StreamSound`, `DecisionsStand` |
| | `OutcomeIsRefined` | checks and monitors implement `DetachedOutcome` |
| | `ReportsStayTrue` (from `InOrder` and `IndexesInOrder`) | `ReportsTrue` |
| `ContinuityLedgerProofs` | lemmas only | what each helper of a transaction keeps, adds and does to the requests |
| `ContinuityProofs` | `LedgerStaysConsistent`, `DeliveryIsClaimable`, `NobodyIsForgotten`, `FinalRowsStay` (from `Invariance`) | `LedgerConsistent`, `DeliverableIsClaimable`, `NobodyForgotten`, `FinalStays` |
| | `RequestsAreRefined` | the ledger implements `RequestLifecycle` |

**Assumptions.** They are `ASSUME`s of the modules and TLC evaluates them in the
runs. The ledger assumes a finite set of stages, that every stage is of a request
and every request of a project, dependencies and options of the right type (not
that the dependencies are acyclic), capacities of at least 1, and that the order
of a plan never puts two stages before each other. The watcher assumes that scans,
operators and commands are different processes and a positive attempt limit. The
workers assume limits of at least 1. Operations assume that an operation is of one
kind, that a view of a run that GitHub may answer is one the code can make of it
(`Observed`), that snapshots of a pull request have the fields the code reads, and
that fault bounds and limits are numbers. Continuity (`LedgerConstants`,
`ContinuityConstants`) assumes finitely many works, obligations, requests and
external sources, that a request and its reply obligation are of one work and one
recipient and that no two requests share a reply obligation (`request_send` makes
one for each), that the source of an external operation is no obligation, and that
the bounds of an agenda are numbers. Indexes (`IndexConstants`) assume that the
artifacts are a finite sequence and that a page of the collector has at least one
candidate, which the command line enforces. Numbers of tasks, reapers, scans, commands,
processes, chats and faults are arbitrary, and so are the kinds of faults.

**Holdings.** `LedgerInv` is the type invariant, `NoConflict`, `OnlyOwnersHold`,
`DependenciesDone` and `PassReady`. The last is what makes it inductive: `Grant`
looks only at options and claims, so the invariant must say that the stages a pass
has still to decide are waiting and their dependencies passed, which holds because
no other transaction comes between. `Finish` is the hard step, because it takes any
set of leaves a stale caller may name: `FinishSafe` shows that what remains of a
scope keeps its exclusions. Capacity is a sum over the holders of a leaf, which is
a fold; `SumCounts` replaces it by the cardinality of the set of pairs of a holder
and one of its units, so that facts about finite sets give what an induction over
the fold would. `GrantWithinCapacity` is then the arithmetic of `compatible`.

**Refinement.** `StepKinds` says that every transaction moves stages between
phases without touching leaves, or makes one stage give leaves back, or grants one
stage an option; each of the three maps to a step of `ResourceScopes` or to a
stutter. Withdrawing several stages in one transaction (cancellation, skipped
dependants, recovery) is one abstract step.

**Protection.** Needs `OrderInv`: the orders of submission and readiness never
order two stages both ways and speak only of present stages. So when the oldest
undecided stage is granted, every stage before it has been decided, and its
protection is in what the grant must leave free.

**Authority.** `LedgerCalls` shows that every step of the composition is a
transaction of the ledger or leaves it alone. It is not obvious, because the
processes call with what they remember: the stage a tick has in hand, the verdict of
a runner, the outcome an administrator read. So `AuthorityInv` says what those
memories are worth: whoever is in a tick's grants is still granted and has no runner
(`TickFollows`), a runner that was admitted, or processes that are left of one, are
of a stage that holds what it was granted (`RunnerFollows`), and a stage that is
being recovered has no processes and will not get any (`AdminFollows`, by
`GoneStays`). `LiveWorkOwns` is part of it. For `CancelledBeforeAdmission`,
`BlockedStays` shows that a cancelled stage without an admitted runner stays one:
every path to a command passes `Admit`. The administrator's assessment that the
processes are gone is a premise of the model, as it is of the command
(`recover` refuses without quiescent evidence).

**Outbox and delivery.** `OutboxInv` says that outside a pass, and inside it for
the requests the pass did not collect, every current subscriber has its row.
`LedgerOfOutbox` shows that the composition implements the ledger (the deliverer
leaves the ledger alone), so all its invariants hold there. `DeliveryInv` then says
for each place of the deliverer what has been written; that a delivered row is
complete or stale for good; and that rows that share a result file have the same
status. The deliverer's two re-checks of the ledger before the event are what the
incident steps rest on.

**Watcher.** Delivery and service share no variable (`TwoHalves`), so each has its
own invariant. Delivery: `HoldsLock` (who is in the middle of a signal holds its
lock) and `BudgetKept`: a claim uses up what the first message or a release of the
operator allowed, and stays used up when the receipt is released under its
claimant; an ambiguous result keeps it used. Seen marks are hard because scans and
retries write back old copies of the state file: `SeenIsJustified` therefore speaks
of every copy, and `ReasonsStay` shows that a reason for a mark never goes away.
Service: `LooseKnown` and `CommandsFit` say that a watcher nobody sent a signal is
the recorded one or that of the command about to record it, and that a command
spawns only when the recorded one is on its way out. `StrangersUnharmed` needs
`PidsDistinct` (two living processes have different pids) and that a record is
always of a watcher, dead or alive.

**Workers.** `TaskInv` holds whatever fails and however late a supervisor starts.
It says what a descriptor shows to the holder of the admission lock
(`DescriptorFollows`), that a task is spawned at most once and nobody dispatches,
admits or cancels it under the lock afterwards (`StartedOnce`), how far each of the
three writers of a result has come with it (`PublicationFollows`), and that a task
cancelled in the queue is in no queue and no tick (`CancelledIsOut`). That results
are written once does not come from a lock: the publication lock is taken again by
whoever comes later, so the invariant says of each writer that what it is about to
tell equals what is written (`ResultSources` lists who may write).

`InTimeInv` is the invariant of the code's timing assumption. A reaper judges a
task without a lease by the age of its descriptor, and a supervisor writes
descriptors without reading them; both are right only if a supervisor takes its
lease before the expiry period ends, which is `SlowStart = FALSE`. Then a reaper
that acts has before it a task nobody will drive any more (`ReapsOrphan`,
`OrphanStays`), a descriptor is active while its supervisor drives it
(`DescriptorIsRight`), accepted work is claimed (`ClaimsCover`), and the limits hold
of the descriptors, with a place free for the task a tick has moved
(`PlacesKept`). The hypothesis cannot be dropped: F2 is the counterexample. It is
not stronger than what the documentation of the lease assumes.

The invariants of tasks are proved of `TaskSpec`, which says what tasks do, whoever looks
at them, and which `Spec` and `WaitSpec` imply (`WaitsOnlyLook`). Waits have an invariant
of their own, `LooksFollow`, about what a look has read. What
it read of a finished task stays true, since records are final (`RecordsStay`), so a
wait need not read at one moment to tell the truth. A verdict of death finds a
supervisor that is gone for good (`DeadIsGone`, `GoneStays`), after which only a reaper
publishes, a failure (`OnlyFailureFollows`). It does not follow that the task failed:
the result may have been published after the look read `result.json` (section 7).
What follows is `DeathStands`: a look that begins after that verdict reads a result
that is there, so a second verdict of death is of a task that has not succeeded and
never will (`DeadFollows`).

**Operations.** The whole state of one operation (descriptor, files, pens, starter,
supervisor, command) is its *row*. Each of the about fifty actions is proved once to
be one of a handful of kinds of steps of one row (`Kept`, `RowStep`: a writer puts
its next file, a supervisor claims, works, concludes or dies, a reaper takes over)
that leaves all other rows alone; everything else is proved about the kinds. The
invariant of a row (`RowInv`) has five parts. `Verdicts`: what a writer holds is an
outcome its kind can have. `Stations`: which of starter, supervisor and reaper can
be where, from the launch file and the recorded identity; the reaper comes only
after a supervisor that was known and is dead. `Announced`: at most one of the three
writes (`OneWriter`), result and evidence of a writer agree with what it holds, and
whoever puts an event found the files of one outcome (`FilesAgree`, `PenFollows`,
`Told`). `ChildFollows`: the descriptor admits to the command before it is spawned
and until it ended. `Sampled`: what a pull-request supervisor publishes was judged
of the sample it took. `Owners` relates rows: the exclusion of runs, discoveries and
requests, kept by the two tests under the lock. `Clean(op)` excepts, as in the
property, the double publication described in section 7. The refinement then needs
only that an event is put once and by somebody whose operation was admitted.

**Workstream.** `Sound(stream)` is an invariant of the record alone, proved for each
helper that maps records to records (`AppliedSound`, `PublishedSound`,
`ExpiredSound`, `ReconciledSound`), because every operation reconciles first and the
composition is what an action does. The budget is a cardinality over the checkpoint
files: `CountNext` and `CountPrefix` say how it grows, and `Limited` has the case of
a file that is written but not yet applied, which is where a crash would let the
limit be passed.

**Waits and indexes.** What a wait tells follows from `Rows` alone: a report names a
terminal status exactly for a finished operation (`ReportedTerminal`), counts as
success only what was concluded as success (`SuccessTold`), and the end of a wait
is that of its snapshot (`SnapshotTold`, `EndsFrom`, together `WaitsTold`). An index
is true by an invariant of its own, `IndexSound`, because a reader learns of a
publication from the journal or from a ready marker, and either may be missing or
be removed at any moment. It has four parts. `IndexShape`: at most one reader is in a
transaction. `Numbers`: every publication has its own number, and a ready marker is
of something already written. `SummariesHold`: a row is that of the archive, or one
of its files is `Missed`, that is, named by the journal after the offset of the
index or by a marker that nobody is about to remove; a publisher that is still
underway is not enough, since it may die, and this is what is stronger than the
property. It is said of the committed tables and of those of an open transaction.
`CandidatesHold`: what the cursor of the collector has passed was taken or is
missed, for the cursor on record and for the one each collector has in hand.
Publishers keep what is missed (`Announces`); a refresh only adds candidates with
higher numbers (`RefreshEffect`) and a page passes over nothing it does not take
(`PageEffect`). `IndexesTell` is the step from the invariant to the property.

**Continuity.** The ledger of requests, works, assignments, messages and notices is
one record `led`, and every transaction is a composition of some forty helpers on
it. `ContinuityLedgerProofs` has an effect lemma per helper, so that the proofs of
the actions never expand one: which tables it keeps (`Keeps`), that rows only join
(`Extends`), that final rows stay (`Onward`), that references stay inside the tables
(`Within`), and what it does to a request (`Quiet` or a move of `RequestLifecycle`).
In the middle of a transaction the ledger need not be consistent, so the invariant
is `GoodBut(d, P)`: every relation between the tables holds, except the route of the
assignments in `P`, which the trailing normalisation restores. Its parts are the
relations of a work to its assignments (`WorkKept`), a debt to its work (`DebtKept`),
a request to its debt and its continuation (`RequestKept`), a message and a notice to
the rows they name (`Addressed`, `NoticeKept`, `LiveKept`, `NudgeKept`), and a settled
obligation to its verdict (`Settled`). A reconcile folds such helpers over sets;
since no induction over data is available, the fold lemmas take a minimal
counterexample from the well-founded order of the subsets (`WFMin`). Each action is
then a step of `Steps`: `GoodBut`, `Onward`, `Within` and the life of its requests,
from which follow `LedgerConsistent` and `DeliverableIsClaimable` (as invariants,
with the facts that what is being published, and each event, names a signal),
`FinalStays`, and, request by request, the steps of `RequestLifecycle`.

`NobodyForgotten` speaks of what a reconcile started in any state would bring about,
so it needs an invariant about what a reconcile starts from: `Routed(ledger)`. An
assignee that is to go on has a claim on record or a live notice (`DebtRouted`), a
claim of an assignment without checkpoint is of the obligation's present generation
(`InStep`), and the owner of every work in mode `continue` has an active notice of the
work's present revision at its present endpoint (`OwnerRouted`). A helper may take a
route away that its transaction makes again a few lines later, so the helpers' lemmas
say which debts and works they leave routed (`Routes(d, e, O, W)` exempts those the
transaction is about to route), and each transaction as a whole `Remembers`: it ends
routed when it began so. `ReconciledKeeps` says what the folds of a reconcile bring
about, and `DebtReached` and `OwnerReached` conclude for one debt and one owner.

**Only model-checked.** Liveness and everything with fairness (`DeliveryKept`,
`GrantsResolve`, `SpawnedSettles`, `QueuedProgresses`, `SignalsSettle`,
`EnsureRecovers`, `Progress`), because the provers have no ENABLED. The modules with
recursive operators (`AllocationSound`, `ReportsTruthful`).

How the proofs are laid out: a lemma per conjunct of an inductive invariant, with a
step for each action that touches what the conjunct speaks of and common steps for
those that do not; lemmas named `...Typed` or `...Effect` say what an operator that
several actions share does, so that the steps need not expand it.


## 6. Disagreements between code and documentation

- **F1** (`authority_race`, `resource_service.py:675`). `reconcile` finishes a
  stage from a snapshot. A runner that committed `passed` with an uncleared leaf
  in between is still an owner of the same epoch, so the failure of `reconcile`
  overwrites the outcome; the next pass skips the dependants that
  `docs/resource-coordination.md` says keep waiting.
- **F2** (`worker_late_start`, `workers.py:3159`). A starting task without a
  lease is taken for lost when its *creation* is older than the lease expiry, so
  a task that waited in the queue may be finalized while its supervisor starts,
  and the supervisor then writes `running` over the terminal descriptor.
- **F3** (`worker_cancel_crash`, `workers.py:1980`). When the cancellation of a
  queued task dies after `result.json`, each repetition ends in a `KeyError` and
  the task stays queued.
- **F4** (`worker_wake`, `workers.py:3329`). A reaper that completes the
  publication of a retained `completed` result decides about the signal by its
  own `failed` verdict, so an on-failure task signals.
- **F5** (`continuity_stop`, `continuity.py:2145`). Resolving an obligation
  evaluates the owner's wait without asking for an explicit stop, so a stopped
  work is activated although `docs/multi-chat-continuity.md:335` says stops
  suppress every continuation.

## 7. Further observations

Not separate runs; each was met while modelling, and the models follow the code.

- *Waits for workers.* The guard of `worker_wait_health` (`workers.py:2213`) covers a
  result the look has read. A supervisor that publishes and exits between the reading
  of `result.json` (`workers.py:2131`) and the probe (`workers.py:2245`) is still
  told as `supervisor_dead`, of a task that completed: the false alarm the comment
  there means to rule out. Looking again tells the result; `DeathStands` says so.
- *Workers.* A tick that dies after moving an entry to `admitted` leaves the task
  queued for ever (so `QueuedProgresses` speaks of the entry); a dispatch that dies
  between claim and descriptor blocks identical work; a file error in the
  supervision loop reports the task failed while its worker runs; the reaper
  writes back descriptor fields it read before.
- *Checks and monitors.* `should_wake` of pull requests has no `never` branch
  (`github_pull_requests.py:832`); `plan_check` prefers the median of the history
  to the configured estimate, `docs/contracts.md` says the opposite; the early
  finalizations of an Actions supervisor sit inside its `try`, so a file error can
  publish twice and leave a contradicted event that stops every later `ci reap`.
- *Workstreams.* A file error of the delivery guard leaves the signal seen for
  good (`GuardRaises`).
- *Watcher.* `deferred retry` writes back the state it read without a lock and may
  drop a concurrent acknowledgement from the state file; delivery still respects
  it, because the acknowledgement receipt decides. A recorded pid that another
  program got makes `start` and `ensure` refuse (`EnsureRecovers` excepts it); a
  starter that dies between spawn and record leaves a second watcher unrecorded.
- *Resource delivery.* A subscriber who leaves and returns with an identical
  record before the first row is delivered gets the rows of both generations; an
  advisory superseded between event and signal stays without signal.
- *Continuity.* A resolved obligation whose assignee gets a new endpoint makes
  `self_check` report `assignment_wait_not_activated` for ever; a finding resolved
  by a repair and recurring with the same digest stays dismissed; notices of
  transferred, paused or completed works may be delivered that their claim then
  refuses; `self_check --repair` duplicates a claimed continuation.
- *Indexes.* `claim_json` creates the empty file before its marker, so a death in
  between leaves an artifact no index shows while coverage is reported complete; a
  marker whose artifact was superseded stays pending for good; removing the
  candidate index restarts its numbering under the stored cursor.

## 8. What is not modelled

Per component, with reasons, in `PROJECT.json`. In short: pure data (profiles,
prompts, telemetry, evidence documents), read-only views, one-shot scripts,
operating-system calls and the other hosts' protocols are left out for good.

Assumptions of the models: one supervisor per operation; the process table is
readable unless a fault says otherwise; a foreground check records no command; a
repeated identity changes nothing; a file error in a publication is the death of
its process except where `ActionsMonitor` catches it; one deliverer at a time
(`delivery.lock`); in the service, identity check and signal are one step and an
unhung watcher beats within the age limit; a wait for checks or monitors reads each
descriptor and probes its supervisor at one moment (finished descriptors are final);
no two publications have equal bytes.

Left out inside modelled components: configuration update, input capture and
transport of the resource authority; resource-managed start and cancellation of
checks, the history file; the delivery preflight, usage and retained outputs of
workers, `retry_worker_task`; notes, aliases, migrations, backoff lengths,
`capability_blocked` and the recovery batch limit of continuity; migrations of
every kind; conversion of artifacts to observations.

## 9. Plan

Every safety invariant and action property of the runs is proved but two,
`ReportsTruthful` and `AllocationSound`: their modules use recursive operators; they
would have to be written with recursive functions over the registry and the pages,
with an induction by minimal counterexample as in `WFMin`.

Beyond the proofs: the resource-managed start and cancellation of checks, and
`retry_worker_task`, are the parts of modelled components whose control is not in a
module yet.
