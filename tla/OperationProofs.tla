----------------------------- MODULE OperationProofs -----------------------------
(***************************************************************************)
(* What holds of checks, monitors and workstreams for every number of      *)
(* them, of commands, runs, samples and faults.  An operation is described *)
(* by its row, the values of the variables at it; every step is a step of  *)
(* one operation, of the workstream or of the indexes, and leaves all other *)
(* rows alone.  The workstream has an invariant of its own, and so have    *)
(* the indexes.                                                            *)
(***************************************************************************)
EXTENDS OperationWait, FiniteSetTheorems, SequenceTheorems, WellFoundedInduction, TLAPS

(***************************************************************************)
(* Types.                                                                  *)
(***************************************************************************)
Run ==
  {None} \cup {Requested[op] : op \in Actions} \cup {PullKey[op] : op \in Pull}
    \cup UNION {Matches[DiscoveryKey[op]] : op \in Actions}
Policy == {None, "always", "never"} \cup {WakePolicy[op] : op \in Op}
Executions == {None, "foreground", "detached"} \cup {Execution[op] : op \in Check}
Descriptors ==
  [status : {"absent", "starting", "running"} \cup CheckStatus \cup MonitorStatus \cup PullStatus,
   identity : BOOLEAN, child : {"none", "launching", "active"}, run : Run,
   execution : Executions, policy : Policy]

\* Where a supervisor is while it does its work.
Working ==
  {"command", "spawn", "record", "wait", "clear", "clear failed",
   "discovering", "claiming", "viewing", "watch", "recording", "watching", "reviewing", "polling"}
Supervisors ==
  [at : {"none", "spawned", "settling", "publishing", "gone"} \cup Working, cmd : Nat,
   note : Notes \cup Run \cup UNION {Samples[op] : op \in Pull}, clean : BOOLEAN]

Places == {"result", "evidence", "event", "signal", "descriptor"}
Pens == [at : {"idle"} \cup Places, obs : Observation \cup {None}]

Shape ==
  /\ play \in Plays /\ faults \in 0..MaxFaults[play]
  /\ desc \in [Op -> Descriptors]
  /\ launch \in [Op -> BOOLEAN] /\ signal \in [Op -> BOOLEAN]
  /\ child \in [Op -> BOOLEAN] /\ cancel \in [Op -> BOOLEAN]
  /\ result \in [Op -> Publication \cup {None}]
  /\ evidence \in [Op -> Publication \cup {None}]
  /\ event \in [Op -> EventRecord \cup {None}]
  /\ starter \in [Op -> {"idle", "spawning", "recording", "stamping", "failing"}]
  /\ sup \in [Op -> Supervisors]
  /\ pen \in [Op -> [Writer -> Pens]]

Busy(k, w) == pen[k][w].at # "idle"

\* The outcomes that an operation may have, and where one is told of it.
Final(k, obs) == obs \in Observation /\ obs.status \in TerminalStatus(k)
\* What a supervisor remembers fits the place it is at.
NoteFits(k) ==
  /\ k \in Check => sup[k].note \in {"passed", "failed", "errored"}
  /\ sup[k].at = "claiming" => k \in Actions /\ sup[k].note \in Matches[DiscoveryKey[k]]
  /\ sup[k].at = "reviewing" => sup[k].note \in {"exited", "cancelled", "timed_out"}

Verdicts(k) ==
  /\ desc[k].status \in {"absent", "starting", "running"} \cup TerminalStatus(k)
  /\ \A w \in Writer : Busy(k, w) => Final(k, pen[k][w].obs)
  /\ result[k] # None => Final(k, result[k].obs)
  /\ evidence[k] # None => Final(k, evidence[k].obs)
  /\ NoteFits(k)

\* The row of an operation that does nothing.
Same(k) ==
  UNCHANGED <<desc[k], launch[k], result[k], evidence[k], event[k], signal[k], starter[k],
              sup[k], pen[k], child[k]>>
Others(k) == \A o \in Op \ {k} : Same(o)

-----------------------------------------------------------------------------
(***************************************************************************)
(* What the common steps of a writer do.                                   *)
(***************************************************************************)
LEMMA BeginsEffect ==
  ASSUME Shape, NEW k \in Op, NEW w \in Writer, NEW at \in Places, NEW obs \in Observation,
         Begins(k, w, at, obs)
  PROVE  /\ pen' \in [Op -> [Writer -> Pens]]
         /\ pen'[k][w].at = at /\ pen'[k][w].obs = obs
         /\ \A v \in Writer \ {w} : pen'[k][v] = pen[k][v]
         /\ \A o \in Op \ {k} : pen'[o] = pen[o]
<1>1. [at |-> at, obs |-> obs] \in Pens
  BY DEF Pens
<1>2. pen' = [pen EXCEPT ![k] = [pen[k] EXCEPT ![w] = [at |-> at, obs |-> obs]]]
  BY DEF Begins
<1>3. pen \in [Op -> [Writer -> Pens]] /\ pen[k] \in [Writer -> Pens]
  BY DEF Shape
<1>4. [pen[k] EXCEPT ![w] = [at |-> at, obs |-> obs]] \in [Writer -> Pens]
  BY <1>1, <1>3
<1> QED BY <1>1, <1>2, <1>3, <1>4

LEMMA ProceedsEffect ==
  ASSUME Shape, NEW k \in Op, NEW w \in Writer, NEW at \in Places, Proceeds(k, w, at)
  PROVE  /\ pen' \in [Op -> [Writer -> Pens]]
         /\ pen'[k][w].at = at /\ pen'[k][w].obs = pen[k][w].obs
         /\ \A v \in Writer \ {w} : pen'[k][v] = pen[k][v]
         /\ \A o \in Op \ {k} : pen'[o] = pen[o]
<1> DEFINE next == [pen[k][w] EXCEPT !.at = at]
<1>1. pen \in [Op -> [Writer -> Pens]] /\ pen[k] \in [Writer -> Pens] /\ pen[k][w] \in Pens
  BY DEF Shape
<1>2. pen' = [pen EXCEPT ![k] = [pen[k] EXCEPT ![w] = next]]
  BY DEF Proceeds
<1>3. next \in Pens /\ next.at = at /\ next.obs = pen[k][w].obs
  BY <1>1 DEF Pens
<1> HIDE DEF next
<1>4. [pen[k] EXCEPT ![w] = next] \in [Writer -> Pens]
  BY <1>1, <1>3
<1> QED BY <1>1, <1>2, <1>3, <1>4

\* A writer that stops has nothing in hand.
LEMMA StopsEffect ==
  ASSUME Shape, NEW k \in Op, NEW w \in Writer, pen' = [pen EXCEPT ![k][w] = Idle]
  PROVE  /\ pen' \in [Op -> [Writer -> Pens]]
         /\ pen'[k][w].at = "idle"
         /\ \A v \in Writer \ {w} : pen'[k][v] = pen[k][v]
         /\ \A o \in Op \ {k} : pen'[o] = pen[o]
<1>1. pen \in [Op -> [Writer -> Pens]] /\ pen[k] \in [Writer -> Pens]
  BY DEF Shape
<1>2. pen' = [pen EXCEPT ![k] = [pen[k] EXCEPT ![w] = Idle]]
  OBVIOUS
<1>3. Idle \in Pens /\ Idle.at = "idle"
  BY DEF Pens, Idle
<1>4. [pen[k] EXCEPT ![w] = Idle] \in [Writer -> Pens]
  BY <1>1, <1>3
<1> QED BY <1>1, <1>2, <1>3, <1>4

LEMMA SupervisorEffect ==
  ASSUME Shape, NEW k \in Op, NEW r \in Supervisors, sup' = [sup EXCEPT ![k] = r]
  PROVE  /\ sup' \in [Op -> Supervisors] /\ sup'[k] = r
         /\ \A o \in Op \ {k} : sup'[o] = sup[o]
BY DEF Shape

\* Where the supervisor goes is all that changes of it.
Goes(k, at) == sup' = [sup EXCEPT ![k].at = at]

LEMMA GoesEffect ==
  ASSUME Shape, NEW k \in Op,
         NEW at \in {"none", "spawned", "settling", "publishing", "gone"} \cup Working,
         Goes(k, at)
  PROVE  /\ sup' \in [Op -> Supervisors]
         /\ sup'[k].at = at /\ sup'[k].clean = sup[k].clean /\ sup'[k].note = sup[k].note
         /\ \A o \in Op \ {k} : sup'[o] = sup[o]
<1> DEFINE r == [sup[k] EXCEPT !.at = at]
<1>1. sup[k] \in Supervisors
  BY DEF Shape
<1>2. r \in Supervisors /\ r.at = at /\ r.clean = sup[k].clean /\ r.note = sup[k].note
  BY <1>1 DEF Supervisors
<1>3. sup' = [sup EXCEPT ![k] = r]
  BY DEF Goes
<1> HIDE DEF r
<1> QED BY <1>2, <1>3, SupervisorEffect

\* What a supervisor remembers of its work.
Remark == Notes \cup Run \cup UNION {Samples[op] : op \in Pull}

\* It goes somewhere with something in mind.
Carries(k, at, note) == sup' = [sup EXCEPT ![k] = [@ EXCEPT !.at = at, !.note = note]]

LEMMA CarriesEffect ==
  ASSUME Shape, NEW k \in Op, NEW note \in Remark,
         NEW at \in {"none", "spawned", "settling", "publishing", "gone"} \cup Working,
         Carries(k, at, note)
  PROVE  /\ sup' \in [Op -> Supervisors]
         /\ sup'[k].at = at /\ sup'[k].note = note /\ sup'[k].clean = sup[k].clean
         /\ \A o \in Op \ {k} : sup'[o] = sup[o]
<1> DEFINE r == [sup[k] EXCEPT !.at = at, !.note = note]
<1>1. sup[k] \in Supervisors
  BY DEF Shape
<1>2. r \in Supervisors /\ r.at = at /\ r.note = note /\ r.clean = sup[k].clean
  BY <1>1 DEF Supervisors, Remark
<1>3. sup' = [sup EXCEPT ![k] = r]
  BY DEF Carries
<1> HIDE DEF r
<1> QED BY <1>2, <1>3, SupervisorEffect

LEMMA DescriptorEffect ==
  ASSUME Shape, NEW k \in Op, NEW d \in Descriptors, desc' = [desc EXCEPT ![k] = d]
  PROVE  /\ desc' \in [Op -> Descriptors] /\ desc'[k] = d
         /\ \A o \in Op \ {k} : desc'[o] = desc[o]
BY DEF Shape

LEMMA LeavesEffect ==
  ASSUME Shape, NEW k \in Op, NEW w \in Writer, Leaves(k, w)
  PROVE  /\ pen' \in [Op -> [Writer -> Pens]]
         /\ pen'[k][w].at = "idle"
         /\ \A v \in Writer \ {w} : pen'[k][v] = pen[k][v]
         /\ \A o \in Op \ {k} : pen'[o] = pen[o] /\ sup'[o] = sup[o] /\ starter'[o] = starter[o]
         /\ sup' \in [Op -> Supervisors]
         /\ starter' \in [Op -> {"idle", "spawning", "recording", "stamping", "failing"}]
         /\ sup'[k].clean = sup[k].clean /\ sup'[k].note = sup[k].note
         /\ sup'[k].at = IF w = "sup" THEN "gone" ELSE sup[k].at
         /\ starter'[k] = IF w = "starter" THEN "idle" ELSE starter[k]
<1>1. pen' = [pen EXCEPT ![k][w] = Idle]
  BY DEF Leaves
<1>2. starter' = IF w = "starter" THEN [starter EXCEPT ![k] = "idle"] ELSE starter
  BY DEF Leaves
<1>3. sup' = IF w = "sup" THEN [sup EXCEPT ![k].at = "gone"] ELSE sup
  BY DEF Leaves
<1>4. /\ sup' \in [Op -> Supervisors] /\ \A o \in Op \ {k} : sup'[o] = sup[o]
      /\ sup'[k].clean = sup[k].clean /\ sup'[k].note = sup[k].note
      /\ sup'[k].at = IF w = "sup" THEN "gone" ELSE sup[k].at
  <2>1. CASE w = "sup"
    <3>1. Goes(k, "gone")
      BY <1>3, <2>1 DEF Goes
    <3> QED BY <2>1, <3>1, GoesEffect
  <2>2. CASE w # "sup"
    BY <1>3, <2>2 DEF Shape
  <2> QED BY <2>1, <2>2
<1>5. /\ starter' \in [Op -> {"idle", "spawning", "recording", "stamping", "failing"}]
      /\ \A o \in Op \ {k} : starter'[o] = starter[o]
      /\ starter'[k] = IF w = "starter" THEN "idle" ELSE starter[k]
  BY <1>2 DEF Shape
<1> QED BY <1>1, <1>4, <1>5, StopsEffect

-----------------------------------------------------------------------------
(***************************************************************************)
(* Verdicts: what may be told of an operation of each kind.                *)
(***************************************************************************)
LEMMA Kinds ==
  /\ \A k \in Check : k \notin Actions /\ k \notin Pull /\ k \in Op
  /\ \A k \in Actions : k \notin Check /\ k \notin Pull /\ k \in Op
  /\ \A k \in Pull : k \notin Check /\ k \notin Actions /\ k \in Op
BY KindsAssumption DEF Op

LEMMA StatusesOf ==
  /\ \A k \in Check : TerminalStatus(k) = CheckStatus
  /\ \A k \in Actions : TerminalStatus(k) = MonitorStatus
  /\ \A k \in Pull : TerminalStatus(k) = PullStatus
BY Kinds DEF TerminalStatus

LEMMA NoStatusTwice ==
  ASSUME NEW k \in Op
  PROVE  {"absent", "starting", "running"} \cap TerminalStatus(k) = {}
BY StatusesOf DEF Op, CheckStatus, MonitorStatus, PullStatus, PullSuccess

LEMMA SeenFinal ==
  ASSUME NEW k \in Op, NEW status \in TerminalStatus(k)
  PROVE  Final(k, Seen(status)) /\ Seen(status).status = status
BY StatusesOf DEF Op, Final, Seen, Observed, Observation, Conclusion

LEMMA LostFinal ==
  ASSUME NEW k \in Op
  PROVE  Final(k, Lost(k))
BY StatusesOf, SeenFinal, Kinds
   DEF Lost, Op, CheckStatus, MonitorStatus, PullStatus

LEMMA ViewFinal ==
  ASSUME NEW k \in Actions, NEW obs \in Views[k]
  PROVE  Final(k, obs)
<1>1. obs = Observed(obs.status, obs.conclusion) /\ obs.status \in MonitorStatus
  BY ViewsAssumption
<1>2. obs.conclusion \in Conclusion
  BY DEF Conclusion
<1> QED BY <1>1, <1>2, StatusesOf DEF Final, Observed, Observation

LEMMA EventTyped ==
  ASSUME NEW k \in Op, NEW obs, Final(k, obs)
  PROVE  EventStatus(k, obs) \in {"completed", "failed", "cancelled", "timed_out",
                                  "action_required", "unavailable", "ambiguous"}
<1>1. CASE k \in Check
  <2>1. check_event_status(obs) \in {"completed", "failed"}
    BY DEF check_event_status
  <2>2. EventStatus(k, obs) = check_event_status(obs)
    BY <1>1, Kinds DEF EventStatus
  <2> QED BY <2>1, <2>2
<1>2. CASE k \in Actions
  <2>1. obs.status \in MonitorStatus
    BY <1>2, StatusesOf DEF Final
  <2> QED BY <1>2, <2>1, Kinds DEF EventStatus, run_event_status, MonitorStatus
<1>3. CASE k \in Pull
  <2>1. obs.status \in PullStatus
    BY <1>3, StatusesOf DEF Final
  <2> QED BY <1>3, <2>1, Kinds DEF EventStatus, pull_event_status, PullStatus, PullSuccess
<1> QED BY <1>1, <1>2, <1>3 DEF Op

LEMMA EventOfTyped ==
  ASSUME Shape, NEW k \in Op, Verdicts(k), NEW w \in Writer, Busy(k, w)
  PROVE  EventOf(k, w) \in EventRecord /\ EventOf(k, w) # None
BY EventTyped, NoneAssumption DEF Shape, Verdicts, EventOf, EventRecord

\* Whether an outcome wakes the chat, as the policy of the operation has it.
WakesFor(k, policy, obs) ==
  CASE k \in Check -> check_wakes(policy, obs)
    [] k \in Actions -> run_should_wake(policy, obs)
    [] OTHER -> pull_should_wake(policy, obs)

LEMMA WakesByPolicy ==
  \A k \in Op : \A obs : Wakes(k, obs) = WakesFor(k, desc[k].policy, obs)
BY DEF Wakes, WakesFor

LEMMA JudgedFinal ==
  ASSUME NEW k \in Pull, NEW s, Judged(k, s) # "waiting"
  PROVE  Judged(k, s) \in TerminalStatus(k)
BY StatusesOf DEF Judged, evaluate_snapshot, PullStatus, PullSuccess

-----------------------------------------------------------------------------
(***************************************************************************)
(* The steps of a row.                                                     *)
(***************************************************************************)
FilesKept(k) == UNCHANGED <<result[k], evidence[k], event[k], signal[k]>>

\* The reaper's lock is free, and the starter does not hold it.
LockFree(k) == pen[k]["reaper"].at = "idle" /\ starter[k] # "stamping"

\* What is bound when an operation is admitted stays; only a discovered run is
\* added, and that when no other monitor owns it.
BoundKept(k) ==
  /\ desc'[k].execution = desc[k].execution /\ desc'[k].policy = desc[k].policy
  /\ \/ desc'[k].run = desc[k].run
     \/ k \in Actions /\ Active(k) /\ \A o \in Actions \ {k} : ~Owns(o, desc'[k].run)
IdentityKept(k) ==
  desc'[k].status = desc[k].status /\ desc'[k].identity = desc[k].identity /\ BoundKept(k)

\* One step of a publication.
Advances(k, w, from, to) ==
  /\ pen[k][w].at = from /\ pen'[k][w].at = to /\ pen'[k][w].obs = pen[k][w].obs
  /\ \A v \in Writer \ {w} : pen'[k][v] = pen[k][v]
  /\ UNCHANGED <<desc[k], launch[k], starter[k], sup[k], child[k]>>
PutsResult(k, w) ==
  /\ Advances(k, w, "result", "evidence")
  /\ result'[k] # None /\ result'[k].obs = pen[k][w].obs
  /\ UNCHANGED <<evidence[k], event[k], signal[k]>>
PutsEvidence(k, w) ==
  /\ Advances(k, w, "evidence", "event")
  /\ evidence'[k] # None /\ evidence'[k].obs = pen[k][w].obs
  /\ UNCHANGED <<result[k], event[k], signal[k]>>
PutsEvent(k, w) ==
  /\ Advances(k, w, "event", IF WakesFor(k, desc[k].policy, pen[k][w].obs)
                             THEN "signal" ELSE "descriptor")
  /\ Retains(k, w)
  /\ event'[k] # None /\ event'[k] = EventOf(k, w)
  /\ UNCHANGED <<result[k], evidence[k], signal[k]>>
PutsSignal(k, w) ==
  /\ Advances(k, w, "signal", "descriptor")
  /\ signal'[k] = TRUE
  /\ UNCHANGED <<result[k], evidence[k], event[k]>>

\* A writer that is through, or that was stopped.
Stopped(k, w) ==
  /\ pen'[k][w].at = "idle"
  /\ \A v \in Writer \ {w} : pen'[k][v] = pen[k][v]
  /\ w = "sup" => sup'[k].at = "gone"
  /\ w # "sup" => sup'[k].at = sup[k].at
  /\ sup'[k].clean = sup[k].clean
  /\ sup'[k].note = sup[k].note \/ (w = "sup" /\ k \in Actions)
  /\ w = "starter" => starter'[k] = "idle"
  /\ w # "starter" => starter'[k] = starter[k]
  /\ FilesKept(k) /\ UNCHANGED <<launch[k], child[k]>>
Quits(k, w) ==
  /\ w = "sup" => Alive(k)
  /\ Stopped(k, w) /\ desc'[k] = desc[k]
Closes(k, w) ==
  /\ pen[k][w].at = "descriptor"
  /\ Stopped(k, w)
  /\ desc'[k].status = pen[k][w].obs.status
  /\ w # "starter" => desc'[k].identity = desc[k].identity
  /\ w = "starter" => desc'[k].identity = FALSE
  /\ BoundKept(k)

\* A writer takes up the publication of an outcome.
Takes(k, w, at, obs) ==
  /\ pen'[k][w].at = at /\ pen'[k][w].obs = obs
  /\ \A v \in Writer \ {w} : pen'[k][v] = pen[k][v]
Quiet(k) ==   \* nobody writes, and no file is touched
  pen'[k] = pen[k] /\ FilesKept(k)

\* A monitor is admitted when no active one has its run, discovery or request.
Unclaimed(k) ==
  /\ k \in Actions =>
       /\ desc'[k].run = Requested[k]
       /\ \A o \in Actions \ {k} :
            IF Requested[k] # None THEN ~Owns(o, Requested[k])
            ELSE ~(Active(o) /\ Requested[o] = None /\ DiscoveryKey[o] = DiscoveryKey[k])
  /\ k \in Pull => \A o \in Pull \ {k} : PullKey[o] = PullKey[k] => ~Active(o)
Admits(k) ==
  /\ desc[k].status = "absent" /\ desc'[k].status = "starting"
  /\ desc'[k].identity = desc[k].identity /\ Unclaimed(k)
  /\ \/ starter'[k] = "spawning" /\ sup'[k] = sup[k]
     \/ /\ k \in Check /\ starter'[k] = starter[k]
        /\ sup'[k].at = "spawned" /\ sup'[k].note = sup[k].note /\ sup'[k].clean = sup[k].clean
  /\ Quiet(k) /\ UNCHANGED <<launch[k], child[k]>>
Launches(k) ==
  /\ starter[k] = "spawning" /\ sup[k].at = "none"
  /\ starter'[k] = "recording"
  /\ sup'[k].at = "spawned" /\ sup'[k].note = sup[k].note /\ sup'[k].clean = sup[k].clean
  /\ Quiet(k) /\ UNCHANGED <<desc[k], launch[k], child[k]>>
Forsakes(k) ==
  /\ \/ starter[k] = "spawning" /\ sup[k].at = "none"
     \/ starter[k] = "recording" /\ desc[k].status = "starting" /\ LockFree(k) /\ ~Alive(k)
  /\ starter'[k] = "failing"
  /\ Takes(k, "starter", "result", Lost(k))
  /\ FilesKept(k) /\ UNCHANGED <<desc[k], launch[k], sup[k], child[k]>>
Registers(k) ==
  /\ k \notin Check /\ starter[k] = "recording" /\ starter'[k] = "idle"
  /\ launch'[k] = TRUE
  /\ Quiet(k) /\ UNCHANGED <<desc[k], sup[k], child[k]>>
Reads(k) ==
  /\ k \in Check /\ starter[k] = "recording" /\ starter'[k] = "stamping"
  /\ desc[k].status = "starting" /\ LockFree(k)
  /\ Quiet(k) /\ UNCHANGED <<desc[k], launch[k], sup[k], child[k]>>
Stamps(k) ==
  /\ k \in Check /\ starter[k] = "stamping" /\ starter'[k] = "idle"
  /\ desc'[k].status = "starting" /\ desc'[k].identity = TRUE /\ BoundKept(k)
  /\ desc'[k].child = desc[k].child
  /\ Quiet(k) /\ UNCHANGED <<launch[k], sup[k], child[k]>>

\* The supervisor ends its work with an outcome; a pull request's is that of a sample.
Outcome(k) ==
  /\ sup'[k].at \in {"settling", "publishing"}
  /\ Takes(k, "sup", "result", pen'[k]["sup"].obs) /\ Final(k, pen'[k]["sup"].obs)
  /\ k \in Pull =>
       /\ sup'[k].at = "publishing"
       /\ \/ sup'[k].note = None
          \/ /\ sup'[k].note \in Samples[k]
             /\ pen'[k]["sup"].obs = Seen(Judged(k, sup'[k].note))
  /\ k \in Check => sup'[k].note \in {"passed", "failed", "errored"}
  /\ FilesKept(k) /\ UNCHANGED <<launch[k], starter[k]>>
Claims(k) ==
  /\ sup[k].at = "spawned" /\ desc[k].status = "starting" /\ LockFree(k)
  /\ desc'[k].status = "running" /\ desc'[k].identity = TRUE /\ BoundKept(k)
  /\ desc'[k].child = desc[k].child
  /\ sup'[k].clean = sup[k].clean
  /\ \/ sup'[k].at \in {"command", "discovering", "viewing", "polling"} /\ NoteFits(k)' /\ Quiet(k)
     \/ Outcome(k)
  /\ UNCHANGED <<launch[k], starter[k], child[k]>>
Breaks(k) ==
  /\ k \in Check /\ sup[k].at = "spawned"
  /\ sup'[k].at = "publishing" /\ ~sup'[k].clean
  /\ Outcome(k) /\ UNCHANGED <<desc[k], child[k]>>

\* The bookkeeping of a check's commands.
Commands(k) ==
  LET from == sup[k].at
      to == sup'[k].at
      record == desc[k].child
      record2 == desc'[k].child
  IN \/ /\ from = "command" /\ to = "spawn" /\ child'[k] = child[k]
        /\ Detached(k) => record2 = "launching"
     \/ /\ from = "spawn" /\ to \in {"record", "wait"} /\ record2 = record
        /\ Detached(k) => to = "record"
     \/ from = "spawn" /\ to \in {"command", "publishing"} /\ child'[k] = child[k]
     \/ from = "record" /\ to = "wait" /\ record2 = "active"
     \/ from = "record" /\ to \in {"command", "publishing"} /\ ~child'[k]
     \/ from = "wait" /\ to \in {"clear", "clear failed", "command", "publishing"} /\ ~child'[k]
     \/ /\ from \in {"clear", "clear failed"} /\ to \in {"command", "publishing"}
        /\ child'[k] = child[k]
Works(k) ==
  /\ sup[k].at \in Working /\ sup'[k].at \in Working
  /\ sup'[k].clean = sup[k].clean /\ NoteFits(k)'
  /\ IdentityKept(k)
  /\ k \in Check => Commands(k)
  /\ Quiet(k) /\ UNCHANGED <<launch[k], starter[k]>>
Concludes(k) ==
  /\ sup[k].at \in Working /\ sup'[k].clean = sup[k].clean
  /\ Outcome(k) /\ IdentityKept(k)
  /\ k \in Check => Commands(k)
Reconcludes(k) ==
  /\ k \in Actions
  /\ sup[k].at = "settling" /\ sup'[k].at = "publishing" /\ ~sup'[k].clean
  /\ Outcome(k) /\ IdentityKept(k) /\ UNCHANGED child[k]

TakesOver(k) ==
  /\ Active(k) /\ SupervisorState(k) = "gone" /\ LockFree(k)
  /\ IF Recovers(k) THEN Takes(k, "reaper", "event", Recorded(k))
                    ELSE Takes(k, "reaper", "result", Lost(k))
  /\ IdentityKept(k)
  /\ k \in Check => /\ desc[k].child # "launching"
                    /\ desc[k].child = "active" => ~child'[k]
                    /\ desc[k].child # "active" => child'[k] = child[k]
  /\ FilesKept(k) /\ UNCHANGED <<launch[k], starter[k], sup[k]>>
Expires(k) ==
  /\ ~child'[k]
  /\ Quiet(k) /\ UNCHANGED <<desc[k], launch[k], starter[k], sup[k]>>

RowStep(k) ==
  \/ \E w \in Writer :
       PutsResult(k, w) \/ PutsEvidence(k, w) \/ PutsEvent(k, w) \/ PutsSignal(k, w)
         \/ Quits(k, w) \/ Closes(k, w)
  \/ Admits(k) \/ Launches(k) \/ Forsakes(k) \/ Registers(k) \/ Reads(k) \/ Stamps(k)
  \/ Claims(k) \/ Breaks(k) \/ Works(k) \/ Concludes(k) \/ Reconcludes(k)
  \/ TakesOver(k) \/ Expires(k) \/ Same(k)

\* A supervisor writes exactly while it publishes, a starter while it fails.
Hands(k) ==
  /\ Busy(k, "sup") <=> sup[k].at \in {"publishing", "settling"}
  /\ Busy(k, "starter") <=> starter[k] = "failing"

-----------------------------------------------------------------------------
(***************************************************************************)
(* Every step of an operation keeps the types, its verdicts and the rows   *)
(* of all others.                                                          *)
(***************************************************************************)
LEMMA FaultTyped ==
  ASSUME Shape, NEW kind, Fails(kind)
  PROVE  faults' \in 0..MaxFaults[play]
<1>1. MaxFaults[play] \in Nat
  BY MaxFaultsAssumption DEF Shape
<1> QED BY <1>1 DEF Shape, Fails


\* A step of k: what it does, and that all else is left alone.
Kept(k) == Shape' /\ Others(k) /\ RowStep(k)

LEMMA WritesKeep ==
  ASSUME Shape, NEW k \in Op, Verdicts(k), NEW w \in Writer,
         WriteResult(k, w) \/ WriteEvidence(k, w) \/ RetainEvent(k, w) \/ RaiseSignal(k, w)
  PROVE  Kept(k)
<1> USE DEF others
<1>b. Busy(k, w) /\ Final(k, pen[k][w].obs)
  BY DEF WriteResult, WriteEvidence, RetainEvent, RaiseSignal, At, Busy, Verdicts
<1>p. [obs |-> pen[k][w].obs, by |-> w] \in Publication /\ None \notin Publication
  BY <1>b, NoneAssumption DEF Final, Publication
<1>1. CASE WriteResult(k, w)
  <2>1. Proceeds(k, w, "evidence") /\ pen[k][w].at = "result"
    BY <1>1 DEF WriteResult, At
  <2>2. /\ result' \in [Op -> Publication \cup {None}]
        /\ result'[k].obs = pen[k][w].obs /\ \A o \in Op \ {k} : result'[o] = result[o]
        /\ result'[k] # None
    BY <1>1, <1>p DEF WriteResult, Shape
  <2>3. UNCHANGED <<others, desc, launch, evidence, event, signal, starter, sup, child, cancel,
                    faults>>
    BY <1>1 DEF WriteResult
  <2>4. Shape' /\ Others(k)
    BY <2>1, <2>2, <2>3, ProceedsEffect DEF Places, Shape, Others, Same
  <2>5. PutsResult(k, w)
    BY <2>1, <2>2, <2>3, ProceedsEffect DEF Places, PutsResult, Advances
  <2> QED BY <2>4, <2>5 DEF Kept, RowStep
<1>2. CASE WriteEvidence(k, w)
  <2>1. Proceeds(k, w, "event") /\ pen[k][w].at = "evidence"
    BY <1>2 DEF WriteEvidence, At
  <2>2. /\ evidence' \in [Op -> Publication \cup {None}]
        /\ evidence'[k].obs = pen[k][w].obs /\ \A o \in Op \ {k} : evidence'[o] = evidence[o]
        /\ evidence'[k] # None
    BY <1>2, <1>p DEF WriteEvidence, Shape
  <2>3. UNCHANGED <<others, desc, launch, result, event, signal, starter, sup, child, cancel,
                    faults>>
    BY <1>2 DEF WriteEvidence
  <2>4. Shape' /\ Others(k)
    BY <2>1, <2>2, <2>3, ProceedsEffect DEF Places, Shape, Others, Same
  <2>5. PutsEvidence(k, w)
    BY <2>1, <2>2, <2>3, ProceedsEffect DEF Places, PutsEvidence, Advances
  <2> QED BY <2>4, <2>5 DEF Kept, RowStep
<1>3. CASE RetainEvent(k, w)
  <2> DEFINE to == IF Wakes(k, pen[k][w].obs) THEN "signal" ELSE "descriptor"
  <2>1. to \in Places /\ Proceeds(k, w, to) /\ pen[k][w].at = "event" /\ Retains(k, w)
    BY <1>3 DEF RetainEvent, Places, At
  <2>2. /\ event' \in [Op -> EventRecord \cup {None}]
        /\ event'[k] = EventOf(k, w) /\ event'[k] # None
        /\ \A o \in Op \ {k} : event'[o] = event[o]
    BY <1>3, <1>b, EventOfTyped DEF RetainEvent, Shape
  <2>3. UNCHANGED <<others, desc, launch, result, evidence, signal, starter, sup, child, cancel,
                    faults>>
    BY <1>3 DEF RetainEvent
  <2> HIDE DEF to
  <2>4. Shape' /\ Others(k)
    BY <2>1, <2>2, <2>3, ProceedsEffect DEF Shape, Others, Same
  <2>5. Advances(k, w, "event", to)
    BY <2>1, <2>3, ProceedsEffect DEF Advances
  <2>6. PutsEvent(k, w)
    BY <2>1, <2>2, <2>3, <2>5, WakesByPolicy DEF PutsEvent, to
  <2> QED BY <2>4, <2>6 DEF Kept, RowStep
<1>4. CASE RaiseSignal(k, w)
  <2>1. Proceeds(k, w, "descriptor") /\ pen[k][w].at = "signal"
    BY <1>4 DEF RaiseSignal, At
  <2>2. /\ signal' \in [Op -> BOOLEAN] /\ signal'[k] = TRUE
        /\ \A o \in Op \ {k} : signal'[o] = signal[o]
    BY <1>4 DEF RaiseSignal, Shape
  <2>3. UNCHANGED <<others, desc, launch, result, evidence, event, starter, sup, child, cancel,
                    faults>>
    BY <1>4 DEF RaiseSignal
  <2>4. Shape' /\ Others(k)
    BY <2>1, <2>2, <2>3, ProceedsEffect DEF Places, Shape, Others, Same
  <2>5. PutsSignal(k, w)
    BY <2>1, <2>2, <2>3, ProceedsEffect DEF Places, PutsSignal, Advances
  <2> QED BY <2>4, <2>5 DEF Kept, RowStep
<1> QED BY <1>1, <1>2, <1>3, <1>4

\* A writer that is interrupted, or finds its event contradicted.
LEMMA QuitsKeep ==
  ASSUME Shape, NEW k \in Op, NEW w \in Writer, Leaves(k, w), w = "sup" => Alive(k),
         UNCHANGED <<others, desc, launch, files, child, cancel>>,
         faults' \in 0..MaxFaults[play]
  PROVE  Kept(k)
<1> USE DEF others, files
<1>1. Shape' /\ Others(k)
  BY LeavesEffect DEF Shape, Others, Same
<1>2. Stopped(k, w)
  BY LeavesEffect DEF Stopped, FilesKept
<1> QED BY <1>1, <1>2 DEF Kept, RowStep, Quits

\* ... or is through.
LEMMA CloseKeeps ==
  ASSUME Shape, NEW k \in Op, Verdicts(k), NEW w \in Writer, CloseDescriptor(k, w)
  PROVE  Kept(k)
<1> USE DEF others, files
<1> DEFINE d == [CopyOf(k, w) EXCEPT !.status = pen[k][w].obs.status]
<1>1. /\ Leaves(k, w) /\ pen[k][w].at = "descriptor" /\ desc' = [desc EXCEPT ![k] = d]
      /\ UNCHANGED <<others, launch, files, child, cancel, faults>>
  BY DEF CloseDescriptor, At
<1>2. Final(k, pen[k][w].obs)
  BY <1>1 DEF Verdicts, Busy
<1>3. /\ CopyOf(k, w) \in Descriptors
      /\ CopyOf(k, w).identity = IF w = "starter" THEN FALSE ELSE desc[k].identity
      /\ CopyOf(k, w).run = desc[k].run /\ CopyOf(k, w).policy = desc[k].policy
      /\ CopyOf(k, w).execution = desc[k].execution
  <2>1. desc[k] \in Descriptors
    BY DEF Shape
  <2> DEFINE c == CopyOf(k, w)
  <2>2. \/ w = "sup" /\ c = [desc[k] EXCEPT !.child = "none"]
        \/ w = "starter" /\ c = [desc[k] EXCEPT !.child = "none", !.identity = FALSE]
        \/ w = "reaper" /\ c = desc[k]
    BY DEF CopyOf, Writer
  <2> HIDE DEF c
  <2>3. /\ c \in Descriptors /\ c.identity = IF w = "starter" THEN FALSE ELSE desc[k].identity
        /\ c.run = desc[k].run /\ c.policy = desc[k].policy /\ c.execution = desc[k].execution
    BY <2>1, <2>2 DEF Descriptors
  <2> QED BY <2>3 DEF c
<1>4. /\ d \in Descriptors /\ d.status = pen[k][w].obs.status
      /\ d.identity = CopyOf(k, w).identity /\ d.run = CopyOf(k, w).run
      /\ d.policy = CopyOf(k, w).policy /\ d.execution = CopyOf(k, w).execution
  <2>1. pen[k][w].obs.status \in CheckStatus \cup MonitorStatus \cup PullStatus
    BY <1>2 DEF Final, Observation
  <2> QED BY <1>3, <2>1 DEF Descriptors
<1> HIDE DEF d
<1>5. /\ desc' \in [Op -> Descriptors] /\ desc'[k] = d
      /\ \A o \in Op \ {k} : desc'[o] = desc[o]
  BY <1>1, <1>4, DescriptorEffect
<1>6. Shape' /\ Others(k)
  BY <1>1, <1>5, LeavesEffect DEF Shape, Others, Same
<1>7. Stopped(k, w)
  BY <1>1, LeavesEffect DEF Stopped, FilesKept
<1>8. Closes(k, w)
  BY <1>1, <1>3, <1>4, <1>5, <1>7 DEF Closes, BoundKept
<1> QED BY <1>6, <1>8 DEF Kept, RowStep
\* A process dies, or a publication ends with an exception.
LEMMA DeathsKeep ==
  ASSUME Shape, NEW k \in Op, Hands(k),
         \/ SupervisorDies(k) \/ StarterDies(k) \/ ReaperDies(k)
         \/ \E w \in Writer : EventConflict(k, w)
  PROVE  Kept(k)
<1>1. CASE SupervisorDies(k)
  <2>1. Leaves(k, "sup") /\ Alive(k) /\ UNCHANGED <<others, desc, launch, files, child, cancel>>
    BY <1>1 DEF SupervisorDies, Leaves
  <2>2. faults' \in 0..MaxFaults[play]
    BY <1>1, FaultTyped DEF SupervisorDies
  <2> QED BY <2>1, <2>2, QuitsKeep DEF Writer
<1>2. CASE StarterDies(k)
  <2>1. Leaves(k, "starter") /\ UNCHANGED <<others, desc, launch, files, child, cancel>>
    BY <1>2 DEF StarterDies, Leaves
  <2>2. faults' \in 0..MaxFaults[play]
    BY <1>2, FaultTyped DEF StarterDies
  <2> QED BY <2>1, <2>2, QuitsKeep DEF Writer
<1>3. CASE ReaperDies(k)
  <2>1. Leaves(k, "reaper") /\ UNCHANGED <<others, desc, launch, files, child, cancel>>
    BY <1>3 DEF ReaperDies, Leaves
  <2>2. faults' \in 0..MaxFaults[play]
    BY <1>3, FaultTyped DEF ReaperDies
  <2> QED BY <2>1, <2>2, QuitsKeep DEF Writer
<1>4. ASSUME NEW w \in Writer, EventConflict(k, w)
      PROVE  Kept(k)
  <2>1. Leaves(k, w) /\ UNCHANGED <<others, desc, launch, files, child, cancel, faults>>
    BY <1>4 DEF EventConflict
  <2>2. faults' \in 0..MaxFaults[play]
    BY <2>1 DEF Shape
  <2>3. w = "sup" => Alive(k)
    BY <1>4 DEF EventConflict, At, Hands, Busy, Alive
  <2> QED BY <2>1, <2>2, <2>3, QuitsKeep
<1> QED BY <1>1, <1>2, <1>3, <1>4

\* Types of a step that moves the supervisor, the starter and the pens only.
LEMMA ProcessesTyped ==
  ASSUME Shape, UNCHANGED <<others, desc, launch, files, cancel>>,
         faults' \in 0..MaxFaults[play], child' \in [Op -> BOOLEAN],
         sup' \in [Op -> Supervisors], pen' \in [Op -> [Writer -> Pens]],
         starter' \in [Op -> {"idle", "spawning", "recording", "stamping", "failing"}]
  PROVE  Shape'
BY DEF Shape, others, files

\* Where the starter goes is all that changes of it.
LEMMA StarterEffect ==
  ASSUME Shape, NEW k \in Op,
         NEW at \in {"idle", "spawning", "recording", "stamping", "failing"},
         starter' = [starter EXCEPT ![k] = at]
  PROVE  /\ starter' \in [Op -> {"idle", "spawning", "recording", "stamping", "failing"}]
         /\ starter'[k] = at
         /\ \A o \in Op \ {k} : starter'[o] = starter[o]
BY DEF Shape

LEMMA AbandonEffect ==
  ASSUME Shape, NEW k \in Op, NEW w \in Writer, Abandons(k, w)
  PROVE  /\ pen' \in [Op -> [Writer -> Pens]]
         /\ Takes(k, w, "result", Lost(k))
         /\ \A o \in Op \ {k} : pen'[o] = pen[o]
<1>1. Lost(k) \in Observation
  BY LostFinal DEF Final
<1>2. "result" \in Places
  BY DEF Places
<1>3. Begins(k, w, "result", Lost(k))
  BY DEF Abandons
<1> QED BY <1>1, <1>2, <1>3, BeginsEffect DEF Takes

LEMMA SpawnsKeep ==
  ASSUME Shape, NEW k \in Op, Spawns(k)
  PROVE  Kept(k)
<1> USE DEF others, files
<1>0. /\ starter[k] = "spawning" /\ sup[k].at = "none"
      /\ UNCHANGED <<others, desc, launch, files, child, cancel>>
  BY DEF Spawns
<1>1. CASE /\ Goes(k, "spawned") /\ starter' = [starter EXCEPT ![k] = "recording"]
           /\ UNCHANGED <<pen, faults>>
  <2>a. /\ sup' \in [Op -> Supervisors] /\ \A o \in Op \ {k} : sup'[o] = sup[o]
        /\ starter' \in [Op -> {"idle", "spawning", "recording", "stamping", "failing"}]
        /\ \A o \in Op \ {k} : starter'[o] = starter[o]
    BY <1>1, GoesEffect, StarterEffect
  <2>1. Shape' /\ Others(k)
    BY <1>0, <1>1, <2>a DEF Shape, Others, Same
  <2>2. Launches(k)
    BY <1>0, <1>1, GoesEffect, StarterEffect DEF Launches, Quiet, FilesKept
  <2> QED BY <2>1, <2>2 DEF Kept, RowStep
<1>2. CASE /\ Fails("spawn") /\ Abandons(k, "starter")
           /\ starter' = [starter EXCEPT ![k] = "failing"] /\ UNCHANGED sup
  <2>1. faults' \in 0..MaxFaults[play]
    BY <1>2, FaultTyped
  <2>2. Shape' /\ Others(k)
    BY <1>0, <1>2, <2>1, AbandonEffect, StarterEffect DEF Shape, Others, Same, Writer
  <2>3. Forsakes(k)
    BY <1>0, <1>2, AbandonEffect, StarterEffect DEF Forsakes, FilesKept, Writer
  <2> QED BY <2>2, <2>3 DEF Kept, RowStep
<1> QED BY <1>1, <1>2 DEF Spawns, Goes

LEMMA RecordLaunchKeeps ==
  ASSUME Shape, NEW k \in Op, Hands(k), RecordLaunchFile(k)
  PROVE  Kept(k)
<1> USE DEF others, files
<1>0. /\ k \notin Check /\ starter[k] = "recording"
      /\ starter' = [starter EXCEPT ![k] = "idle"]
      /\ UNCHANGED <<others, desc, files, sup, pen, child, cancel>>
  BY DEF RecordLaunchFile
<1>1. CASE launch' = [launch EXCEPT ![k] = TRUE] /\ UNCHANGED faults
  <2>1. /\ launch' \in [Op -> BOOLEAN] /\ launch'[k] = TRUE
        /\ \A o \in Op \ {k} : launch'[o] = launch[o]
    BY <1>1 DEF Shape
  <2>2. Shape' /\ Others(k)
    BY <1>0, <1>1, <2>1, StarterEffect DEF Shape, Others, Same
  <2>3. Registers(k)
    BY <1>0, <2>1, StarterEffect DEF Registers, Quiet, FilesKept
  <2> QED BY <2>2, <2>3 DEF Kept, RowStep
<1>2. CASE Fails("files") /\ UNCHANGED launch
  <2>1. faults' \in 0..MaxFaults[play]
    BY <1>2, FaultTyped
  <2>2. Shape' /\ Others(k)
    BY <1>0, <1>2, <2>1, StarterEffect DEF Shape, Others, Same
  <2>3. ~Busy(k, "starter")
    BY <1>0 DEF Hands
  <2>4. Quits(k, "starter")
    BY <1>0, <1>2, <2>3, StarterEffect DEF Quits, Stopped, FilesKept, Busy, Alive
  <2> QED BY <2>2, <2>4 DEF Kept, RowStep, Writer
<1> QED BY <1>1, <1>2 DEF RecordLaunchFile

LEMMA OrphanKeeps ==
  ASSUME Shape, NEW k \in Op, OrphanEnds(k)
  PROVE  Kept(k)
<1> USE DEF others, files
<1>1. /\ child' \in [Op -> BOOLEAN] /\ ~child'[k]
      /\ \A o \in Op \ {k} : child'[o] = child[o]
  BY DEF OrphanEnds, Shape
<1>2. UNCHANGED <<others, desc, launch, files, starter, sup, pen, cancel, faults>>
  BY DEF OrphanEnds
<1>3. Shape' /\ Others(k)
  BY <1>1, <1>2 DEF Shape, Others, Same
<1>4. Expires(k)
  BY <1>1, <1>2 DEF Expires, Quiet, FilesKept
<1> QED BY <1>3, <1>4 DEF Kept, RowStep
-----------------------------------------------------------------------------
(***************************************************************************)
(* Checks.                                                                 *)
(***************************************************************************)
LEMMA UnlockedFree ==
  ASSUME NEW k \in Op, Unlocked(k)
  PROVE  LockFree(k)
<1>1. k \in Peers(k)
  BY DEF Peers, Op
<1> QED BY <1>1 DEF Unlocked, LockFree

\* The child that a descriptor names is all that changes of it.
LEMMA ChildNamed ==
  ASSUME Shape, NEW k \in Op, NEW name \in {"none", "launching", "active"},
         \/ desc' = [desc EXCEPT ![k].child = name]
         \/ desc' = desc /\ desc[k].child = name
  PROVE  /\ desc' \in [Op -> Descriptors] /\ desc'[k].child = name /\ IdentityKept(k)
         /\ \A o \in Op \ {k} : desc'[o] = desc[o]
<1> DEFINE d == [desc[k] EXCEPT !.child = name]
<1>1. desc[k] \in Descriptors
  BY DEF Shape
<1>2. /\ d \in Descriptors /\ d.child = name
      /\ d.status = desc[k].status /\ d.identity = desc[k].identity /\ d.run = desc[k].run
      /\ d.execution = desc[k].execution /\ d.policy = desc[k].policy
  BY <1>1 DEF Descriptors
<1>3. CASE desc' = [desc EXCEPT ![k].child = name]
  <2>1. desc' = [desc EXCEPT ![k] = d]
    BY <1>3
  <2> HIDE DEF d
  <2> QED BY <1>2, <2>1, DescriptorEffect DEF IdentityKept, BoundKept
<1>4. CASE desc' = desc /\ desc[k].child = name
  BY <1>4 DEF IdentityKept, BoundKept, Shape
<1> QED BY <1>3, <1>4

LEMMA StartCheckKeeps ==
  ASSUME Shape, NEW k \in Check, StartCheck(k)
  PROVE  Kept(k)
<1> USE DEF others, files
<1>k. k \in Op /\ k \notin Actions /\ k \notin Pull
  BY Kinds
<1>1. /\ desc[k].status = "absent"
      /\ UNCHANGED <<others, launch, files, pen, child, cancel, faults>>
  BY DEF StartCheck
<1>2. PICK median \in Medians :
        LET execution == IF Execution[k] # "auto" THEN Execution[k]
                         ELSE plan_check(median, Expected[k], Level[k], Threshold)
        IN /\ desc' = [desc EXCEPT ![k] =
               [@ EXCEPT !.status = "starting", !.execution = execution,
                         !.policy = resolved_wake_policy(WakePolicy[k], execution)]]
           /\ IF execution = "foreground"
              THEN sup' = [sup EXCEPT ![k].at = "spawned"] /\ UNCHANGED starter
              ELSE starter' = [starter EXCEPT ![k] = "spawning"] /\ UNCHANGED sup
  BY DEF StartCheck
<1> DEFINE execution == IF Execution[k] # "auto" THEN Execution[k]
                        ELSE plan_check(median, Expected[k], Level[k], Threshold)
           policy == resolved_wake_policy(WakePolicy[k], execution)
           d == [desc[k] EXCEPT !.status = "starting", !.execution = execution, !.policy = policy]
<1>3. execution \in Executions
  BY DEF Executions, plan_check
<1>4. policy \in Policy
  BY <1>k DEF Policy, resolved_wake_policy
<1>5. /\ desc' = [desc EXCEPT ![k] = d]
      /\ \/ Goes(k, "spawned") /\ UNCHANGED starter
         \/ starter' = [starter EXCEPT ![k] = "spawning"] /\ UNCHANGED sup
  BY <1>2 DEF Goes
<1> HIDE DEF execution, policy
<1>6. d \in Descriptors /\ d.status = "starting" /\ d.identity = desc[k].identity
  <2>1. desc[k] \in Descriptors
    BY <1>k DEF Shape
  <2>2. d \in Descriptors
    BY <1>3, <1>4, <2>1 DEF Descriptors
  <2>3. d.status = "starting" /\ d.identity = desc[k].identity
    BY <2>1 DEF Descriptors
  <2> QED BY <2>2, <2>3
<1> HIDE DEF d
<1>7. /\ desc' \in [Op -> Descriptors] /\ desc'[k].status = "starting"
      /\ desc'[k].identity = desc[k].identity
      /\ \A o \in Op \ {k} : desc'[o] = desc[o]
  BY <1>k, <1>5, <1>6, DescriptorEffect
<1>8. Unclaimed(k)
  BY <1>k DEF Unclaimed
<1>9. CASE Goes(k, "spawned") /\ UNCHANGED starter
  <2>1. /\ sup' \in [Op -> Supervisors] /\ \A o \in Op \ {k} : sup'[o] = sup[o]
        /\ sup'[k].at = "spawned" /\ sup'[k].note = sup[k].note /\ sup'[k].clean = sup[k].clean
    BY <1>k, <1>9, GoesEffect
  <2>2. Shape' /\ Others(k)
    BY <1>1, <1>7, <1>9, <2>1 DEF Shape, Others, Same
  <2>3. Admits(k)
    BY <1>1, <1>7, <1>8, <1>9, <2>1 DEF Admits, Quiet, FilesKept
  <2> QED BY <2>2, <2>3 DEF Kept, RowStep
<1>10. CASE starter' = [starter EXCEPT ![k] = "spawning"] /\ UNCHANGED sup
  <2>1. /\ starter' \in [Op -> {"idle", "spawning", "recording", "stamping", "failing"}]
        /\ starter'[k] = "spawning" /\ \A o \in Op \ {k} : starter'[o] = starter[o]
    BY <1>k, <1>10, StarterEffect
  <2>2. Shape' /\ Others(k)
    BY <1>1, <1>7, <1>10, <2>1 DEF Shape, Others, Same
  <2>3. Admits(k)
    BY <1>1, <1>7, <1>8, <1>10, <2>1 DEF Admits, Quiet, FilesKept
  <2> QED BY <2>2, <2>3 DEF Kept, RowStep
<1> QED BY <1>5, <1>9, <1>10

LEMMA ReadSupervisorKeeps ==
  ASSUME Shape, NEW k \in Check, Hands(k), ReadCheckSupervisor(k)
  PROVE  Kept(k)
<1> USE DEF others, files
<1>k. k \in Op /\ "starter" \in Writer
  BY Kinds DEF Writer
<1>1. /\ starter[k] = "recording" /\ LockFree(k)
      /\ UNCHANGED <<others, desc, launch, files, sup, child, cancel>>
  BY <1>k, UnlockedFree DEF ReadCheckSupervisor
<1>2. CASE /\ desc[k].status # "starting"
           /\ starter' = [starter EXCEPT ![k] = "idle"] /\ UNCHANGED <<pen, faults>>
  <2>1. Shape' /\ Others(k)
    BY <1>k, <1>1, <1>2, StarterEffect DEF Shape, Others, Same
  <2>2. ~Busy(k, "starter")
    BY <1>1 DEF Hands
  <2>3. Quits(k, "starter")
    BY <1>k, <1>1, <1>2, <2>2, StarterEffect DEF Quits, Stopped, FilesKept, Busy, Alive
  <2> QED BY <1>k, <2>1, <2>3 DEF Kept, RowStep
<1>3. CASE /\ desc[k].status = "starting"
           /\ starter' = [starter EXCEPT ![k] = "stamping"] /\ UNCHANGED <<pen, faults>>
  <2>1. Shape' /\ Others(k)
    BY <1>k, <1>1, <1>3, StarterEffect DEF Shape, Others, Same
  <2>2. Reads(k)
    BY <1>k, <1>1, <1>3, StarterEffect DEF Reads, Quiet, FilesKept
  <2> QED BY <2>1, <2>2 DEF Kept, RowStep
<1>4. CASE /\ desc[k].status = "starting" /\ ~Alive(k) /\ Fails("probe")
           /\ starter' = [starter EXCEPT ![k] = "failing"] /\ Abandons(k, "starter")
  <2>1. faults' \in 0..MaxFaults[play]
    BY <1>4, FaultTyped
  <2>2. /\ pen' \in [Op -> [Writer -> Pens]] /\ Takes(k, "starter", "result", Lost(k))
        /\ \A o \in Op \ {k} : pen'[o] = pen[o]
    BY <1>k, <1>4, AbandonEffect
  <2>3. /\ starter' \in [Op -> {"idle", "spawning", "recording", "stamping", "failing"}]
        /\ starter'[k] = "failing" /\ \A o \in Op \ {k} : starter'[o] = starter[o]
    BY <1>k, <1>4, StarterEffect
  <2>4. Shape' /\ Others(k)
    BY <1>1, <2>1, <2>2, <2>3 DEF Shape, Others, Same
  <2>5. Forsakes(k)
    BY <1>1, <1>4, <2>2, <2>3 DEF Forsakes, FilesKept
  <2> QED BY <2>4, <2>5 DEF Kept, RowStep
<1> QED BY <1>2, <1>3, <1>4 DEF ReadCheckSupervisor

LEMMA StampKeeps ==
  ASSUME Shape, NEW k \in Check, StampCheckSupervisor(k)
  PROVE  Kept(k)
<1> USE DEF others, files
<1>k. k \in Op
  BY Kinds
<1> DEFINE d == [desc[k] EXCEPT !.status = "starting", !.identity = TRUE]
<1>1. /\ starter[k] = "stamping" /\ starter' = [starter EXCEPT ![k] = "idle"]
      /\ desc' = [desc EXCEPT ![k] = d]
      /\ UNCHANGED <<others, launch, files, sup, pen, child, cancel, faults>>
  BY DEF StampCheckSupervisor
<1>2. /\ d \in Descriptors /\ d.status = "starting" /\ d.identity = TRUE
      /\ d.child = desc[k].child /\ d.run = desc[k].run
      /\ d.execution = desc[k].execution /\ d.policy = desc[k].policy
  <2>1. desc[k] \in Descriptors
    BY <1>k DEF Shape
  <2>2. d \in Descriptors
    BY <2>1 DEF Descriptors
  <2>3. /\ d.status = "starting" /\ d.identity = TRUE
        /\ d.child = desc[k].child /\ d.run = desc[k].run
        /\ d.execution = desc[k].execution /\ d.policy = desc[k].policy
    BY <2>1 DEF Descriptors
  <2> QED BY <2>2, <2>3
<1> HIDE DEF d
<1>3. /\ desc' \in [Op -> Descriptors] /\ desc'[k] = d
      /\ \A o \in Op \ {k} : desc'[o] = desc[o]
  BY <1>k, <1>1, <1>2, DescriptorEffect
<1>4. Shape' /\ Others(k)
  BY <1>k, <1>1, <1>3, StarterEffect DEF Shape, Others, Same
<1>5. Stamps(k)
  BY <1>k, <1>1, <1>2, <1>3, StarterEffect DEF Stamps, BoundKept, Quiet, FilesKept
<1> QED BY <1>4, <1>5 DEF Kept, RowStep
\* A supervisor takes up the publication of an outcome it found.
LEMMA OutcomeEffect ==
  ASSUME Shape, NEW k \in Op, NEW obs, Final(k, obs), Begins(k, "sup", "result", obs)
  PROVE  /\ pen' \in [Op -> [Writer -> Pens]]
         /\ pen'[k]["sup"].obs = obs /\ Takes(k, "sup", "result", obs)
         /\ \A o \in Op \ {k} : pen'[o] = pen[o]
<1>1. obs \in Observation /\ "result" \in Places /\ "sup" \in Writer
  BY DEF Final, Places, Writer
<1> QED BY <1>1, BeginsEffect DEF Takes

\* A supervisor takes a descriptor that is starting.
LEMMA ClaimEffect ==
  ASSUME Shape, NEW k \in Op,
         desc' = [desc EXCEPT ![k] = [@ EXCEPT !.status = "running", !.identity = TRUE]]
  PROVE  /\ desc' \in [Op -> Descriptors] /\ desc'[k].status = "running"
         /\ desc'[k].identity = TRUE /\ desc'[k].child = desc[k].child /\ BoundKept(k)
         /\ \A o \in Op \ {k} : desc'[o] = desc[o]
<1> DEFINE d == [desc[k] EXCEPT !.status = "running", !.identity = TRUE]
<1>1. /\ d \in Descriptors /\ d.status = "running" /\ d.identity = TRUE
      /\ d.child = desc[k].child /\ d.run = desc[k].run
      /\ d.execution = desc[k].execution /\ d.policy = desc[k].policy
  <2>1. desc[k] \in Descriptors
    BY DEF Shape
  <2>2. d \in Descriptors
    BY <2>1 DEF Descriptors
  <2>3. /\ d.status = "running" /\ d.identity = TRUE
        /\ d.child = desc[k].child /\ d.run = desc[k].run
        /\ d.execution = desc[k].execution /\ d.policy = desc[k].policy
    BY <2>1 DEF Descriptors
  <2> QED BY <2>2, <2>3
<1>2. desc' = [desc EXCEPT ![k] = d]
  OBVIOUS
<1> HIDE DEF d
<1> QED BY <1>1, <1>2, DescriptorEffect DEF BoundKept

LEMMA ClaimCheckKeeps ==
  ASSUME Shape, NEW k \in Check, Verdicts(k), Hands(k), ClaimCheck(k)
  PROVE  Kept(k)
<1> USE DEF others, files
<1>k. /\ k \in Op /\ k \notin Actions /\ k \notin Pull /\ "sup" \in Writer
      /\ "errored" \in TerminalStatus(k) /\ TerminalStatus(k) = CheckStatus
  BY Kinds, StatusesOf DEF Writer, CheckStatus
<1>1. /\ sup[k].at = "spawned" /\ LockFree(k)
      /\ UNCHANGED <<others, launch, files, starter, child, cancel>>
  BY <1>k, UnlockedFree DEF ClaimCheck
<1>2. sup[k].note \in {"passed", "failed", "errored"}
  BY DEF Verdicts, NoteFits
<1>3. CASE /\ desc[k].status # "starting" /\ Goes(k, "gone")
           /\ UNCHANGED <<desc, pen, faults>>
  <2>1. /\ sup' \in [Op -> Supervisors] /\ \A o \in Op \ {k} : sup'[o] = sup[o]
        /\ sup'[k].at = "gone" /\ sup'[k].note = sup[k].note /\ sup'[k].clean = sup[k].clean
    BY <1>k, <1>3, GoesEffect
  <2>2. Shape' /\ Others(k)
    BY <1>1, <1>3, <2>1 DEF Shape, Others, Same
  <2>3. ~Busy(k, "sup")
    BY <1>1 DEF Hands
  <2>4. Quits(k, "sup")
    BY <1>k, <1>1, <1>3, <2>1, <2>3 DEF Quits, Stopped, FilesKept, Busy, Alive
  <2> QED BY <1>k, <2>2, <2>4 DEF Kept, RowStep
<1>4. CASE /\ desc[k].status = "starting"
           /\ desc' = [desc EXCEPT ![k] = [@ EXCEPT !.status = "running", !.identity = TRUE]]
           /\ Goes(k, "command") /\ UNCHANGED <<pen, faults>>
  <2>1. /\ sup' \in [Op -> Supervisors] /\ \A o \in Op \ {k} : sup'[o] = sup[o]
        /\ sup'[k].at = "command" /\ sup'[k].note = sup[k].note /\ sup'[k].clean = sup[k].clean
    BY <1>k, <1>4, GoesEffect DEF Working
  <2>2. Shape' /\ Others(k)
    BY <1>k, <1>1, <1>4, <2>1, ClaimEffect DEF Shape, Others, Same
  <2>3. Claims(k)
    BY <1>k, <1>1, <1>2, <1>4, <2>1, ClaimEffect DEF Claims, NoteFits, Quiet, FilesKept
  <2> QED BY <2>2, <2>3 DEF Kept, RowStep
<1>5. CASE /\ desc[k].status = "starting"
           /\ desc' = [desc EXCEPT ![k] = [@ EXCEPT !.status = "running", !.identity = TRUE]]
           /\ Fails("suite") /\ Publishing(k, Seen("errored"))
  <2>1. faults' \in 0..MaxFaults[play]
    BY <1>5, FaultTyped
  <2>2. Goes(k, "publishing") /\ Begins(k, "sup", "result", Seen("errored"))
    BY <1>5 DEF Publishing, Goes
  <2>3. /\ sup' \in [Op -> Supervisors] /\ \A o \in Op \ {k} : sup'[o] = sup[o]
        /\ sup'[k].at = "publishing" /\ sup'[k].note = sup[k].note
        /\ sup'[k].clean = sup[k].clean
    BY <1>k, <2>2, GoesEffect
  <2>4. Final(k, Seen("errored"))
    BY <1>k, SeenFinal
  <2>5. /\ pen' \in [Op -> [Writer -> Pens]] /\ \A o \in Op \ {k} : pen'[o] = pen[o]
        /\ pen'[k]["sup"].obs = Seen("errored") /\ Takes(k, "sup", "result", Seen("errored"))
    BY <1>k, <2>2, <2>4, OutcomeEffect
  <2>6. Shape' /\ Others(k)
    BY <1>k, <1>1, <1>5, <2>1, <2>3, <2>5, ClaimEffect DEF Shape, Others, Same
  <2>7. Outcome(k)
    BY <1>k, <1>1, <1>2, <2>3, <2>4, <2>5 DEF Outcome, FilesKept
  <2>8. Claims(k)
    BY <1>k, <1>1, <1>5, <2>3, <2>7, ClaimEffect DEF Claims
  <2> QED BY <2>6, <2>8 DEF Kept, RowStep
<1>6. CASE /\ desc[k].status = "starting" /\ Fails("binding") /\ Abandons(k, "sup")
           /\ sup' = [sup EXCEPT ![k] = [@ EXCEPT !.at = "publishing", !.clean = FALSE]]
           /\ UNCHANGED desc
  <2>1. faults' \in 0..MaxFaults[play]
    BY <1>6, FaultTyped
  <2> DEFINE r == [sup[k] EXCEPT !.at = "publishing", !.clean = FALSE]
  <2>s. sup[k] \in Supervisors
    BY <1>k DEF Shape
  <2>2. r \in Supervisors /\ r.at = "publishing" /\ ~r.clean /\ r.note = sup[k].note
    BY <2>s DEF Supervisors
  <2>3. sup' = [sup EXCEPT ![k] = r]
    BY <1>6
  <2> HIDE DEF r
  <2>4. /\ sup' \in [Op -> Supervisors] /\ \A o \in Op \ {k} : sup'[o] = sup[o]
        /\ sup'[k].at = "publishing" /\ sup'[k].note = sup[k].note /\ ~sup'[k].clean
    BY <1>k, <2>2, <2>3, SupervisorEffect
  <2>5. Final(k, Lost(k)) /\ Begins(k, "sup", "result", Lost(k))
    BY <1>k, <1>6, LostFinal DEF Abandons
  <2>6. /\ pen' \in [Op -> [Writer -> Pens]] /\ \A o \in Op \ {k} : pen'[o] = pen[o]
        /\ pen'[k]["sup"].obs = Lost(k) /\ Takes(k, "sup", "result", Lost(k))
    BY <1>k, <2>5, OutcomeEffect
  <2>7. Shape' /\ Others(k)
    BY <1>1, <1>6, <2>1, <2>4, <2>6 DEF Shape, Others, Same
  <2>8. Outcome(k)
    BY <1>k, <1>1, <1>2, <2>4, <2>5, <2>6 DEF Outcome, FilesKept
  <2>9. Breaks(k)
    BY <1>1, <1>6, <2>4, <2>8 DEF Breaks
  <2> QED BY <2>7, <2>9 DEF Kept, RowStep
<1> QED BY <1>3, <1>4, <1>5, <1>6 DEF ClaimCheck, Goes

\* What one command leaves.
LEMMA CommandDoneEffect ==
  ASSUME Shape, NEW k \in Check, Verdicts(k), NEW verdict \in {"passed", "failed", "errored"},
         CommandDone(k, verdict)
  PROVE  /\ sup' \in [Op -> Supervisors] /\ \A o \in Op \ {k} : sup'[o] = sup[o]
         /\ sup'[k].clean = sup[k].clean /\ sup'[k].note \in {"passed", "failed", "errored"}
         /\ pen' \in [Op -> [Writer -> Pens]] /\ \A o \in Op \ {k} : pen'[o] = pen[o]
         /\ \/ sup'[k].at = "command" /\ pen'[k] = pen[k]
            \/ /\ sup'[k].at = "publishing" /\ Final(k, pen'[k]["sup"].obs)
               /\ Takes(k, "sup", "result", pen'[k]["sup"].obs)
<1>k. k \in Op /\ TerminalStatus(k) = CheckStatus
  BY Kinds, StatusesOf
<1> DEFINE tally == overall_status(sup[k].note, Suite[k][sup[k].cmd], verdict)
<1>1. tally \in {"passed", "failed", "errored"} /\ tally \in Notes
  BY DEF Verdicts, NoteFits, overall_status, Notes
<1> DEFINE next == [sup[k] EXCEPT !.at = "command", !.cmd = sup[k].cmd + 1, !.note = tally]
           last == [sup[k] EXCEPT !.at = "publishing", !.note = tally]
<1>2. \/ sup' = [sup EXCEPT ![k] = next] /\ UNCHANGED pen
      \/ sup' = [sup EXCEPT ![k] = last] /\ Begins(k, "sup", "result", Seen(tally))
  BY DEF CommandDone
<1> HIDE DEF tally
<1>5. sup[k] \in Supervisors /\ sup[k].cmd + 1 \in Nat
  BY <1>k DEF Shape, Supervisors
<1>6. next \in Supervisors /\ next.at = "command" /\ next.note = tally /\ next.clean = sup[k].clean
  BY <1>1, <1>5 DEF Supervisors, Working
<1>7. last \in Supervisors /\ last.at = "publishing" /\ last.note = tally /\ last.clean = sup[k].clean
  BY <1>1, <1>5 DEF Supervisors
<1> HIDE DEF next, last
<1>3. CASE sup' = [sup EXCEPT ![k] = next] /\ UNCHANGED pen
  <2>1. /\ sup' \in [Op -> Supervisors] /\ \A o \in Op \ {k} : sup'[o] = sup[o]
        /\ sup'[k] = next
    BY <1>k, <1>3, <1>6, SupervisorEffect
  <2>2. pen' \in [Op -> [Writer -> Pens]] /\ pen' = pen
    BY <1>3 DEF Shape
  <2> QED BY <1>1, <1>6, <2>1, <2>2
<1>4. CASE sup' = [sup EXCEPT ![k] = last] /\ Begins(k, "sup", "result", Seen(tally))
  <2>1. /\ sup' \in [Op -> Supervisors] /\ \A o \in Op \ {k} : sup'[o] = sup[o]
        /\ sup'[k] = last
    BY <1>k, <1>4, <1>7, SupervisorEffect
  <2>2. Final(k, Seen(tally))
    BY <1>k, <1>1, SeenFinal DEF CheckStatus
  <2> QED BY <1>k, <1>1, <1>4, <1>7, <2>1, <2>2, OutcomeEffect
<1> QED BY <1>2, <1>3, <1>4

LEMMA CommandKeeps ==
  ASSUME Shape, NEW k \in Check, Verdicts(k), NEW verdict \in {"passed", "failed", "errored"},
         CommandDone(k, verdict),
         sup[k].at \in {"spawn", "record", "wait", "clear", "clear failed"},
         desc' = desc \/ desc' = [desc EXCEPT ![k].child = "none"],
         sup[k].at \in {"spawn", "clear", "clear failed"} => child' = child,
         sup[k].at \in {"record", "wait"} => child' = [child EXCEPT ![k] = FALSE],
         UNCHANGED <<others, launch, files, starter, cancel>>, faults' \in 0..MaxFaults[play]
  PROVE  Kept(k)
<1> USE DEF others, files
<1>k. k \in Op /\ k \notin Actions /\ k \notin Pull
  BY Kinds
<1>1. /\ sup' \in [Op -> Supervisors] /\ \A o \in Op \ {k} : sup'[o] = sup[o]
      /\ sup'[k].clean = sup[k].clean /\ sup'[k].note \in {"passed", "failed", "errored"}
      /\ pen' \in [Op -> [Writer -> Pens]] /\ \A o \in Op \ {k} : pen'[o] = pen[o]
      /\ \/ sup'[k].at = "command" /\ pen'[k] = pen[k]
         \/ /\ sup'[k].at = "publishing" /\ Final(k, pen'[k]["sup"].obs)
            /\ Takes(k, "sup", "result", pen'[k]["sup"].obs)
  BY CommandDoneEffect
<1>2. /\ child' \in [Op -> BOOLEAN] /\ \A o \in Op \ {k} : child'[o] = child[o]
      /\ sup[k].at \in {"record", "wait"} => ~child'[k]
      /\ sup[k].at \notin {"record", "wait"} => child'[k] = child[k]
  BY <1>k DEF Shape
<1>3. /\ desc' \in [Op -> Descriptors] /\ IdentityKept(k)
      /\ \A o \in Op \ {k} : desc'[o] = desc[o]
  <2>1. CASE desc' = desc
    BY <2>1 DEF IdentityKept, BoundKept, Shape
  <2>2. CASE desc' = [desc EXCEPT ![k].child = "none"]
    BY <1>k, <2>2, ChildNamed
  <2> QED BY <2>1, <2>2
<1>4. Shape' /\ Others(k)
  BY <1>k, <1>1, <1>2, <1>3 DEF Shape, Others, Same
<1>5. Commands(k)
  BY <1>1, <1>2 DEF Commands
<1>6. CASE sup'[k].at = "command" /\ pen'[k] = pen[k]
  <2>1. Works(k)
    BY <1>k, <1>1, <1>3, <1>5, <1>6 DEF Works, Working, NoteFits, Quiet, FilesKept
  <2> QED BY <1>4, <2>1 DEF Kept, RowStep
<1>7. CASE /\ sup'[k].at = "publishing" /\ Final(k, pen'[k]["sup"].obs)
           /\ Takes(k, "sup", "result", pen'[k]["sup"].obs)
  <2>1. Outcome(k)
    BY <1>k, <1>1, <1>7 DEF Outcome, FilesKept
  <2>2. Concludes(k)
    BY <1>1, <1>3, <1>5, <2>1 DEF Concludes, Working
  <2> QED BY <1>4, <2>2 DEF Kept, RowStep
<1> QED BY <1>1, <1>6, <1>7
LEMMA CheckWorksKeep ==
  ASSUME Shape, NEW k \in Check, Verdicts(k),
         \/ RecordCommandLaunch(k) \/ SpawnCommand(k) \/ RecordActiveCommand(k)
         \/ CommandEnds(k) \/ ClearActiveCommand(k)
  PROVE  Kept(k)
<1> USE DEF others, files
<1>k. k \in Op /\ k \notin Actions /\ k \notin Pull
  BY Kinds
<1>n. sup[k].note \in {"passed", "failed", "errored"}
  BY DEF Verdicts, NoteFits
\* The supervisor takes one step that ends no command.
<1>w. ASSUME NEW at \in Working \ {"claiming", "reviewing"}, Goes(k, at), sup[k].at \in Working,
             desc' \in [Op -> Descriptors], IdentityKept(k),
             \A o \in Op \ {k} : desc'[o] = desc[o],
             child' \in [Op -> BOOLEAN], \A o \in Op \ {k} : child'[o] = child[o],
             Commands(k), UNCHANGED <<others, launch, files, starter, pen, cancel, faults>>
      PROVE  Kept(k)
  <2>1. /\ sup' \in [Op -> Supervisors] /\ \A o \in Op \ {k} : sup'[o] = sup[o]
        /\ sup'[k].at = at /\ sup'[k].note = sup[k].note /\ sup'[k].clean = sup[k].clean
    BY <1>k, <1>w, GoesEffect
  <2>2. Shape' /\ Others(k)
    BY <1>w, <2>1 DEF Shape, Others, Same
  <2>3. NoteFits(k)'
    BY <1>k, <1>n, <2>1 DEF NoteFits
  <2>4. Works(k)
    BY <1>w, <2>1, <2>3 DEF Works, Quiet, FilesKept
  <2> QED BY <2>2, <2>4 DEF Kept, RowStep
<1>1. CASE RecordCommandLaunch(k)
  <2>1. /\ sup[k].at = "command" /\ Goes(k, "spawn")
        /\ UNCHANGED <<others, launch, files, starter, pen, child, cancel, faults>>
    BY <1>1 DEF RecordCommandLaunch, Goes
  <2>2. /\ desc' \in [Op -> Descriptors] /\ IdentityKept(k)
        /\ \A o \in Op \ {k} : desc'[o] = desc[o]
        /\ Detached(k) => desc'[k].child = "launching"
    <3>1. CASE Detached(k)
      BY <1>1, <1>k, <3>1, ChildNamed DEF RecordCommandLaunch
    <3>2. CASE ~Detached(k)
      BY <1>1, <3>2 DEF RecordCommandLaunch, IdentityKept, BoundKept, Shape
    <3> QED BY <3>1, <3>2
  <2>3. sup'[k].at = "spawn"
    BY <1>k, <2>1, GoesEffect DEF Working
  <2>4. Commands(k)
    BY <2>1, <2>2, <2>3 DEF Commands
  <2> QED BY <1>w, <2>1, <2>2, <2>4 DEF Working, Shape
<1>2. CASE SpawnCommand(k)
  <2>1. sup[k].at = "spawn" /\ UNCHANGED <<others, launch, files, starter, cancel>>
    BY <1>2 DEF SpawnCommand
  <2> DEFINE at == IF Detached(k) THEN "record" ELSE "wait"
  <2>2. CASE /\ child' = [child EXCEPT ![k] = TRUE] /\ Goes(k, at)
             /\ UNCHANGED <<desc, pen, faults>>
    <3>1. at \in Working \ {"claiming", "reviewing"} /\ at \in {"record", "wait"}
      BY DEF Working
    <3>2. sup'[k].at = at
      BY <1>k, <2>2, <3>1, GoesEffect
    <3>3. Commands(k)
      BY <2>1, <2>2, <3>2 DEF Commands
    <3>4. child' \in [Op -> BOOLEAN] /\ \A o \in Op \ {k} : child'[o] = child[o]
      BY <2>2 DEF Shape
    <3>5. desc' \in [Op -> Descriptors] /\ IdentityKept(k)
      BY <2>2 DEF IdentityKept, BoundKept, Shape
    <3> HIDE DEF at
    <3> QED BY <1>w, <2>1, <2>2, <3>1, <3>3, <3>4, <3>5 DEF Working
  <2>3. CASE /\ Fails("command") /\ desc' = [desc EXCEPT ![k].child = "none"]
             /\ CommandDone(k, "errored") /\ UNCHANGED child
    <3>1. faults' \in 0..MaxFaults[play]
      BY <2>3, FaultTyped
    <3> QED BY <2>1, <2>3, <3>1, CommandKeeps
  <2> QED BY <1>2, <2>2, <2>3 DEF SpawnCommand, Goes
<1>3. CASE RecordActiveCommand(k)
  <2>1. sup[k].at = "record" /\ UNCHANGED <<others, launch, files, starter, cancel>>
    BY <1>3 DEF RecordActiveCommand
  <2>2. CASE /\ desc' = [desc EXCEPT ![k].child = "active"] /\ Goes(k, "wait")
             /\ UNCHANGED <<pen, child, faults>>
    <3>1. /\ desc' \in [Op -> Descriptors] /\ desc'[k].child = "active" /\ IdentityKept(k)
          /\ \A o \in Op \ {k} : desc'[o] = desc[o]
      BY <1>k, <2>2, ChildNamed
    <3>2. sup'[k].at = "wait"
      BY <1>k, <2>2, GoesEffect DEF Working
    <3>3. Commands(k)
      BY <2>1, <2>2, <3>1, <3>2 DEF Commands
    <3> QED BY <1>w, <2>1, <2>2, <3>1, <3>3 DEF Working, Shape
  <2>3. CASE /\ Fails("command") /\ child' = [child EXCEPT ![k] = FALSE]
             /\ CommandDone(k, "errored") /\ UNCHANGED desc
    <3>1. faults' \in 0..MaxFaults[play]
      BY <2>3, FaultTyped
    <3> QED BY <2>1, <2>3, <3>1, CommandKeeps
  <2> QED BY <1>3, <2>2, <2>3 DEF RecordActiveCommand, Goes
<1>4. CASE CommandEnds(k)
  <2>1. /\ sup[k].at = "wait" /\ child' = [child EXCEPT ![k] = FALSE]
        /\ UNCHANGED <<others, desc, launch, files, starter, cancel, faults>>
    BY <1>4 DEF CommandEnds
  <2>2. PICK verdict \in {"passed", "failed"} :
          IF Detached(k)
          THEN /\ sup' = [sup EXCEPT ![k].at = IF verdict = "passed" THEN "clear"
                                               ELSE "clear failed"]
               /\ UNCHANGED pen
          ELSE CommandDone(k, verdict)
    BY <1>4 DEF CommandEnds
  <2>3. faults' \in 0..MaxFaults[play]
    BY <2>1 DEF Shape
  <2>4. CASE Detached(k)
    <3> DEFINE at == IF verdict = "passed" THEN "clear" ELSE "clear failed"
    <3>1. /\ at \in Working \ {"claiming", "reviewing"} /\ at \in {"clear", "clear failed"}
          /\ Goes(k, at) /\ UNCHANGED pen
      BY <2>2, <2>4 DEF Working, Goes
    <3> HIDE DEF at
    <3>2. sup'[k].at = at
      BY <1>k, <3>1, GoesEffect
    <3>3. child' \in [Op -> BOOLEAN] /\ ~child'[k] /\ \A o \in Op \ {k} : child'[o] = child[o]
      BY <1>k, <2>1 DEF Shape
    <3>4. Commands(k)
      BY <2>1, <3>1, <3>2, <3>3 DEF Commands
    <3>5. desc' \in [Op -> Descriptors] /\ IdentityKept(k)
      BY <2>1 DEF IdentityKept, BoundKept, Shape
    <3> QED BY <1>w, <2>1, <3>1, <3>3, <3>4, <3>5 DEF Working
  <2>5. CASE ~Detached(k)
    BY <2>1, <2>2, <2>3, <2>5, CommandKeeps
  <2> QED BY <2>4, <2>5
<1>5. CASE ClearActiveCommand(k)
  <2>1. /\ sup[k].at \in {"clear", "clear failed"} /\ desc' = [desc EXCEPT ![k].child = "none"]
        /\ UNCHANGED <<others, launch, files, starter, child, cancel, faults>>
    BY <1>5 DEF ClearActiveCommand
  <2>2. PICK verdict \in {"passed", "failed", "errored"} : CommandDone(k, verdict)
    BY <1>5 DEF ClearActiveCommand
  <2>3. faults' \in 0..MaxFaults[play]
    BY <2>1 DEF Shape
  <2> QED BY <2>1, <2>2, <2>3, CommandKeeps
<1> QED BY <1>1, <1>2, <1>3, <1>4, <1>5

-----------------------------------------------------------------------------
(***************************************************************************)
(* Reapers.                                                                *)
(***************************************************************************)
LEMMA ReapsEffect ==
  ASSUME Shape, NEW k \in Op, Verdicts(k), Reaps(k)
  PROVE  /\ pen' \in [Op -> [Writer -> Pens]] /\ \A o \in Op \ {k} : pen'[o] = pen[o]
         /\ IF Recovers(k) THEN Takes(k, "reaper", "event", Recorded(k))
                           ELSE Takes(k, "reaper", "result", Lost(k))
<1>w. "reaper" \in Writer /\ "event" \in Places
  BY DEF Writer, Places
<1>1. CASE Recovers(k)
  <2>1. Begins(k, "reaper", "event", Recorded(k))
    BY <1>1 DEF Reaps
  <2>2. Recorded(k) \in Observation
    BY <1>1 DEF Recovers, Recorded, Verdicts, Final
  <2> QED BY <1>w, <1>1, <2>1, <2>2, BeginsEffect DEF Takes
<1>2. CASE ~Recovers(k)
  <2>1. Abandons(k, "reaper")
    BY <1>2 DEF Reaps
  <2> QED BY <1>w, <1>2, <2>1, AbandonEffect
<1> QED BY <1>1, <1>2

LEMMA ReapersKeep ==
  ASSUME Shape, NEW k \in Op, Verdicts(k),
         ReapCheck(k) \/ ReapActions(k) \/ ReapPull(k)
  PROVE  Kept(k)
<1> USE DEF others, files
<1>1. /\ Active(k) /\ SupervisorState(k) = "gone" /\ LockFree(k) /\ Reaps(k)
      /\ UNCHANGED <<others, launch, files, starter, sup, cancel, faults>>
  BY UnlockedFree DEF ReapCheck, ReapActions, ReapPull, ReapableCheck
<1>2. /\ pen' \in [Op -> [Writer -> Pens]] /\ \A o \in Op \ {k} : pen'[o] = pen[o]
      /\ IF Recovers(k) THEN Takes(k, "reaper", "event", Recorded(k))
                        ELSE Takes(k, "reaper", "result", Lost(k))
  BY <1>1, ReapsEffect
<1>3. /\ desc' \in [Op -> Descriptors] /\ IdentityKept(k)
      /\ \A o \in Op \ {k} : desc'[o] = desc[o]
  <2>1. CASE ReapCheck(k)
    BY <2>1, ChildNamed DEF ReapCheck
  <2>2. CASE ReapActions(k) \/ ReapPull(k)
    BY <2>2 DEF ReapActions, ReapPull, IdentityKept, BoundKept, Shape
  <2> QED BY <2>1, <2>2
<1>4. /\ child' \in [Op -> BOOLEAN] /\ \A o \in Op \ {k} : child'[o] = child[o]
      /\ k \in Check => /\ desc[k].child # "launching"
                        /\ desc[k].child = "active" => ~child'[k]
                        /\ desc[k].child # "active" => child'[k] = child[k]
  <2>1. CASE ReapCheck(k)
    BY <2>1 DEF ReapCheck, ReapableCheck, Shape
  <2>2. CASE ReapActions(k)
    BY <2>2, Kinds DEF ReapActions, Shape
  <2>3. CASE ReapPull(k)
    BY <2>3, Kinds DEF ReapPull, Shape
  <2> QED BY <2>1, <2>2, <2>3
<1>5. Shape' /\ Others(k)
  BY <1>1, <1>2, <1>3, <1>4 DEF Shape, Others, Same
<1>6. TakesOver(k)
  BY <1>1, <1>2, <1>3, <1>4 DEF TakesOver, FilesKept
<1> QED BY <1>5, <1>6 DEF Kept, RowStep
-----------------------------------------------------------------------------
(***************************************************************************)
(* Monitors.                                                               *)
(***************************************************************************)
\* A monitor's supervisor goes on.
LEMMA MonitorWorksKeep ==
  ASSUME Shape, NEW k \in Op, k \notin Check, NEW at \in Working, NEW note \in Remark,
         sup[k].at \in Working, Moves(k, at, note),
         at = "claiming" => k \in Actions /\ note \in Matches[DiscoveryKey[k]],
         at = "reviewing" => note \in {"exited", "cancelled", "timed_out"},
         desc' \in [Op -> Descriptors], IdentityKept(k), \A o \in Op \ {k} : desc'[o] = desc[o],
         child' \in [Op -> BOOLEAN], \A o \in Op \ {k} : child'[o] = child[o],
         UNCHANGED <<others, launch, files, starter, cancel, faults>>
  PROVE  Kept(k)
<1> USE DEF others, files
<1>1. pen' = pen /\ Carries(k, at, note)
  BY DEF Moves, Carries
<1>2. /\ sup' \in [Op -> Supervisors] /\ \A o \in Op \ {k} : sup'[o] = sup[o]
      /\ sup'[k].at = at /\ sup'[k].note = note /\ sup'[k].clean = sup[k].clean
  <2>1. at \in {"none", "spawned", "settling", "publishing", "gone"} \cup Working
    OBVIOUS
  <2> QED BY <1>1, <2>1, CarriesEffect
<1>3. Shape' /\ Others(k)
  BY <1>1, <1>2 DEF Shape, Others, Same
<1>4. NoteFits(k)'
  BY <1>2 DEF NoteFits
<1>5. Works(k)
  BY <1>1, <1>2, <1>4 DEF Works, Quiet, FilesKept
<1> QED BY <1>3, <1>5 DEF Kept, RowStep

\* ... or has an outcome.
LEMMA MonitorConcludes ==
  ASSUME Shape, NEW k \in Actions, NEW obs, Final(k, obs), sup[k].at \in Working,
         Concluding(k, obs) \/ Settling(k, obs),
         desc' \in [Op -> Descriptors], IdentityKept(k), \A o \in Op \ {k} : desc'[o] = desc[o],
         UNCHANGED <<others, launch, files, starter, child, cancel>>,
         faults' \in 0..MaxFaults[play]
  PROVE  Kept(k)
<1> USE DEF others, files
<1>k. k \in Op /\ k \notin Check /\ k \notin Pull
  BY Kinds
<1>1. PICK at \in {"settling", "publishing"} : Goes(k, at) /\ Begins(k, "sup", "result", obs)
  BY DEF Concluding, Settling, Goes
<1>2. /\ sup' \in [Op -> Supervisors] /\ \A o \in Op \ {k} : sup'[o] = sup[o]
      /\ sup'[k].at = at /\ sup'[k].clean = sup[k].clean
  BY <1>k, <1>1, GoesEffect
<1>3. /\ pen' \in [Op -> [Writer -> Pens]] /\ \A o \in Op \ {k} : pen'[o] = pen[o]
      /\ pen'[k]["sup"].obs = obs /\ Takes(k, "sup", "result", obs)
  BY <1>k, <1>1, OutcomeEffect
<1>4. Shape' /\ Others(k)
  BY <1>2, <1>3 DEF Shape, Others, Same
<1>5. Outcome(k)
  BY <1>k, <1>2, <1>3 DEF Outcome, FilesKept
<1>6. Concludes(k)
  BY <1>k, <1>2, <1>5 DEF Concludes
<1> QED BY <1>4, <1>6 DEF Kept, RowStep

\* A monitor is admitted.
LEMMA MonitorStarts ==
  ASSUME Shape, NEW k \in Op, k \notin Check, NEW run \in Run,
         desc[k].status = "absent",
         desc' = [desc EXCEPT ![k] = [@ EXCEPT !.status = "starting", !.run = run,
                                               !.policy = WakePolicy[k]]],
         starter' = [starter EXCEPT ![k] = "spawning"],
         desc'[k].run = run => Unclaimed(k),
         UNCHANGED <<others, launch, files, sup, pen, child, cancel, faults>>
  PROVE  Kept(k)
<1> USE DEF others, files
<1> DEFINE d == [desc[k] EXCEPT !.status = "starting", !.run = run, !.policy = WakePolicy[k]]
<1>1. /\ d \in Descriptors /\ d.status = "starting" /\ d.identity = desc[k].identity
      /\ d.run = run
  <2>1. WakePolicy[k] \in Policy
    BY DEF Policy
  <2>2. desc[k] \in Descriptors
    BY DEF Shape
  <2> QED BY <2>1, <2>2 DEF Descriptors
<1>2. desc' = [desc EXCEPT ![k] = d]
  OBVIOUS
<1> HIDE DEF d
<1>3. /\ desc' \in [Op -> Descriptors] /\ desc'[k] = d
      /\ \A o \in Op \ {k} : desc'[o] = desc[o]
  BY <1>1, <1>2, DescriptorEffect
<1>4. Shape' /\ Others(k)
  BY <1>3, StarterEffect DEF Shape, Others, Same
<1>5. Admits(k)
  BY <1>1, <1>3, StarterEffect DEF Admits, Quiet, FilesKept
<1> QED BY <1>4, <1>5 DEF Kept, RowStep

LEMMA CancelKeeps ==
  ASSUME Shape, NEW k \in Op, cancel' = [cancel EXCEPT ![k] = TRUE],
         UNCHANGED <<others, desc, launch, files, processes, faults>>
  PROVE  Kept(k)
<1>1. Shape' /\ Others(k) /\ Same(k)
  BY DEF Shape, Others, Same, others, files, processes
<1> QED BY <1>1 DEF Kept, RowStep

LEMMA StartActionsKeeps ==
  ASSUME Shape, NEW k \in Actions, StartActions(k)
  PROVE  Kept(k)
<1>k. k \in Op /\ k \notin Check /\ k \notin Pull
  BY Kinds
<1>1. Requested[k] \in Run
  BY DEF Run
<1>2. desc'[k].run = Requested[k] => Unclaimed(k)
  BY <1>k DEF StartActions, Unclaimed
<1> QED BY <1>k, <1>1, <1>2, MonitorStarts DEF StartActions

LEMMA StartPullKeeps ==
  ASSUME Shape, NEW k \in Pull, StartPull(k)
  PROVE  Kept(k)
<1>k. k \in Op /\ k \notin Check /\ k \notin Actions
  BY Kinds
<1>1. PullKey[k] \in Run
  BY DEF Run
<1>2. Unclaimed(k)
  BY <1>k DEF StartPull, Unclaimed
<1> QED BY <1>k, <1>1, <1>2, MonitorStarts DEF StartPull

LEMMA ClaimActionsKeeps ==
  ASSUME Shape, NEW k \in Actions, Hands(k), ClaimActions(k)
  PROVE  Kept(k)
<1> USE DEF others, files
<1>k. k \in Op /\ k \notin Check /\ k \notin Pull /\ "sup" \in Writer
  BY Kinds DEF Writer
<1>1. /\ sup[k].at = "spawned" /\ LockFree(k)
      /\ UNCHANGED <<others, launch, files, starter, child, cancel, faults>>
  BY <1>k, UnlockedFree DEF ClaimActions
<1>n. "exited" \in Remark
  BY DEF Remark, Notes
<1>2. CASE /\ desc[k].status = "starting"
           /\ desc' = [desc EXCEPT ![k] = [@ EXCEPT !.status = "running", !.identity = TRUE]]
           /\ Moves(k, IF desc[k].run = None THEN "discovering" ELSE "viewing", "exited")
  <2>1. PICK at \in {"discovering", "viewing"} : Moves(k, at, "exited")
    BY <1>2
  <2>2. pen' = pen /\ Carries(k, at, "exited")
    BY <2>1 DEF Moves, Carries
  <2>3. /\ sup' \in [Op -> Supervisors] /\ \A o \in Op \ {k} : sup'[o] = sup[o]
        /\ sup'[k].at = at /\ sup'[k].note = "exited" /\ sup'[k].clean = sup[k].clean
    BY <1>k, <1>n, <2>2, CarriesEffect DEF Working
  <2>4. Shape' /\ Others(k)
    BY <1>k, <1>1, <1>2, <2>2, <2>3, ClaimEffect DEF Shape, Others, Same
  <2>5. Claims(k)
    BY <1>k, <1>1, <1>2, <2>2, <2>3, ClaimEffect DEF Claims, NoteFits, Quiet, FilesKept
  <2> QED BY <2>4, <2>5 DEF Kept, RowStep
<1>3. CASE Moves(k, "gone", "exited") /\ UNCHANGED desc
  <2>1. pen' = pen /\ Carries(k, "gone", "exited")
    BY <1>3 DEF Moves, Carries
  <2>2. /\ sup' \in [Op -> Supervisors] /\ \A o \in Op \ {k} : sup'[o] = sup[o]
        /\ sup'[k].at = "gone" /\ sup'[k].clean = sup[k].clean
    BY <1>k, <1>n, <2>1, CarriesEffect
  <2>3. Shape' /\ Others(k)
    BY <1>1, <1>3, <2>1, <2>2 DEF Shape, Others, Same
  <2>4. ~Busy(k, "sup")
    BY <1>1 DEF Hands
  <2>5. Quits(k, "sup")
    BY <1>k, <1>1, <1>3, <2>1, <2>2, <2>4 DEF Quits, Stopped, FilesKept, Busy, Alive
  <2> QED BY <1>k, <2>3, <2>5 DEF Kept, RowStep
<1> QED BY <1>2, <1>3 DEF ClaimActions

LEMMA ClaimPullKeeps ==
  ASSUME Shape, NEW k \in Pull, Hands(k), ClaimPull(k)
  PROVE  Kept(k)
<1> USE DEF others, files
<1>k. k \in Op /\ k \notin Check /\ k \notin Actions /\ "sup" \in Writer
  BY Kinds DEF Writer
<1>1. /\ sup[k].at = "spawned" /\ LockFree(k)
      /\ UNCHANGED <<others, launch, files, starter, pen, child, cancel, faults>>
  BY <1>k, UnlockedFree DEF ClaimPull
<1>2. CASE /\ desc[k].status = "starting"
           /\ desc' = [desc EXCEPT ![k] = [@ EXCEPT !.status = "running", !.identity = TRUE]]
           /\ Goes(k, "polling")
  <2>1. /\ sup' \in [Op -> Supervisors] /\ \A o \in Op \ {k} : sup'[o] = sup[o]
        /\ sup'[k].at = "polling" /\ sup'[k].clean = sup[k].clean
    BY <1>k, <1>2, GoesEffect DEF Working
  <2>2. Shape' /\ Others(k)
    BY <1>k, <1>1, <1>2, <2>1, ClaimEffect DEF Shape, Others, Same
  <2>3. Claims(k)
    BY <1>k, <1>1, <1>2, <2>1, ClaimEffect DEF Claims, NoteFits, Quiet, FilesKept
  <2> QED BY <2>2, <2>3 DEF Kept, RowStep
<1>3. CASE Goes(k, "gone") /\ UNCHANGED desc
  <2>1. /\ sup' \in [Op -> Supervisors] /\ \A o \in Op \ {k} : sup'[o] = sup[o]
        /\ sup'[k].at = "gone" /\ sup'[k].note = sup[k].note /\ sup'[k].clean = sup[k].clean
    BY <1>k, <1>3, GoesEffect
  <2>2. Shape' /\ Others(k)
    BY <1>1, <1>3, <2>1 DEF Shape, Others, Same
  <2>3. ~Busy(k, "sup")
    BY <1>1 DEF Hands
  <2>4. Quits(k, "sup")
    BY <1>k, <1>1, <1>3, <2>1, <2>3 DEF Quits, Stopped, FilesKept, Busy, Alive
  <2> QED BY <1>k, <2>2, <2>4 DEF Kept, RowStep
<1> QED BY <1>2, <1>3 DEF ClaimPull, Goes
LEMMA ActionsWorkKeep ==
  ASSUME Shape, NEW k \in Actions, Verdicts(k),
         sup[k].at \in Working => desc[k].status = "running",
         \/ Discover(k) \/ ClaimRun(k) \/ InitialView(k) \/ SpawnWatch(k) \/ RecordWatch(k)
         \/ WatchExits(k) \/ WatchStopped(k) \/ FinalView(k) \/ SupervisorRaises(k)
  PROVE  Kept(k)
<1>k. k \in Op /\ k \notin Check /\ k \notin Pull /\ TerminalStatus(k) = MonitorStatus
  BY Kinds, StatusesOf
<1>s. \A status \in MonitorStatus : Final(k, Seen(status))
  BY <1>k, SeenFinal
<1>m. /\ "exited" \in Remark /\ "cancelled" \in Remark /\ "timed_out" \in Remark
      /\ \A run \in Matches[DiscoveryKey[k]] : run \in Remark /\ run \in Run
      /\ sup[k].note \in Remark
  BY <1>k DEF Remark, Notes, Run, Shape, Supervisors
<1>d. desc \in [Op -> Descriptors] /\ child \in [Op -> BOOLEAN] /\ faults \in 0..MaxFaults[play]
  BY DEF Shape
<1>i. desc' = desc => IdentityKept(k)
  BY DEF IdentityKept, BoundKept
\* The watch begins or ends.
<1>c. ASSUME NEW b \in BOOLEAN, child' = [child EXCEPT ![k] = b]
      PROVE  child' \in [Op -> BOOLEAN] /\ \A o \in Op \ {k} : child'[o] = child[o]
  BY <1>c, <1>d
<1>1. CASE Discover(k)
  <2>1. /\ sup[k].at = "discovering" /\ sup[k].at \in Working
        /\ UNCHANGED <<others, desc, launch, files, starter, child, cancel, faults>>
    BY <1>1 DEF Discover, Working
  <2>2. ASSUME NEW status \in MonitorStatus, Settling(k, Seen(status))
        PROVE  Kept(k)
    BY <1>s, <1>d, <1>i, <2>1, <2>2, MonitorConcludes
  <2>3. ASSUME NEW run \in Matches[DiscoveryKey[k]], Moves(k, "claiming", run)
        PROVE  Kept(k)
    BY <1>k, <1>m, <1>d, <1>i, <2>1, <2>3, MonitorWorksKeep DEF Working
  <2>4. {"cancelled", "unavailable", "ambiguous", "timed_out"} \subseteq MonitorStatus
    BY DEF MonitorStatus
  <2> QED BY <1>1, <2>2, <2>3, <2>4 DEF Discover
<1>2. CASE ClaimRun(k)
  <2>1. /\ sup[k].at = "claiming" /\ sup[k].at \in Working
        /\ UNCHANGED <<others, launch, files, starter, child, cancel, faults>>
    BY <1>2 DEF ClaimRun, Working
  <2>2. CASE Settling(k, Seen("ambiguous")) /\ UNCHANGED desc
    BY <1>s, <1>d, <1>i, <2>1, <2>2, MonitorConcludes DEF MonitorStatus
  <2>3. CASE /\ \A o \in Actions \ {k} : ~Owns(o, sup[k].note)
             /\ desc' = [desc EXCEPT ![k].run = sup[k].note]
             /\ Moves(k, "viewing", "exited") \/ Settling(k, Seen("timed_out"))
    <3> DEFINE d == [desc[k] EXCEPT !.run = sup[k].note]
    <3>1. sup[k].note \in Run
      BY <1>m, <2>1 DEF Verdicts, NoteFits
    <3>2. /\ d \in Descriptors /\ d.run = sup[k].note /\ d.status = desc[k].status
          /\ d.identity = desc[k].identity /\ d.execution = desc[k].execution
          /\ d.policy = desc[k].policy
      BY <1>k, <1>d, <3>1 DEF Descriptors
    <3>3. desc' = [desc EXCEPT ![k] = d]
      BY <2>3
    <3> HIDE DEF d
    <3>4. /\ desc' \in [Op -> Descriptors] /\ desc'[k] = d
          /\ \A o \in Op \ {k} : desc'[o] = desc[o]
      BY <1>k, <3>2, <3>3, DescriptorEffect
    <3>5. Active(k)
      BY <1>k, <2>1, NoStatusTwice DEF Active, Terminal
    <3>6. IdentityKept(k)
      BY <2>3, <3>2, <3>4, <3>5 DEF IdentityKept, BoundKept
    <3>7. CASE Moves(k, "viewing", "exited")
      BY <1>k, <1>m, <1>d, <2>1, <3>4, <3>6, <3>7, MonitorWorksKeep DEF Working
    <3>8. CASE Settling(k, Seen("timed_out"))
      BY <1>s, <1>d, <2>1, <3>4, <3>6, <3>8, MonitorConcludes DEF MonitorStatus
    <3> QED BY <2>3, <3>7, <3>8
  <2> QED BY <1>2, <2>2, <2>3 DEF ClaimRun
<1>3. CASE InitialView(k)
  <2>1. /\ sup[k].at = "viewing" /\ sup[k].at \in Working
        /\ UNCHANGED <<others, desc, launch, files, starter, child, cancel, faults>>
    BY <1>3 DEF InitialView, Working
  <2>2. ASSUME NEW obs \in Views[k], Concluding(k, obs)
        PROVE  Kept(k)
    BY <1>d, <1>i, <2>1, <2>2, ViewFinal, MonitorConcludes
  <2>3. CASE Moves(k, "watch", sup[k].note)
    BY <1>k, <1>m, <1>d, <1>i, <2>1, <2>3, MonitorWorksKeep DEF Working
  <2> QED BY <1>3, <2>2, <2>3 DEF InitialView
<1>4. CASE SpawnWatch(k)
  <2>1. /\ sup[k].at \in Working /\ Moves(k, "recording", sup[k].note)
        /\ child' = [child EXCEPT ![k] = TRUE]
        /\ UNCHANGED <<others, desc, launch, files, starter, cancel, faults>>
    BY <1>4 DEF SpawnWatch, Working
  <2>2. child' \in [Op -> BOOLEAN] /\ \A o \in Op \ {k} : child'[o] = child[o]
    BY <1>c, <2>1
  <2> QED BY <1>k, <1>m, <1>d, <1>i, <2>1, <2>2, MonitorWorksKeep DEF Working
<1>5. CASE RecordWatch(k)
  <2>1. /\ sup[k].at \in Working /\ Moves(k, "watching", sup[k].note)
        /\ UNCHANGED <<others, launch, files, starter, child, cancel, faults>>
    BY <1>5 DEF RecordWatch, Working
  <2>2. /\ desc' \in [Op -> Descriptors] /\ IdentityKept(k)
        /\ \A o \in Op \ {k} : desc'[o] = desc[o]
    <3>1. CASE desc' = desc
      BY <3>1, <1>d, <1>i
    <3>2. CASE desc' = [desc EXCEPT ![k].child = "active"]
      BY <1>k, <3>2, ChildNamed
    <3> QED BY <1>5, <3>1, <3>2 DEF RecordWatch
  <2> QED BY <1>k, <1>m, <1>d, <2>1, <2>2, MonitorWorksKeep DEF Working
<1>6. CASE WatchExits(k) \/ WatchStopped(k)
  <2>1. /\ sup[k].at \in Working /\ child' = [child EXCEPT ![k] = FALSE]
        /\ UNCHANGED <<others, desc, launch, files, starter, cancel, faults>>
    BY <1>6 DEF WatchExits, WatchStopped, Working
  <2>2. PICK note \in {"exited", "cancelled", "timed_out"} : Moves(k, "reviewing", note)
    BY <1>6 DEF WatchExits, WatchStopped
  <2>3. child' \in [Op -> BOOLEAN] /\ \A o \in Op \ {k} : child'[o] = child[o]
    BY <1>c, <2>1
  <2> QED BY <1>k, <1>m, <1>d, <1>i, <2>1, <2>2, <2>3, MonitorWorksKeep DEF Working
<1>7. CASE FinalView(k)
  <2>1. /\ sup[k].at = "reviewing" /\ sup[k].at \in Working
        /\ UNCHANGED <<others, desc, launch, files, starter, child, cancel, faults>>
    BY <1>7 DEF FinalView, Working
  <2>2. ASSUME NEW obs, Final(k, obs), Concluding(k, obs)
        PROVE  Kept(k)
    BY <1>d, <1>i, <2>1, <2>2, MonitorConcludes
  <2>3. sup[k].note # "exited" => sup[k].note \in MonitorStatus
    BY <2>1 DEF Verdicts, NoteFits, MonitorStatus
  <2>4. \A obs \in Views[k] : Final(k, obs)
    BY ViewFinal
  <2>5. \A status \in {"unavailable", "ambiguous"} : Final(k, Seen(status))
    BY <1>s DEF MonitorStatus
  <2> QED BY <1>7, <1>s, <2>2, <2>3, <2>4, <2>5 DEF FinalView
<1>8. CASE SupervisorRaises(k)
  <2>1. /\ sup[k].at \in Working /\ Concluding(k, Lost(k))
        /\ UNCHANGED <<others, desc, launch, files, starter, child, cancel>>
    BY <1>8 DEF SupervisorRaises, Working
  <2>2. faults' \in 0..MaxFaults[play]
    BY <1>8, FaultTyped DEF SupervisorRaises
  <2> QED BY <1>k, <1>d, <1>i, <2>1, <2>2, LostFinal, MonitorConcludes
<1> QED BY <1>1, <1>2, <1>3, <1>4, <1>5, <1>6, <1>7, <1>8

LEMMA SettlingKeeps ==
  ASSUME Shape, NEW k \in Actions, SettlingRaises(k)
  PROVE  Kept(k)
<1> USE DEF others, files
<1>k. k \in Op /\ k \notin Check /\ k \notin Pull
  BY Kinds
<1>1. /\ sup[k].at = "settling" /\ Begins(k, "sup", "result", Lost(k))
      /\ sup' = [sup EXCEPT ![k] = [@ EXCEPT !.at = "publishing", !.clean = FALSE]]
      /\ UNCHANGED <<others, desc, launch, files, starter, child, cancel>>
  BY DEF SettlingRaises
<1>2. faults' \in 0..MaxFaults[play]
  BY FaultTyped DEF SettlingRaises
<1> DEFINE r == [sup[k] EXCEPT !.at = "publishing", !.clean = FALSE]
<1>s. sup[k] \in Supervisors
  BY <1>k DEF Shape
<1>3. r \in Supervisors /\ r.at = "publishing" /\ ~r.clean
  BY <1>s DEF Supervisors
<1>4. sup' = [sup EXCEPT ![k] = r]
  BY <1>1
<1> HIDE DEF r
<1>5. /\ sup' \in [Op -> Supervisors] /\ \A o \in Op \ {k} : sup'[o] = sup[o]
      /\ sup'[k].at = "publishing" /\ ~sup'[k].clean
  BY <1>k, <1>3, <1>4, SupervisorEffect
<1>6. Final(k, Lost(k))
  BY <1>k, LostFinal
<1>7. /\ pen' \in [Op -> [Writer -> Pens]] /\ \A o \in Op \ {k} : pen'[o] = pen[o]
      /\ pen'[k]["sup"].obs = Lost(k) /\ Takes(k, "sup", "result", Lost(k))
  BY <1>k, <1>1, <1>6, OutcomeEffect
<1>8. Shape' /\ Others(k)
  BY <1>1, <1>2, <1>5, <1>7 DEF Shape, Others, Same
<1>9. Outcome(k)
  BY <1>k, <1>1, <1>5, <1>6, <1>7 DEF Outcome, FilesKept
<1>10. Reconcludes(k)
  BY <1>k, <1>1, <1>5, <1>9 DEF Reconcludes, IdentityKept, BoundKept
<1> QED BY <1>8, <1>10 DEF Kept, RowStep

LEMMA PullWorkKeeps ==
  ASSUME Shape, NEW k \in Pull, SamplePull(k) \/ SampleRaises(k)
  PROVE  Kept(k)
<1> USE DEF others, files
<1>k. k \in Op /\ k \notin Check /\ k \notin Actions /\ TerminalStatus(k) = PullStatus
  BY Kinds, StatusesOf
<1>1. /\ sup[k].at = "polling"
      /\ UNCHANGED <<others, desc, launch, files, starter, child, cancel>>
  BY DEF SamplePull, SampleRaises
<1>2. faults' \in 0..MaxFaults[play]
  <2>1. CASE SamplePull(k)
    BY <2>1 DEF SamplePull, Shape
  <2>2. CASE SampleRaises(k)
    BY <2>2, FaultTyped DEF SampleRaises
  <2> QED BY <2>1, <2>2
<1>3. ASSUME NEW status \in TerminalStatus(k), NEW note \in Remark, Decides(k, status, note),
             \/ note = None
             \/ note \in Samples[k] /\ status = Judged(k, note)
      PROVE  Kept(k)
  <2>1. Carries(k, "publishing", note) /\ Begins(k, "sup", "result", Seen(status))
    BY <1>3 DEF Decides, Carries
  <2>2. /\ sup' \in [Op -> Supervisors] /\ \A o \in Op \ {k} : sup'[o] = sup[o]
        /\ sup'[k].at = "publishing" /\ sup'[k].note = note /\ sup'[k].clean = sup[k].clean
    BY <1>k, <2>1, CarriesEffect
  <2>3. Final(k, Seen(status))
    BY <1>k, SeenFinal
  <2>4. /\ pen' \in [Op -> [Writer -> Pens]] /\ \A o \in Op \ {k} : pen'[o] = pen[o]
        /\ pen'[k]["sup"].obs = Seen(status) /\ Takes(k, "sup", "result", Seen(status))
    BY <1>k, <2>1, <2>3, OutcomeEffect
  <2>5. Shape' /\ Others(k)
    BY <1>1, <1>2, <2>2, <2>4 DEF Shape, Others, Same
  <2>6. Outcome(k)
    BY <1>k, <1>1, <1>3, <2>2, <2>3, <2>4 DEF Outcome, FilesKept
  <2>7. Concludes(k)
    BY <1>k, <1>1, <2>2, <2>6 DEF Concludes, IdentityKept, BoundKept, Working
  <2> QED BY <2>5, <2>7 DEF Kept, RowStep
<1>4. {"cancelled", "timed_out", "unavailable", "failed"} \subseteq TerminalStatus(k)
  BY <1>k DEF PullStatus
<1>5. None \in Remark /\ \A s \in Samples[k] : s \in Remark
  BY DEF Remark, Run
<1>6. ASSUME NEW s \in Samples[k], Judged(k, s) # "waiting", Decides(k, Judged(k, s), s)
      PROVE  Kept(k)
  BY <1>3, <1>5, <1>6, JudgedFinal
<1> QED BY <1>3, <1>4, <1>5, <1>6 DEF SamplePull, SampleRaises
-----------------------------------------------------------------------------
(***************************************************************************)
(* Every step is one of these.                                             *)
(***************************************************************************)
LEMMA AsideKeeps ==
  ASSUME Shape, UNCHANGED <<play, desc, launch, files, processes, cancel>>,
         faults' = faults \/ \E kind : Fails(kind)
  PROVE  Shape' /\ \A k \in Op : Same(k)
<1>1. faults' \in 0..MaxFaults[play]
  BY FaultTyped DEF Shape
<1> QED BY <1>1 DEF Shape, Same, files, processes

StreamStep ==
  \/ StartStream \/ Checkpoint \/ ApplyCheckpoint \/ PublishCheckpoint \/ CheckpointDies
  \/ ReconcileStream \/ ReconcileDies \/ SetPolicy \/ ResumeStream \/ WallClockPasses
  \/ \E i \in 1..MaxCheckpoints : DeliverContinuation(i) \/ GuardRaises(i)
IndexStep ==
  \/ \E w \in Publisher :
       \/ PrepareMarker(w) \/ WriteArtifact(w) \/ AppendJournal(w) \/ ClearMarker(w)
       \/ PublisherDies(w) \/ \E a \in Artifacts : ClaimArtifact(w, a) \/ ReplaceArtifact(w, a)
  \/ \E r \in Reader :
       \/ BeginSummaries(r) \/ ScanTasks(r) \/ ReadJournal(r) \/ CommitSummaries(r)
       \/ ClearRecovered(r) \/ BeginCollect(r) \/ PageCandidates(r) \/ Ingest(r)
       \/ AdvanceCursor(r) \/ ReaderDies(r)
  \/ DeleteIndex

LEMMA StreamAside ==
  ASSUME StreamStep
  PROVE  /\ UNCHANGED <<play, desc, launch, files, processes, cancel, archive, index>>
         /\ faults' = faults \/ \E kind : Fails(kind)
BY DEF StreamStep, StartStream, Checkpoint, ApplyCheckpoint, PublishCheckpoint, CheckpointDies,
       ReconcileStream, ReconcileDies, SetPolicy, ResumeStream, WallClockPasses,
       DeliverContinuation, GuardRaises, stream_unchanged

LEMMA IndexAside ==
  ASSUME IndexStep
  PROVE  /\ UNCHANGED <<play, desc, launch, files, processes, cancel, stream>>
         /\ faults' = faults \/ \E kind : Fails(kind)
<1> USE DEF index_unchanged
<1>1. ASSUME NEW w \in Publisher,
             \/ PrepareMarker(w) \/ WriteArtifact(w) \/ AppendJournal(w) \/ ClearMarker(w)
             \/ PublisherDies(w)
             \/ \E a \in Artifacts : ClaimArtifact(w, a) \/ ReplaceArtifact(w, a)
      PROVE  /\ UNCHANGED <<play, desc, launch, files, processes, cancel, stream>>
             /\ faults' = faults \/ \E kind : Fails(kind)
  BY <1>1 DEF PrepareMarker, WriteArtifact, AppendJournal, ClearMarker, PublisherDies,
              ClaimArtifact, ReplaceArtifact, Prepared
<1>2. ASSUME NEW r \in Reader,
             \/ BeginSummaries(r) \/ ScanTasks(r) \/ ReadJournal(r) \/ CommitSummaries(r)
             \/ ClearRecovered(r) \/ BeginCollect(r) \/ PageCandidates(r) \/ Ingest(r)
             \/ AdvanceCursor(r) \/ ReaderDies(r)
      PROVE  /\ UNCHANGED <<play, desc, launch, files, processes, cancel, stream>>
             /\ faults' = faults \/ \E kind : Fails(kind)
  BY <1>2 DEF BeginSummaries, ScanTasks, ReadJournal, CommitSummaries, ClearRecovered,
              BeginCollect, PageCandidates, Ingest, AdvanceCursor, ReaderDies
<1>3. CASE DeleteIndex
  BY <1>3 DEF DeleteIndex
<1> QED BY <1>1, <1>2, <1>3 DEF IndexStep

\* What every operation satisfies before a step, of what the step needs.
Poised(k) == Verdicts(k) /\ Hands(k) /\ (sup[k].at \in Working => desc[k].status = "running")

LEMMA StepKinds ==
  ASSUME Shape, \A k \in Op : Poised(k), Next
  PROVE  \/ \E k \in Op : Kept(k)
         \/ Shape' /\ \A k \in Op : Same(k)
<1>1. ASSUME NEW k \in Op, NEW w \in Writer,
             \/ WriteResult(k, w) \/ WriteEvidence(k, w) \/ RetainEvent(k, w)
             \/ EventConflict(k, w) \/ RaiseSignal(k, w) \/ CloseDescriptor(k, w)
      PROVE  Kept(k)
  BY <1>1, WritesKeep, DeathsKeep, CloseKeeps DEF Poised
<1>2. ASSUME NEW k \in Op,
             \/ SupervisorDies(k) \/ StarterDies(k) \/ ReaperDies(k) \/ OrphanEnds(k)
             \/ RecordLaunchFile(k)
      PROVE  Kept(k)
  BY <1>2, DeathsKeep, OrphanKeeps, RecordLaunchKeeps DEF Poised
<1>3. ASSUME NEW k \in Check,
             \/ StartCheck(k) \/ LaunchCheckSupervisor(k) \/ ReadCheckSupervisor(k)
             \/ StampCheckSupervisor(k) \/ ClaimCheck(k) \/ RecordCommandLaunch(k)
             \/ SpawnCommand(k) \/ RecordActiveCommand(k) \/ CommandEnds(k)
             \/ ClearActiveCommand(k) \/ ReapCheck(k)
      PROVE  k \in Op /\ Kept(k)
  BY <1>3, Kinds, StartCheckKeeps, SpawnsKeep, ReadSupervisorKeeps, StampKeeps, ClaimCheckKeeps,
     CheckWorksKeep, ReapersKeep DEF Poised, LaunchCheckSupervisor
<1>4. ASSUME NEW k \in Actions,
             \/ StartActions(k) \/ LaunchActionsSupervisor(k) \/ ClaimActions(k)
             \/ Discover(k) \/ ClaimRun(k) \/ InitialView(k) \/ SpawnWatch(k)
             \/ RecordWatch(k) \/ WatchExits(k) \/ WatchStopped(k) \/ FinalView(k)
             \/ SupervisorRaises(k) \/ SettlingRaises(k) \/ CancelActions(k) \/ ReapActions(k)
      PROVE  k \in Op /\ Kept(k)
  BY <1>4, Kinds, StartActionsKeeps, SpawnsKeep, ClaimActionsKeeps, ActionsWorkKeep, SettlingKeeps,
     CancelKeeps, ReapersKeep DEF Poised, LaunchActionsSupervisor, CancelActions
<1>5. ASSUME NEW k \in Pull,
             \/ StartPull(k) \/ LaunchPullSupervisor(k) \/ ClaimPull(k) \/ SamplePull(k)
             \/ SampleRaises(k) \/ CancelPull(k) \/ ReapPull(k)
      PROVE  k \in Op /\ Kept(k)
  BY <1>5, Kinds, StartPullKeeps, SpawnsKeep, ClaimPullKeeps, PullWorkKeeps, CancelKeeps, ReapersKeep
  DEF Poised, LaunchPullSupervisor, CancelPull
<1>6. CASE StreamStep
  BY <1>6, StreamAside, AsideKeeps
<1>7. CASE IndexStep
  BY <1>7, IndexAside, AsideKeeps
<1> QED BY <1>1, <1>2, <1>3, <1>4, <1>5, <1>6, <1>7 DEF Next, StreamStep, IndexStep
-----------------------------------------------------------------------------
(***************************************************************************)
(* Verdicts are those of the kind of operation, step by step.              *)
(***************************************************************************)
LEMMA VerdictsStep ==
  ASSUME NEW k \in Op, Verdicts(k), RowStep(k)
  PROVE  Verdicts(k)'
<1> DEFINE After ==
             /\ desc'[k].status \in {"absent", "starting", "running"} \cup TerminalStatus(k)
             /\ \A w \in Writer : pen'[k][w].at # "idle" => Final(k, pen'[k][w].obs)
             /\ result'[k] # None => Final(k, result'[k].obs)
             /\ evidence'[k] # None => Final(k, evidence'[k].obs)
             /\ k \in Check => sup'[k].note \in {"passed", "failed", "errored"}
             /\ sup'[k].at = "claiming" => k \in Actions /\ sup'[k].note \in Matches[DiscoveryKey[k]]
             /\ sup'[k].at = "reviewing" => sup'[k].note \in {"exited", "cancelled", "timed_out"}
<1> USE DEF Verdicts, Busy, NoteFits
<1>l. Final(k, Lost(k))
  BY LostFinal
<1>1. ASSUME NEW w \in Writer,
             PutsResult(k, w) \/ PutsEvidence(k, w) \/ PutsEvent(k, w) \/ PutsSignal(k, w)
      PROVE  After
  <2>1. /\ pen[k][w].at # "idle" /\ pen'[k][w].obs = pen[k][w].obs
        /\ \A v \in Writer \ {w} : pen'[k][v] = pen[k][v]
        /\ UNCHANGED <<desc[k], sup[k]>>
    BY <1>1 DEF PutsResult, PutsEvidence, PutsEvent, PutsSignal, Advances
  <2>2. result'[k] = result[k] \/ result'[k].obs = pen[k][w].obs
    BY <1>1 DEF PutsResult, PutsEvidence, PutsEvent, PutsSignal
  <2>3. evidence'[k] = evidence[k] \/ evidence'[k].obs = pen[k][w].obs
    BY <1>1 DEF PutsResult, PutsEvidence, PutsEvent, PutsSignal
  <2>4. Final(k, pen[k][w].obs)
    BY <2>1
  <2>5. \A v \in Writer : pen'[k][v].at # "idle" => Final(k, pen'[k][v].obs)
    BY <2>1, <2>4
  <2> QED BY <2>1, <2>2, <2>3, <2>4, <2>5
<1>2. ASSUME NEW w \in Writer, Quits(k, w) \/ Closes(k, w)
      PROVE  After
  <2>1. Stopped(k, w)
    BY <1>2 DEF Quits, Closes
  <2>2. /\ \A v \in Writer : pen'[k][v].at # "idle" => Final(k, pen'[k][v].obs)
        /\ result'[k] = result[k] /\ evidence'[k] = evidence[k]
    BY <2>1 DEF Stopped, FilesKept
  <2>3. \/ desc'[k].status = desc[k].status
        \/ desc'[k].status = pen[k][w].obs.status /\ Busy(k, w)
    BY <1>2 DEF Quits, Closes
  <2>4. desc'[k].status \in {"absent", "starting", "running"} \cup TerminalStatus(k)
    BY <2>3 DEF Final
  <2>5. /\ k \in Check => sup'[k].note = sup[k].note
        /\ \/ sup'[k].at = sup[k].at /\ sup'[k].note = sup[k].note
           \/ sup'[k].at = "gone"
    BY <2>1, Kinds DEF Stopped
  <2> QED BY <2>2, <2>4, <2>5
\* The steps that begin no publication.
<1>3. ASSUME Quiet(k),
             desc'[k].status = desc[k].status \/ desc'[k].status \in {"starting", "running"},
             NoteFits(k)'
      PROVE  After
  BY <1>3 DEF Quiet, FilesKept
<1>4. ASSUME sup'[k].note = sup[k].note, sup'[k].at = sup[k].at \/ sup'[k].at = "spawned"
      PROVE  NoteFits(k)'
  BY <1>4
\* ... and those that do.
<1>5. ASSUME NEW w \in Writer, NEW at, NEW obs, Takes(k, w, at, obs), Final(k, obs), FilesKept(k),
             desc'[k].status = desc[k].status \/ desc'[k].status = "running", NoteFits(k)'
      PROVE  After
  <2>1. \A v \in Writer : pen'[k][v].at # "idle" => Final(k, pen'[k][v].obs)
    BY <1>5 DEF Takes
  <2> QED BY <2>1, <1>5 DEF FilesKept
<1>6. ASSUME Outcome(k), desc'[k].status = desc[k].status \/ desc'[k].status = "running"
      PROVE  After
  <2>1. NoteFits(k)'
    BY <1>6, Kinds DEF Outcome
  <2> QED BY <1>5, <1>6, <2>1 DEF Outcome, Writer
<1>7. CASE Admits(k) \/ Launches(k) \/ Registers(k) \/ Reads(k) \/ Stamps(k) \/ Expires(k)
  <2>1. /\ Quiet(k)
        /\ desc'[k].status = desc[k].status \/ desc'[k].status \in {"starting", "running"}
    BY <1>7 DEF Admits, Launches, Registers, Reads, Stamps, Expires
  <2>2. sup'[k].note = sup[k].note /\ (sup'[k].at = sup[k].at \/ sup'[k].at = "spawned")
    BY <1>7 DEF Admits, Launches, Registers, Reads, Stamps, Expires
  <2> QED BY <1>3, <1>4, <2>1, <2>2
<1>8. CASE Forsakes(k)
  BY <1>8, <1>4, <1>5, <1>l DEF Forsakes, Writer
<1>9. CASE Claims(k)
  BY <1>9, <1>3, <1>6 DEF Claims
<1>10. CASE Breaks(k) \/ Concludes(k) \/ Reconcludes(k)
  BY <1>10, <1>6 DEF Breaks, Concludes, Reconcludes, IdentityKept
<1>11. CASE Works(k)
  BY <1>11, <1>3 DEF Works, IdentityKept
<1>12. CASE TakesOver(k)
  <2>1. Recovers(k) => Final(k, Recorded(k))
    BY DEF Recovers, Recorded
  <2>2. /\ FilesKept(k) /\ desc'[k].status = desc[k].status /\ sup'[k] = sup[k]
        /\ \/ Takes(k, "reaper", "event", Recorded(k)) /\ Recovers(k)
           \/ Takes(k, "reaper", "result", Lost(k))
    BY <1>12 DEF TakesOver, IdentityKept
  <2> QED BY <1>4, <1>5, <1>l, <2>1, <2>2 DEF Writer
<1>13. CASE Same(k)
  BY <1>13 DEF Same
<1>14. After
  BY <1>1, <1>2, <1>7, <1>8, <1>9, <1>10, <1>11, <1>12, <1>13 DEF RowStep
<1> QED BY <1>14
-----------------------------------------------------------------------------
(***************************************************************************)
(* Where the processes of an operation may be together.                    *)
(***************************************************************************)
Untouched(k) ==
  /\ result[k] = None /\ evidence[k] = None /\ event[k] = None /\ ~signal[k]

\* Nothing exists of an operation that was not admitted.
Unborn(k) ==
  desc[k].status = "absent" =>
    /\ ~desc[k].identity /\ ~launch[k] /\ starter[k] = "idle" /\ sup[k].at = "none" /\ sup[k].clean
    /\ Untouched(k) /\ (\A w \in Writer : ~Busy(k, w)) /\ ~child[k]

\* Until a supervisor runs there is nobody to identify; its starter follows it.
Birth(k) ==
  /\ sup[k].at = "none" => ~desc[k].identity /\ ~launch[k] /\ starter[k] \in {"idle", "spawning", "failing"}
  /\ starter[k] = "spawning" => sup[k].at = "none" /\ desc[k].status = "starting"
  /\ starter[k] = "stamping" => k \in Check /\ desc[k].status # "running"
  /\ starter[k] # "idle" /\ desc[k].status = "starting" => ~desc[k].identity /\ ~launch[k]
  /\ starter[k] = "failing" =>
       /\ desc[k].status = "starting" /\ ~desc[k].identity /\ ~launch[k]
       /\ sup[k].at \in {"none", "gone"}

\* A reaper comes after a supervisor that was known and died.
Succession(k) ==
  /\ Busy(k, "reaper") => /\ sup[k].at = "gone" /\ (desc[k].identity \/ launch[k])
                          /\ starter[k] \in {"idle", "recording"}
  /\ sup[k].at \in Working => desc[k].status = "running"
  /\ ~sup[k].clean => sup[k].at \in {"publishing", "gone"}
  /\ \A w \in Writer : pen[k][w].at \in {"signal", "descriptor"} => event[k] # None

Stations(k) == Unborn(k) /\ Hands(k) /\ Birth(k) /\ Succession(k)

LEMMA StationsStep ==
  ASSUME Shape, Shape', NEW k \in Op, Verdicts(k), Stations(k), RowStep(k)
  PROVE  Stations(k)'
<1> USE DEF Stations, Unborn, Hands, Birth, Succession, Untouched, Busy
<1>s. "sup" \in Writer /\ "starter" \in Writer /\ "reaper" \in Writer
  BY DEF Writer
<1>1. ASSUME NEW w \in Writer,
             PutsResult(k, w) \/ PutsEvidence(k, w) \/ PutsEvent(k, w) \/ PutsSignal(k, w)
      PROVE  Stations(k)'
  <2>1. /\ pen[k][w].at # "idle" /\ pen'[k][w].at # "idle"
        /\ \A v \in Writer \ {w} : pen'[k][v] = pen[k][v]
        /\ UNCHANGED <<desc[k], launch[k], starter[k], sup[k], child[k]>>
    BY <1>1 DEF PutsResult, PutsEvidence, PutsEvent, PutsSignal, Advances
  <2>2. /\ pen'[k][w].at \in {"signal", "descriptor"} => event'[k] # None
        /\ event[k] # None => event'[k] # None
    BY <1>1 DEF PutsResult, PutsEvidence, PutsEvent, PutsSignal, Advances
  <2>3. Unborn(k)'
    BY <2>1
  <2>4. Hands(k)'
    BY <2>1, <1>s
  <2>5. Birth(k)'
    BY <2>1
  <2>6. Succession(k)'
    BY <2>1, <2>2, <1>s
  <2> QED BY <2>3, <2>4, <2>5, <2>6
<1>2. ASSUME NEW w \in Writer, Quits(k, w) \/ Closes(k, w)
      PROVE  Stations(k)'
  <2>1. Stopped(k, w)
    BY <1>2 DEF Quits, Closes
  <2>2. w = "sup" => sup[k].at \notin {"none", "gone"}
    BY <1>2 DEF Quits, Closes, Alive
  <2>3. \/ desc'[k] = desc[k]
        \/ /\ desc'[k].status \notin {"absent", "starting", "running"}
           /\ w # "starter" => desc'[k].identity = desc[k].identity
           /\ w = "starter" => ~desc'[k].identity
           /\ pen[k][w].at = "descriptor"
    BY <1>2, NoStatusTwice DEF Quits, Closes, Verdicts, Final
  <2>4. Unborn(k)'
    BY <2>1, <2>2, <2>3 DEF Stopped, FilesKept
  <2>5. Hands(k)'
    BY <2>1, <1>s DEF Stopped
  <2>a. CASE w = "sup"
    <3>1. sup'[k].at = "gone" /\ starter'[k] = starter[k] /\ launch'[k] = launch[k]
      BY <2>1, <2>a DEF Stopped
    <3>2. starter[k] \notin {"spawning", "failing"} /\ ~Busy(k, "reaper")
      BY <2>2, <2>a
    <3>3. Birth(k)'
      BY <2>1, <2>3, <2>a, <3>1, <3>2 DEF Stopped, Working
    <3>4. Succession(k)'
      BY <2>1, <2>3, <2>a, <3>1, <3>2, <1>s DEF Stopped, FilesKept, Working
    <3> QED BY <2>4, <2>5, <3>3, <3>4
  <2>b. CASE w = "starter"
    <3>1. /\ starter'[k] = "idle" /\ launch'[k] = launch[k]
          /\ sup'[k].at = sup[k].at /\ sup'[k].clean = sup[k].clean
      BY <2>1, <2>b DEF Stopped
    <3>2. desc'[k] = desc[k] \/ (starter[k] = "failing" /\ ~desc'[k].identity)
      BY <2>3, <2>b
    <3>3. Birth(k)'
      BY <3>1, <3>2
    <3>4. Succession(k)'
      BY <2>1, <2>b, <3>1, <3>2, <1>s DEF Stopped, FilesKept, Working
    <3> QED BY <2>4, <2>5, <3>3, <3>4
  <2>c. CASE w = "reaper"
    <3>1. /\ starter'[k] = starter[k] /\ launch'[k] = launch[k]
          /\ sup'[k].at = sup[k].at /\ sup'[k].clean = sup[k].clean
          /\ ~Busy(k, "reaper")'
      BY <2>1, <2>c DEF Stopped
    <3>2. \/ desc'[k] = desc[k]
          \/ /\ desc'[k].status \notin {"absent", "starting", "running"}
             /\ sup[k].at = "gone" /\ starter[k] \in {"idle", "recording"}
      BY <2>3, <2>c
    <3>3. Birth(k)'
      BY <3>1, <3>2
    <3>4. Succession(k)'
      BY <2>1, <2>c, <3>1, <3>2, <1>s DEF Stopped, FilesKept, Working
    <3> QED BY <2>4, <2>5, <3>3, <3>4
  <2> QED BY <2>a, <2>b, <2>c DEF Writer
<1>3. CASE Admits(k)
  BY <1>3, <1>s DEF Admits, Quiet, FilesKept, Working
<1>4. CASE Launches(k)
  BY <1>4, <1>s DEF Launches, Quiet, FilesKept, Working
<1>5. CASE Forsakes(k)
  BY <1>5, <1>s DEF Forsakes, FilesKept, Takes, LockFree, Alive
<1>6. CASE Registers(k)
  BY <1>6, <1>s DEF Registers, Quiet, FilesKept
<1>7. CASE Reads(k)
  BY <1>7, <1>s DEF Reads, Quiet, FilesKept, LockFree
<1>8. CASE Stamps(k)
  BY <1>8, <1>s DEF Stamps, Quiet, FilesKept, LockFree
<1>9. CASE Claims(k)
  BY <1>9, <1>s DEF Claims, Outcome, Takes, Quiet, FilesKept, LockFree, Working
<1>10. CASE Breaks(k)
  BY <1>10, <1>s DEF Breaks, Outcome, Takes, FilesKept, Working
<1>11. CASE Works(k)
  BY <1>11, <1>s DEF Works, Quiet, IdentityKept, FilesKept, Working
<1>12. CASE Concludes(k)
  <2>1. /\ sup[k].at \in Working /\ sup'[k].at \in {"settling", "publishing"}
        /\ sup'[k].clean = sup[k].clean /\ Takes(k, "sup", "result", pen'[k]["sup"].obs)
        /\ desc'[k].status = desc[k].status /\ desc'[k].identity = desc[k].identity
        /\ FilesKept(k) /\ UNCHANGED <<launch[k], starter[k]>>
    BY <1>12 DEF Concludes, Outcome, IdentityKept
  <2>2. Unborn(k)'
    BY <2>1 DEF Takes, FilesKept, Working
  <2>3. Hands(k)'
    BY <2>1, <1>s DEF Takes
  <2>4. Birth(k)'
    BY <2>1 DEF Working
  <2>5. Succession(k)'
    BY <2>1, <1>s DEF Takes, FilesKept, Working
  <2> QED BY <2>2, <2>3, <2>4, <2>5
<1>13. CASE Reconcludes(k)
  BY <1>13, <1>s DEF Reconcludes, Outcome, Takes, IdentityKept, FilesKept, Working
<1>14. CASE TakesOver(k)
  <2>1. /\ desc[k].status # "absent" /\ (desc[k].identity \/ launch[k])
        /\ sup[k].at \in {"none", "gone"} /\ starter[k] # "stamping"
    BY <1>14 DEF TakesOver, SupervisorState, Alive, Active, LockFree
  <2>2. sup[k].at = "gone" /\ starter[k] \in {"idle", "recording"}
    BY <2>1 DEF Shape
  <2>3. /\ pen'[k]["reaper"].at \in {"event", "result"}
        /\ pen'[k]["sup"] = pen[k]["sup"] /\ pen'[k]["starter"] = pen[k]["starter"]
        /\ UNCHANGED <<launch[k], starter[k], sup[k], event[k]>>
        /\ desc'[k].status = desc[k].status /\ desc'[k].identity = desc[k].identity
    BY <1>14, <1>s DEF TakesOver, Takes, IdentityKept, FilesKept
  <2> QED BY <2>1, <2>2, <2>3 DEF Writer
<1>15. CASE Expires(k)
  BY <1>15 DEF Expires, Quiet, FilesKept
<1>16. CASE Same(k)
  BY <1>16 DEF Same
<1> QED BY <1>1, <1>2, <1>3, <1>4, <1>5, <1>6, <1>7, <1>8, <1>9, <1>10, <1>11, <1>12, <1>13,
           <1>14, <1>15, <1>16 DEF RowStep
-----------------------------------------------------------------------------
(***************************************************************************)
(* The files of an operation that is published once.                       *)
(***************************************************************************)
\* Who may write when, and what nobody has written yet.
Turns(k) ==
  /\ Busy(k, "sup") => desc[k].status = "running"
  /\ Busy(k, "reaper") => Active(k)
  /\ starter[k] = "stamping" => desc[k].status = "starting" /\ ~Busy(k, "sup")
  /\ Terminal(k) => sup[k].at \in {"none", "gone"}
  /\ Alive(k) /\ ~Busy(k, "sup") => Untouched(k)
  /\ starter[k] \in {"spawning", "recording", "stamping"} /\ desc[k].status = "starting"
       => Untouched(k)

\* The files tell one outcome as far as they are there.
FilesAgree(k) ==
  /\ evidence[k] # None => result[k] # None /\ result[k].obs = evidence[k].obs
  /\ event[k] # None =>
       /\ evidence[k] # None
       /\ event[k].status = EventStatus(k, evidence[k].obs)
       /\ event[k].result = result[k] /\ event[k].evidence = evidence[k]
  /\ signal[k] => event[k] # None /\ WakesFor(k, desc[k].policy, evidence[k].obs)

\* ... and what a writer has in hand is that outcome.
PenFollows(k, w) ==
  /\ pen[k][w].at \in {"result", "evidence"} => evidence[k] = None
  /\ pen[k][w].at = "evidence" => result[k] # None /\ result[k].obs = pen[k][w].obs
  /\ pen[k][w].at \in {"event", "signal", "descriptor"} =>
       evidence[k] # None /\ evidence[k].obs = pen[k][w].obs
  /\ pen[k][w].at = "signal" => WakesFor(k, desc[k].policy, pen[k][w].obs)
  /\ pen[k][w].at = "descriptor" => (signal[k] <=> WakesFor(k, desc[k].policy, pen[k][w].obs))

\* A finished operation was told of.
Told(k) ==
  Terminal(k) =>
    /\ evidence[k] # None /\ event[k] # None
    /\ desc[k].status = evidence[k].obs.status
    /\ signal[k] <=> WakesFor(k, desc[k].policy, evidence[k].obs)

Announced(k) == Turns(k) /\ FilesAgree(k) /\ (\A w \in Writer : PenFollows(k, w)) /\ Told(k)

\* One process writes at a time, while the operation is not over.
LEMMA OneWriter ==
  ASSUME NEW k \in Op, Verdicts(k), Stations(k), Turns(k), NEW w \in Writer, Busy(k, w)
  PROVE  /\ \A v \in Writer \ {w} : ~Busy(k, v)
         /\ desc[k].status \in {"starting", "running"} /\ ~Terminal(k)
         /\ ~(Alive(k) /\ ~Busy(k, "sup"))
         /\ ~(starter[k] \in {"spawning", "recording", "stamping"} /\ desc[k].status = "starting")
         /\ starter[k] # "stamping"
<1> USE DEF Stations, Hands, Birth, Succession, Unborn, Turns, Alive
<1>n. \A s \in {"absent", "starting", "running"} : s \notin TerminalStatus(k)
  BY NoStatusTwice
<1>1. CASE w = "sup"
  <2>1. /\ sup[k].at \in {"publishing", "settling"} /\ desc[k].status = "running"
        /\ starter[k] # "failing"
    BY <1>1
  <2> QED BY <1>1, <1>n, <2>1 DEF Writer, Terminal
<1>2. CASE w = "starter"
  <2>1. /\ starter[k] = "failing" /\ sup[k].at \in {"none", "gone"}
        /\ desc[k].status = "starting" /\ ~Busy(k, "reaper")
    BY <1>2
  <2> QED BY <1>2, <1>n, <2>1 DEF Writer, Terminal
<1>3. CASE w = "reaper"
  <2>1. /\ sup[k].at = "gone" /\ starter[k] \in {"idle", "recording"}
        /\ desc[k].identity \/ launch[k]
        /\ Active(k)
    BY <1>3
  <2>2. ~Terminal(k) /\ desc[k].status \in {"starting", "running"}
    BY <2>1 DEF Active, Terminal, Verdicts
  <2> QED BY <1>3, <2>1, <2>2 DEF Writer
<1> QED BY <1>1, <1>2, <1>3 DEF Writer

LEMMA AnnouncedPuts ==
  ASSUME Shape, Shape', NEW k \in Op, Verdicts(k), Stations(k), Announced(k), NEW w \in Writer,
         PutsResult(k, w) \/ PutsEvidence(k, w) \/ PutsEvent(k, w) \/ PutsSignal(k, w)
  PROVE  Announced(k)'
<1> USE DEF Announced
<1>1. Busy(k, w) /\ Busy(k, w)'
  BY DEF PutsResult, PutsEvidence, PutsEvent, PutsSignal, Advances, Busy
<1>2. /\ \A v \in Writer \ {w} : ~Busy(k, v)
      /\ desc[k].status \in {"starting", "running"} /\ ~Terminal(k)
      /\ ~(Alive(k) /\ ~Busy(k, "sup"))
      /\ ~(starter[k] \in {"spawning", "recording", "stamping"} /\ desc[k].status = "starting")
      /\ starter[k] # "stamping"
  BY <1>1, OneWriter
<1>3. /\ pen'[k][w].obs = pen[k][w].obs
      /\ \A v \in Writer \ {w} : pen'[k][v] = pen[k][v]
      /\ UNCHANGED <<desc[k], launch[k], starter[k], sup[k], child[k]>>
  BY DEF PutsResult, PutsEvidence, PutsEvent, PutsSignal, Advances
<1>4. Turns(k)'
  BY <1>1, <1>2, <1>3 DEF Turns, Busy, Terminal, Active, Alive, Writer
<1>5. Told(k)'
  BY <1>2, <1>3 DEF Told, Terminal
<1>6. \A v \in Writer \ {w} : PenFollows(k, v)'
  BY <1>2, <1>3 DEF PenFollows, Busy
<1>7. PenFollows(k, w) /\ FilesAgree(k)
  OBVIOUS
<1>8. FilesAgree(k)' /\ PenFollows(k, w)'
  <2>1. CASE PutsResult(k, w)
    BY <2>1, <1>3, <1>7 DEF PutsResult, Advances, FilesAgree, PenFollows
  <2>2. CASE PutsEvidence(k, w)
    BY <2>2, <1>3, <1>7 DEF PutsEvidence, Advances, FilesAgree, PenFollows
  <2>3. CASE PutsEvent(k, w)
    BY <2>3, <1>3, <1>7 DEF PutsEvent, Advances, FilesAgree, PenFollows, EventOf, Retains
  <2>4. CASE PutsSignal(k, w)
    BY <2>4, <1>3, <1>7 DEF PutsSignal, Advances, FilesAgree, PenFollows, Stations, Succession
  <2> QED BY <2>1, <2>2, <2>3, <2>4
<1> QED BY <1>4, <1>5, <1>6, <1>8
LEMMA AnnouncedStops ==
  ASSUME Shape, Shape', NEW k \in Op, Verdicts(k), Stations(k), Announced(k), NEW w \in Writer,
         Quits(k, w) \/ Closes(k, w)
  PROVE  Announced(k)'
<1> USE DEF Announced
<1>n. \A s \in {"absent", "starting", "running"} : s \notin TerminalStatus(k)
  BY NoStatusTwice
<1>1. /\ Stopped(k, w) /\ FilesKept(k) /\ desc'[k].policy = desc[k].policy
      /\ pen'[k][w].at = "idle" /\ \A v \in Writer \ {w} : pen'[k][v] = pen[k][v]
  BY DEF Quits, Closes, Stopped, BoundKept
<1>2. FilesAgree(k)'
  BY <1>1 DEF FilesAgree, FilesKept
<1>3. \A v \in Writer : PenFollows(k, v)'
  BY <1>1 DEF PenFollows, FilesKept
<1>4. CASE Quits(k, w)
  <2>1. desc'[k] = desc[k] /\ (w = "sup" => Alive(k))
    BY <1>4 DEF Quits
  <2>2. Told(k)'
    BY <1>1, <2>1 DEF Told, FilesKept, Terminal
  <2>3. w = "sup" => sup'[k].at = "gone" /\ starter'[k] = starter[k]
    BY <1>1 DEF Stopped
  <2>4. w # "sup" => sup'[k].at = sup[k].at /\ starter'[k] \in {starter[k], "idle"}
    BY <1>1 DEF Stopped
  <2>5. Turns(k)'
    BY <1>1, <2>1, <2>3, <2>4 DEF Turns, Busy, Terminal, Active, Alive, Untouched, FilesKept, Writer
  <2> QED BY <1>2, <1>3, <2>2, <2>5
<1>5. CASE Closes(k, w)
  <2>1. /\ pen[k][w].at = "descriptor" /\ desc'[k].status = pen[k][w].obs.status
        /\ Busy(k, w)
    BY <1>5 DEF Closes, Busy
  <2>2. /\ \A v \in Writer \ {w} : ~Busy(k, v)
        /\ starter[k] # "stamping"
    BY <2>1, OneWriter
  <2>3. desc'[k].status \in TerminalStatus(k)
    BY <2>1 DEF Verdicts, Final
  <2>4. /\ evidence[k] # None /\ evidence[k].obs = pen[k][w].obs /\ event[k] # None
        /\ signal[k] <=> WakesFor(k, desc[k].policy, pen[k][w].obs)
    BY <2>1 DEF PenFollows, Stations, Succession
  <2>5. Told(k)'
    BY <1>1, <2>1, <2>4 DEF Told, FilesKept
  <2>6. \A v \in Writer : pen'[k][v].at = "idle"
    BY <1>1, <2>2 DEF Busy
  <2>7. sup'[k].at \in {"none", "gone"} /\ starter'[k] # "stamping"
    <3>1. CASE w = "sup"
      BY <1>1, <2>2, <3>1 DEF Stopped
    <3>2. CASE w # "sup"
      <4>1. sup[k].at \in {"none", "gone"}
        BY <2>1, <3>2 DEF Stations, Hands, Birth, Succession, Writer
      <4> QED BY <1>1, <2>2, <3>2, <4>1 DEF Stopped
    <3> QED BY <3>1, <3>2
  <2>8. Turns(k)'
    BY <1>n, <2>3, <2>6, <2>7 DEF Turns, Busy, Alive, Writer
  <2> QED BY <1>2, <1>3, <2>5, <2>8
<1> QED BY <1>4, <1>5

\* A step that writes and closes nothing, of an operation nobody touched or that goes on.
LEMMA AnnouncedQuiet ==
  ASSUME Shape, Shape', NEW k \in Op, Verdicts(k), Stations(k), Announced(k),
         \/ Admits(k) \/ Launches(k) \/ Registers(k) \/ Reads(k) \/ Stamps(k) \/ Works(k)
         \/ Expires(k) \/ Same(k) \/ (Claims(k) /\ Quiet(k))
  PROVE  Announced(k)'
<1> USE DEF Announced
<1>n. \A s \in {"absent", "starting", "running"} : s \notin TerminalStatus(k)
  BY NoStatusTwice
<1>1. Quiet(k)
  BY DEF Admits, Launches, Registers, Reads, Stamps, Works, Expires, Same, Quiet, FilesKept
<1>2. \/ desc'[k].policy = desc[k].policy
      \/ desc[k].status = "absent" /\ desc'[k].status = "starting"
  BY DEF Admits, Launches, Registers, Reads, Stamps, Works, Expires, Same, Claims, IdentityKept,
         BoundKept
<1>3. desc[k].status = "absent" => Untouched(k) /\ \A w \in Writer : pen[k][w].at = "idle"
  BY DEF Stations, Unborn, Busy
<1>4. FilesAgree(k)' /\ \A w \in Writer : PenFollows(k, w)'
  <2>1. CASE desc[k].status = "absent"
    BY <1>1, <1>3, <2>1 DEF FilesAgree, PenFollows, Quiet, FilesKept, Untouched
  <2>2. CASE desc'[k].policy = desc[k].policy
    <3>1. FilesAgree(k)'
      BY <1>1, <2>2 DEF FilesAgree, Quiet, FilesKept
    <3>2. \A w \in Writer : PenFollows(k, w)'
      BY <1>1, <2>2 DEF PenFollows, Quiet, FilesKept
    <3> QED BY <3>1, <3>2
  <2> QED BY <1>2, <2>1, <2>2
<1>5. \/ desc'[k].status = desc[k].status
      \/ desc'[k].status \in {"starting", "running"}
  BY DEF Admits, Launches, Registers, Reads, Stamps, Works, Expires, Same, Claims, IdentityKept
<1>6. Told(k)'
  <2>1. CASE desc[k].status = "absent" \/ desc'[k].status # desc[k].status
    <3>1. desc'[k].status \in {"absent", "starting", "running"}
      BY <1>5, <2>1
    <3> QED BY <3>1, <1>n DEF Told, Terminal
  <2>2. CASE desc'[k].status = desc[k].status /\ desc'[k].policy = desc[k].policy
    BY <1>1, <2>2 DEF Told, Terminal, Quiet, FilesKept
  <2> QED BY <1>2, <2>1, <2>2
<1>7. Turns(k)'
  <2> USE DEF Turns, Busy, Alive, Untouched
  <2>s. "sup" \in Writer /\ "reaper" \in Writer
    BY DEF Writer
  <2>1. CASE Admits(k)
    <3>1. /\ desc[k].status = "absent" /\ desc'[k].status = "starting"
          /\ UNCHANGED <<pen[k], result[k], evidence[k], event[k], signal[k]>>
          /\ starter'[k] = "spawning" \/ starter'[k] = starter[k]
      BY <2>1 DEF Admits, Quiet, FilesKept
    <3>2. starter[k] = "idle"
      BY <3>1 DEF Stations, Unborn
    <3> QED BY <1>3, <1>n, <2>s, <3>1, <3>2 DEF Terminal
  <2>2. CASE Launches(k)
    BY <1>n, <2>2 DEF Launches, Terminal, Active, Quiet, FilesKept, Stations, Birth
  <2>3. CASE Registers(k)
    BY <2>3 DEF Registers, Terminal, Active, Quiet, FilesKept
  <2>4. CASE Reads(k)
    <3>1. ~Busy(k, "sup")
      <4>1. desc[k].status = "starting"
        BY <2>4 DEF Reads
      <4> QED BY <4>1
    <3> QED BY <2>4, <3>1 DEF Reads, Terminal, Active, Quiet, FilesKept
  <2>5. CASE Stamps(k)
    BY <2>5 DEF Stamps, Terminal, Active, Quiet, FilesKept
  <2>6. CASE Works(k)
    <3>1. /\ desc'[k].status = desc[k].status /\ sup[k].at \in Working /\ starter'[k] = starter[k]
          /\ UNCHANGED <<pen[k], result[k], evidence[k], event[k], signal[k]>>
      BY <2>6 DEF Works, IdentityKept, Quiet, FilesKept
    <3>2. desc[k].status = "running" /\ sup[k].at \notin {"none", "gone"} /\ ~Busy(k, "sup")
      BY <3>1 DEF Stations, Hands, Succession, Working
    <3> QED BY <1>n, <3>1, <3>2 DEF Terminal, Active
  <2>7. CASE Expires(k)
    BY <2>7 DEF Expires, Terminal, Active, Quiet, FilesKept
  <2>8. CASE Same(k)
    BY <2>8 DEF Same, Terminal, Active
  <2>9. CASE Claims(k) /\ Quiet(k)
    <3>1. /\ desc[k].status = "starting" /\ desc'[k].status = "running" /\ starter[k] # "stamping"
          /\ sup[k].at = "spawned" /\ starter'[k] = starter[k]
          /\ UNCHANGED <<pen[k], result[k], evidence[k], event[k], signal[k]>>
      BY <2>9 DEF Claims, Quiet, FilesKept, LockFree
    <3>2. ~Busy(k, "sup") /\ ~Busy(k, "reaper")
      BY <3>1 DEF Stations, Hands, Succession
    <3> QED BY <1>n, <3>1, <3>2 DEF Terminal
  <2> QED BY <2>1, <2>2, <2>3, <2>4, <2>5, <2>6, <2>7, <2>8, <2>9
<1> QED BY <1>4, <1>6, <1>7
\* A publication begins where nobody has written, or from what is there.
LEMMA AnnouncedTakes ==
  ASSUME Shape, Shape', NEW k \in Op, Verdicts(k), Stations(k), Announced(k), NEW w \in Writer,
         NEW at \in {"result", "event"}, NEW obs, Takes(k, w, at, obs), FilesKept(k),
         desc'[k].policy = desc[k].policy, starter'[k] # "stamping",
         \A v \in Writer : ~Busy(k, v), ~Terminal(k),
         desc'[k].status \in {"starting", "running"},
         w = "sup" => desc'[k].status = "running" /\ sup'[k].at \notin {"none", "gone"},
         w # "sup" => sup'[k].at \in {"none", "gone"},
         starter'[k] \in {"recording", "spawning"} => starter[k] = starter'[k],
         desc'[k].status = desc[k].status \/ desc'[k].status = "running",
         at = "result" => evidence[k] = None,
         at = "event" => evidence[k] # None /\ evidence[k].obs = obs
  PROVE  Announced(k)'
<1> USE DEF Announced
<1>n. \A s \in {"absent", "starting", "running"} : s \notin TerminalStatus(k)
  BY NoStatusTwice
<1>1. /\ pen'[k][w].at = at /\ pen'[k][w].obs = obs
      /\ \A v \in Writer \ {w} : pen'[k][v].at = "idle"
  BY DEF Takes, Busy
<1>2. FilesAgree(k)'
  BY DEF FilesAgree, FilesKept
<1>3. \A v \in Writer : PenFollows(k, v)'
  BY <1>1 DEF PenFollows, FilesKept
<1>4. Told(k)'
  BY <1>n DEF Told, Terminal
<1>5. Turns(k)'
  BY <1>1, <1>n DEF Turns, Busy, Terminal, Active, Alive, Untouched, FilesKept, Writer
<1> QED BY <1>2, <1>3, <1>4, <1>5

LEMMA AnnouncedBegins ==
  ASSUME Shape, Shape', NEW k \in Op, Verdicts(k), Stations(k), Announced(k),
         \/ Forsakes(k) \/ TakesOver(k) \/ Concludes(k) \/ (Claims(k) /\ Outcome(k))
  PROVE  Announced(k)'
<1> USE DEF Announced
<1>n. \A s \in {"absent", "starting", "running"} : s \notin TerminalStatus(k)
  BY NoStatusTwice
<1>w. "sup" \in Writer /\ "starter" \in Writer /\ "reaper" \in Writer
  BY DEF Writer
<1>1. CASE Forsakes(k)
  <2>1. /\ starter'[k] = "failing" /\ Takes(k, "starter", "result", Lost(k)) /\ FilesKept(k)
        /\ desc'[k] = desc[k] /\ sup'[k] = sup[k]
        /\ starter[k] \in {"spawning", "recording"} /\ ~Alive(k)
    BY <1>1 DEF Forsakes, Alive
  <2>2. desc[k].status = "starting"
    BY <1>1 DEF Forsakes, Stations, Birth
  <2>3. sup[k].at \in {"none", "gone"} /\ ~Busy(k, "sup") /\ ~Busy(k, "starter")
    BY <2>1 DEF Alive, Stations, Hands
  <2>4. ~Busy(k, "reaper")
    BY <2>1, <2>2 DEF Stations, Birth, Succession
  <2>5. evidence[k] = None
    BY <2>1, <2>2 DEF Turns, Untouched
  <2>6. \A v \in Writer : ~Busy(k, v)
    BY <2>3, <2>4 DEF Writer
  <2>7. ~Terminal(k)
    BY <1>n, <2>2 DEF Terminal
  <2> QED BY <1>w, <2>1, <2>2, <2>3, <2>5, <2>6, <2>7, AnnouncedTakes
<1>2. CASE TakesOver(k)
  <2>1. /\ Active(k) /\ (desc[k].identity \/ launch[k]) /\ sup[k].at \in {"none", "gone"}
        /\ pen[k]["reaper"].at = "idle" /\ starter[k] # "stamping"
    BY <1>2 DEF TakesOver, LockFree, SupervisorState, Alive
  <2>2. /\ FilesKept(k) /\ UNCHANGED <<launch[k], starter[k], sup[k]>>
        /\ desc'[k].status = desc[k].status /\ desc'[k].policy = desc[k].policy
    BY <1>2 DEF TakesOver, IdentityKept, BoundKept
  <2>3. ~Busy(k, "sup") /\ ~Busy(k, "starter")
    BY <2>1 DEF Stations, Hands, Birth
  <2>4. \A v \in Writer : ~Busy(k, v)
    BY <2>1, <2>3 DEF Writer, Busy
  <2>5. ~Terminal(k) /\ desc[k].status \in {"starting", "running"}
    BY <2>1 DEF Active, Terminal, Verdicts
  <2>6. CASE Recovers(k)
    <3>1. Takes(k, "reaper", "event", Recorded(k))
      BY <1>2, <2>6 DEF TakesOver
    <3>2. evidence[k] # None /\ evidence[k].obs = Recorded(k)
      BY <2>6 DEF Recovers, Recorded, FilesAgree
    <3> QED BY <1>w, <2>1, <2>2, <2>4, <2>5, <3>1, <3>2, AnnouncedTakes
  <2>7. CASE ~Recovers(k)
    <3>1. Takes(k, "reaper", "result", Lost(k))
      BY <1>2, <2>7 DEF TakesOver
    <3>2. evidence[k] = None
      BY <2>7 DEF Recovers, FilesAgree
    <3> QED BY <1>w, <2>1, <2>2, <2>4, <2>5, <3>1, <3>2, AnnouncedTakes
  <2> QED BY <2>6, <2>7
\* The supervisor alone is at work, and the operation untouched.
<1>3. ASSUME Outcome(k), sup[k].at \in Working \cup {"spawned"}, desc'[k].policy = desc[k].policy,
             desc[k].status \in {"starting", "running"}, desc'[k].status = "running",
             starter[k] # "stamping" \/ sup[k].at \in Working, pen[k]["reaper"].at = "idle" \/ sup[k].at \in Working
      PROVE  Announced(k)'
  <2>1. /\ Takes(k, "sup", "result", pen'[k]["sup"].obs) /\ FilesKept(k)
        /\ sup'[k].at \in {"settling", "publishing"} /\ starter'[k] = starter[k]
    BY <1>3 DEF Outcome
  <2>2. /\ sup[k].at \notin {"none", "gone", "publishing", "settling"}
    BY <1>3 DEF Working
  <2>3. /\ ~Busy(k, "sup") /\ ~Busy(k, "reaper") /\ ~Busy(k, "starter") /\ starter[k] # "stamping"
    BY <1>3, <2>2 DEF Stations, Hands, Birth, Succession
  <2>4. \A v \in Writer : ~Busy(k, v)
    BY <2>3 DEF Writer
  <2>5. ~Terminal(k)
    BY <1>n, <1>3 DEF Terminal
  <2>6. evidence[k] = None
    BY <2>2, <2>3 DEF Turns, Alive, Untouched
  <2>7. desc'[k].policy = desc[k].policy /\ desc'[k].status = "running"
    BY <1>3
  <2> QED BY <1>w, <2>1, <2>3, <2>4, <2>5, <2>6, <2>7, AnnouncedTakes
<1>4. CASE Concludes(k)
  <2>1. /\ Outcome(k) /\ sup[k].at \in Working /\ desc'[k].policy = desc[k].policy
        /\ desc'[k].status = desc[k].status
    BY <1>4 DEF Concludes, IdentityKept, BoundKept
  <2>2. desc[k].status = "running"
    BY <2>1 DEF Stations, Succession
  <2> QED BY <1>3, <2>1, <2>2
<1>5. CASE Claims(k) /\ Outcome(k)
  BY <1>3, <1>5 DEF Claims, LockFree, BoundKept
<1> QED BY <1>1, <1>2, <1>4, <1>5

LEMMA AnnouncedStep ==
  ASSUME Shape, Shape', NEW k \in Op, Verdicts(k), Stations(k), Clean(k) => Announced(k),
         RowStep(k)
  PROVE  (Clean(k) => Announced(k))'
<1>1. CASE ~Clean(k)
  <2>1. ~sup'[k].clean
    BY <1>1 DEF RowStep, Clean, PutsResult, PutsEvidence, PutsEvent, PutsSignal, Advances,
       Quits, Closes, Stopped, Admits, Launches, Forsakes, Registers, Reads, Stamps, Claims,
       Breaks, Works, Concludes, Reconcludes, TakesOver, Expires, Same
  <2> QED BY <2>1 DEF Clean
<1>2. CASE Announced(k)
  <2>1. CASE Breaks(k) \/ Reconcludes(k)
    <3>1. ~sup'[k].clean
      BY <2>1 DEF Breaks, Reconcludes
    <3> QED BY <3>1 DEF Clean
  <2>2. CASE Claims(k)
    <3>1. Quiet(k) \/ Outcome(k)
      BY <2>2 DEF Claims
    <3>2. Announced(k)'
      BY <1>2, <2>2, <3>1, AnnouncedQuiet, AnnouncedBegins
    <3> QED BY <3>2
  <2>3. CASE \/ Admits(k) \/ Launches(k) \/ Registers(k) \/ Reads(k) \/ Stamps(k) \/ Works(k)
             \/ Expires(k) \/ Same(k)
    <3>1. Announced(k)'
      BY <1>2, <2>3, AnnouncedQuiet
    <3> QED BY <3>1
  <2>4. CASE Forsakes(k) \/ TakesOver(k) \/ Concludes(k)
    <3>1. Announced(k)'
      BY <1>2, <2>4, AnnouncedBegins
    <3> QED BY <3>1
  <2>5. ASSUME NEW w \in Writer,
               \/ PutsResult(k, w) \/ PutsEvidence(k, w) \/ PutsEvent(k, w) \/ PutsSignal(k, w)
               \/ Quits(k, w) \/ Closes(k, w)
        PROVE  Announced(k)'
    BY <1>2, <2>5, AnnouncedPuts, AnnouncedStops
  <2> QED BY <2>1, <2>2, <2>3, <2>4, <2>5 DEF RowStep
<1> QED BY <1>1, <1>2
-----------------------------------------------------------------------------
(***************************************************************************)
(* The command of a detached check runs while its supervisor knows of it,  *)
(* or has died and left it recorded as launching or active.                *)
(***************************************************************************)
Fosters(k) ==
  /\ child[k] => /\ desc[k].status = "running" /\ \A w \in Writer : ~Busy(k, w)
                 /\ sup[k].at \in {"record", "wait", "gone"}
                 /\ desc[k].child \in {"launching", "active"}
  /\ sup[k].at \in {"spawn", "record"} => desc[k].child = "launching"
  /\ sup[k].at = "wait" => desc[k].child = "active"
ChildFollows(k) == k \in Check /\ Detached(k) => Fosters(k)

LEMMA ChildStep ==
  ASSUME Shape, Shape', NEW k \in Op, Verdicts(k), Stations(k), ChildFollows(k), RowStep(k)
  PROVE  ChildFollows(k)'
<1> SUFFICES ASSUME k \in Check, desc'[k].execution = "detached"
             PROVE  Fosters(k)'
  BY DEF ChildFollows, Detached
<1> USE DEF Fosters, Busy
<1>k. k \notin Actions /\ k \notin Pull
  BY Kinds
\* Only an admission makes a check a detached one.
<1>1. CASE Admits(k)
  <2>1. /\ pen'[k] = pen[k] /\ child'[k] = child[k] /\ sup'[k].at \in {sup[k].at, "spawned"}
        /\ desc[k].status = "absent"
    BY <1>1 DEF Admits, Quiet
  <2>2. sup[k].at = "none" /\ ~child[k]
    BY <2>1 DEF Stations, Unborn
  <2> QED BY <2>1, <2>2
<1>2. ASSUME desc'[k].execution = desc[k].execution
      PROVE  Fosters(k)
  BY <1>2 DEF ChildFollows, Detached
<1>3. ASSUME NEW w \in Writer,
             PutsResult(k, w) \/ PutsEvidence(k, w) \/ PutsEvent(k, w) \/ PutsSignal(k, w)
      PROVE  Fosters(k)'
  <2>1. /\ pen[k][w].at # "idle" /\ UNCHANGED <<desc[k], sup[k], child[k]>>
    BY <1>3 DEF PutsResult, PutsEvidence, PutsEvent, PutsSignal, Advances
  <2> QED BY <1>2, <2>1
<1>4. ASSUME NEW w \in Writer, Quits(k, w)
      PROVE  Fosters(k)'
  BY <1>2, <1>4 DEF Quits, Stopped
<1>5. ASSUME NEW w \in Writer, Closes(k, w)
      PROVE  Fosters(k)'
  <2>1. /\ pen[k][w].at # "idle" /\ desc'[k].execution = desc[k].execution
        /\ child'[k] = child[k]
        /\ sup'[k].at = IF w = "sup" THEN "gone" ELSE sup[k].at
    BY <1>5 DEF Closes, Stopped, BoundKept
  <2>2. w # "sup" => sup[k].at \in {"none", "gone"}
    BY <2>1 DEF Stations, Hands, Birth, Succession, Writer
  <2> QED BY <1>2, <2>1, <2>2
<1>6. CASE Launches(k) \/ Forsakes(k) \/ Registers(k) \/ Reads(k) \/ Stamps(k)
  <2>1. /\ desc'[k].execution = desc[k].execution /\ desc'[k].child = desc[k].child
        /\ child'[k] = child[k]
        /\ sup'[k].at \in {sup[k].at, "spawned"}
    BY <1>6, <1>k DEF Launches, Forsakes, Registers, Reads, Stamps, BoundKept
  <2>2. desc[k].status # "running"
    BY <1>6, <1>k DEF Launches, Forsakes, Registers, Reads, Stamps, Stations, Birth
  <2> QED BY <1>2, <2>1, <2>2
<1>7. CASE Claims(k)
  <2>1. /\ sup[k].at = "spawned" /\ desc'[k].execution = desc[k].execution
        /\ child'[k] = child[k]
        /\ sup'[k].at \notin {"spawn", "record", "wait"}
    BY <1>7 DEF Claims, BoundKept, Outcome
  <2> QED BY <1>2, <2>1
<1>8. CASE Breaks(k)
  BY <1>2, <1>8 DEF Breaks
<1>9. CASE Works(k) \/ Concludes(k)
  <2>1. /\ Commands(k) /\ sup[k].at \in Working
        /\ desc'[k].execution = desc[k].execution /\ desc'[k].status = desc[k].status
    BY <1>9 DEF Works, Concludes, IdentityKept, BoundKept
  <2>2. desc[k].status = "running" /\ \A w \in Writer : pen[k][w].at = "idle"
    BY <2>1 DEF Stations, Hands, Birth, Succession, Working, Writer
  <2>3. Detached(k) /\ Fosters(k)
    BY <1>2, <2>1 DEF Detached
  <2>4. ~child[k] \/ sup[k].at \in {"record", "wait"}
    BY <2>1, <2>3 DEF Working
  <2>5. /\ child'[k] => sup'[k].at \in {"record", "wait"} /\ desc'[k].child \in {"launching", "active"}
        /\ sup'[k].at \in {"spawn", "record"} => desc'[k].child = "launching"
        /\ sup'[k].at = "wait" => desc'[k].child = "active"
    <3> HIDE DEF Fosters, Busy
    <3>1. /\ sup[k].at \in {"spawn", "record"} => desc[k].child = "launching"
          /\ sup[k].at = "wait" => desc[k].child = "active"
      BY <2>3 DEF Fosters
    <3> QED BY <2>1, <2>3, <2>4, <3>1 DEF Commands
  <2>6. CASE Works(k)
    <3>1. pen'[k] = pen[k]
      BY <2>6 DEF Works, Quiet
    <3> QED BY <2>1, <2>2, <2>5, <3>1
  <2>7. CASE Concludes(k)
    <3>1. sup'[k].at \in {"publishing", "settling"}
      BY <2>7 DEF Concludes, Outcome
    <3> QED BY <2>5, <3>1
  <2> QED BY <1>9, <2>6, <2>7
<1>10. CASE Reconcludes(k)
  BY <1>k, <1>10 DEF Reconcludes
<1>11. CASE TakesOver(k)
  <2>1. /\ ~child[k] \/ ~child'[k]
        /\ desc[k].child # "active" => child'[k] = child[k]
        /\ desc[k].child # "launching" /\ sup'[k] = sup[k] /\ ~Alive(k)
        /\ desc'[k].execution = desc[k].execution
    BY <1>11, <1>2 DEF TakesOver, IdentityKept, BoundKept, SupervisorState
  <2>2. ~child'[k]
    BY <1>2, <1>11, <2>1 DEF TakesOver
  <2> QED BY <2>1, <2>2 DEF Alive
<1>12. CASE Expires(k)
  BY <1>2, <1>12 DEF Expires, Quiet
<1>13. CASE Same(k)
  BY <1>2, <1>13 DEF Same
<1> QED BY <1>1, <1>3, <1>4, <1>5, <1>6, <1>7, <1>8, <1>9, <1>10, <1>11, <1>12, <1>13 DEF RowStep

-----------------------------------------------------------------------------
(***************************************************************************)
(* The outcome of a pull request is that of the sample it was taken from.  *)
(***************************************************************************)
Sampled(k) ==
  k \in Pull /\ sup[k].at = "publishing" =>
    \/ sup[k].note = None
    \/ sup[k].note \in Samples[k] /\ pen[k]["sup"].obs = Seen(Judged(k, sup[k].note))

LEMMA SampledStep ==
  ASSUME Shape, Shape', NEW k \in Op, Stations(k), Sampled(k), RowStep(k)
  PROVE  Sampled(k)'
<1> SUFFICES ASSUME k \in Pull PROVE Sampled(k)'
  BY DEF Sampled
<1>k. k \notin Actions /\ k \notin Check /\ "sup" \in Writer
  BY Kinds DEF Writer
<1>1. CASE sup'[k].at # "publishing"
  BY <1>1 DEF Sampled
<1>2. ASSUME sup'[k].at = sup[k].at, sup'[k].note = sup[k].note,
             pen'[k]["sup"].obs = pen[k]["sup"].obs
      PROVE  Sampled(k)'
  BY <1>2 DEF Sampled
<1>3. CASE Outcome(k)
  <2>1. \/ sup'[k].note = None
        \/ sup'[k].note \in Samples[k] /\ pen'[k]["sup"].obs = Seen(Judged(k, sup'[k].note))
    BY <1>3 DEF Outcome
  <2> QED BY <2>1 DEF Sampled
<1>4. ASSUME NEW w \in Writer,
             PutsResult(k, w) \/ PutsEvidence(k, w) \/ PutsEvent(k, w) \/ PutsSignal(k, w)
      PROVE  Sampled(k)'
  <2>1. Busy(k, w) /\ sup'[k] = sup[k] /\ pen'[k][w].obs = pen[k][w].obs
        /\ \A v \in Writer \ {w} : pen'[k][v] = pen[k][v]
    BY <1>4 DEF PutsResult, PutsEvidence, PutsEvent, PutsSignal, Advances, Busy
  <2> QED BY <1>2, <1>k, <2>1
<1>5. ASSUME NEW w \in Writer, Quits(k, w) \/ Closes(k, w)
      PROVE  Sampled(k)'
  <2>1. Stopped(k, w)
    BY <1>5 DEF Quits, Closes
  <2>2. CASE w = "sup"
    BY <1>1, <2>1, <2>2 DEF Stopped
  <2>3. CASE w # "sup"
    BY <1>2, <1>k, <2>1, <2>3 DEF Stopped
  <2> QED BY <2>2, <2>3
<1>6. CASE \/ Admits(k) \/ Launches(k) \/ Registers(k) \/ Reads(k) \/ Stamps(k) \/ Expires(k) \/ Same(k)
  <2>1. /\ pen'[k] = pen[k]
        /\ sup'[k].at = "spawned" \/ sup'[k] = sup[k]
    BY <1>6 DEF Admits, Launches, Registers, Reads, Stamps, Expires, Same, Quiet
  <2> QED BY <1>1, <1>2, <2>1
<1>7. CASE Forsakes(k) \/ TakesOver(k)
  <2>1. sup'[k] = sup[k] /\ pen'[k]["sup"] = pen[k]["sup"]
    BY <1>7, <1>k DEF Forsakes, TakesOver, Takes
  <2> QED BY <1>2, <2>1
<1>8. CASE Claims(k) \/ Works(k)
  <2>1. Outcome(k) \/ sup'[k].at # "publishing"
    BY <1>8 DEF Claims, Works, Working
  <2> QED BY <1>1, <1>3, <2>1
<1>9. CASE Breaks(k) \/ Concludes(k) \/ Reconcludes(k)
  BY <1>3, <1>9 DEF Breaks, Concludes, Reconcludes
<1> QED BY <1>4, <1>5, <1>6, <1>7, <1>8, <1>9 DEF RowStep
-----------------------------------------------------------------------------
(***************************************************************************)
(* One active monitor for a run, a discovery and a pull request.           *)
(***************************************************************************)
Apart(a, b) ==
  Active(a) /\ Active(b) =>
    /\ desc[a].run # None => desc[a].run # desc[b].run
    /\ Requested[a] = None /\ Requested[b] = None => DiscoveryKey[a] # DiscoveryKey[b]
Owners ==
  /\ \A a \in Actions : \A b \in Actions \ {a} : Apart(a, b)
  /\ \A a \in Pull : \A b \in Pull \ {a} : Active(a) /\ Active(b) => PullKey[a] # PullKey[b]

\* A monitor becomes active by an admission only, and takes no run of another.
LEMMA ActiveStep ==
  ASSUME NEW k \in Op, k \notin Check, Verdicts(k), RowStep(k), Active(k)'
  PROVE  \/ /\ Active(k)
            /\ \/ desc'[k].run = desc[k].run
               \/ k \in Actions /\ \A o \in Actions \ {k} : ~Owns(o, desc'[k].run)
         \/ Unclaimed(k)
<1>n. \A s \in {"absent", "starting", "running"} : s \notin TerminalStatus(k)
  BY NoStatusTwice
<1>1. ASSUME desc'[k].status = desc[k].status, BoundKept(k)
      PROVE  /\ Active(k)
             /\ \/ desc'[k].run = desc[k].run
                \/ k \in Actions /\ \A o \in Actions \ {k} : ~Owns(o, desc'[k].run)
  BY <1>1 DEF Active, Terminal, BoundKept
<1>2. ASSUME desc'[k] = desc[k] PROVE Active(k) /\ desc'[k].run = desc[k].run
  BY <1>2 DEF Active, Terminal
<1>3. ASSUME NEW w \in Writer,
             \/ PutsResult(k, w) \/ PutsEvidence(k, w) \/ PutsEvent(k, w) \/ PutsSignal(k, w)
             \/ Quits(k, w)
      PROVE  desc'[k] = desc[k]
  BY <1>3 DEF PutsResult, PutsEvidence, PutsEvent, PutsSignal, Advances, Quits
<1>4. ASSUME NEW w \in Writer, Closes(k, w)
      PROVE  FALSE
  <2>1. desc'[k].status \in TerminalStatus(k)
    BY <1>4 DEF Closes, Verdicts, Busy, Final
  <2> QED BY <2>1 DEF Active, Terminal
<1>5. CASE \/ Launches(k) \/ Forsakes(k) \/ Registers(k) \/ Reads(k) \/ Breaks(k) \/ Expires(k)
           \/ Same(k)
  <2>1. desc'[k] = desc[k]
    BY <1>5 DEF Launches, Forsakes, Registers, Reads, Breaks, Expires, Same
  <2> QED BY <1>2, <2>1
<1>6. CASE Works(k) \/ Concludes(k) \/ Reconcludes(k) \/ TakesOver(k)
  <2>1. desc'[k].status = desc[k].status /\ BoundKept(k)
    BY <1>6 DEF Works, Concludes, Reconcludes, TakesOver, IdentityKept
  <2> QED BY <1>1, <2>1
<1>7. CASE Claims(k)
  <2>1. desc[k].status = "starting" /\ BoundKept(k)
    BY <1>7 DEF Claims
  <2> QED BY <1>n, <2>1 DEF Active, Terminal, BoundKept
<1>8. CASE Admits(k)
  BY <1>8 DEF Admits
<1>9. CASE Stamps(k)
  BY <1>9 DEF Stamps
<1> QED BY <1>2, <1>3, <1>4, <1>5, <1>6, <1>7, <1>8, <1>9 DEF RowStep

LEMMA OwnersStep ==
  ASSUME NEW k \in Op, Verdicts(k), Owners, Kept(k)
  PROVE  Owners'
<1>o. \A o \in Op \ {k} : desc'[o] = desc[o]
  BY DEF Kept, Others, Same
<1>a. \A o \in Op \ {k} : Active(o)' <=> Active(o)
  BY <1>o DEF Active, Terminal
<1>1. ASSUME NEW a \in Actions, NEW b \in Actions \ {a}, Active(a)', Active(b)'
      PROVE  /\ desc'[a].run # None => desc'[a].run # desc'[b].run
             /\ Requested[a] = None /\ Requested[b] = None => DiscoveryKey[a] # DiscoveryKey[b]
  <2>o. a \in Op /\ b \in Op /\ a \notin Check /\ b \notin Check /\ a \notin Pull /\ b \notin Pull
    BY Kinds
  <2>1. Apart(a, b)
    BY DEF Owners
  <2>2. CASE k \notin {a, b}
    BY <1>1, <1>o, <1>a, <2>o, <2>1, <2>2 DEF Apart
  \* The other one is left alone.
  <2>3. ASSUME NEW c \in Actions \ {k}, k \in Actions, Active(k)', Active(c)'
        PROVE  /\ desc'[k].run # None => desc'[k].run # desc'[c].run
               /\ Requested[k] = None /\ Requested[c] = None => DiscoveryKey[k] # DiscoveryKey[c]
    <3>1. Active(c) /\ desc'[c] = desc[c] /\ k \notin Check
      BY <1>o, <1>a, <2>3, Kinds
    <3>2. Apart(k, c)
      BY <2>3 DEF Owners
    <3>3. CASE Active(k) /\ desc'[k].run = desc[k].run
      BY <3>1, <3>2, <3>3 DEF Apart
    <3>4. CASE Active(k) /\ \A o \in Actions \ {k} : ~Owns(o, desc'[k].run)
      <4>1. desc[c].run # desc'[k].run
        BY <3>1, <3>4 DEF Owns
      <4> QED BY <3>1, <3>2, <3>4, <4>1 DEF Apart
    <3>5. CASE Unclaimed(k)
      <4>1. /\ desc'[k].run = Requested[k]
            /\ IF Requested[k] # None THEN ~Owns(c, Requested[k])
               ELSE ~(Active(c) /\ Requested[c] = None /\ DiscoveryKey[c] = DiscoveryKey[k])
        BY <2>3, <3>5 DEF Unclaimed
      <4> QED BY <3>1, <4>1 DEF Owns
    <3> QED BY <2>3, <3>1, <3>3, <3>4, <3>5, ActiveStep DEF Kept
  <2>4. CASE k = a
    BY <1>1, <2>3, <2>4
  <2>5. CASE k = b
    <3>1. /\ desc'[b].run # None => desc'[b].run # desc'[a].run
          /\ Requested[b] = None /\ Requested[a] = None => DiscoveryKey[b] # DiscoveryKey[a]
      BY <1>1, <2>3, <2>5
    <3> QED BY <3>1
  <2> QED BY <2>2, <2>4, <2>5
<1>2. ASSUME NEW a \in Pull, NEW b \in Pull \ {a}, Active(a)', Active(b)'
      PROVE  PullKey[a] # PullKey[b]
  <2>1. ASSUME NEW c \in Pull \ {k}, k \in Pull, Active(k)', Active(c)'
        PROVE  PullKey[k] # PullKey[c]
    <3>1. Active(c) /\ k \notin Check /\ k \notin Actions
      BY <1>a, <2>1, Kinds
    <3>2. Active(k) \/ Unclaimed(k)
      BY <2>1, <3>1, ActiveStep DEF Kept
    <3> QED BY <2>1, <3>1, <3>2 DEF Owners, Unclaimed
  <2>2. CASE k \notin {a, b}
    BY <1>2, <1>a, <2>2, Kinds DEF Owners
  <2> QED BY <1>2, <2>1, <2>2
<1> QED BY <1>1, <1>2 DEF Owners, Apart

-----------------------------------------------------------------------------
(***************************************************************************)
(* The invariant of the operations.                                        *)
(***************************************************************************)
RowInv(k) ==
  /\ Verdicts(k) /\ Stations(k) /\ (Clean(k) => Announced(k))
  /\ ChildFollows(k) /\ Sampled(k)
Rows == Shape /\ (\A k \in Op : RowInv(k)) /\ Owners

LEMMA RowsStart ==
  ASSUME Init
  PROVE  Rows
<1>1. Shape
  <2>1. NoDescriptor \in Descriptors
    BY DEF NoDescriptor, Descriptors, Run, Executions, Policy
  <2>2. NoSupervisor \in Supervisors
    BY DEF NoSupervisor, Supervisors, Notes
  <2>3. Idle \in Pens
    BY DEF Idle, Pens
  <2>4. 0 \in 0..MaxFaults[play]
    BY MaxFaultsAssumption DEF Init
  <2> QED BY <2>1, <2>2, <2>3, <2>4 DEF Init, Shape
<1>2. ASSUME NEW k \in Op PROVE RowInv(k) /\ ~Active(k)
  <2>1. /\ desc[k].status = "absent" /\ ~desc[k].identity /\ ~launch[k] /\ starter[k] = "idle"
        /\ sup[k].at = "none" /\ sup[k].clean /\ sup[k].note = "passed"
        /\ result[k] = None /\ evidence[k] = None /\ event[k] = None /\ ~signal[k] /\ ~child[k]
        /\ \A w \in Writer : pen[k][w].at = "idle"
    BY DEF Init, NoDescriptor, NoSupervisor, Idle
  <2>2. "absent" \notin TerminalStatus(k)
    BY NoStatusTwice
  <2>3. Verdicts(k)
    BY <2>1 DEF Verdicts, NoteFits, Busy
  <2>4. Stations(k)
    BY <2>1 DEF Stations, Unborn, Hands, Birth, Succession, Untouched, Busy, Working, Writer
  <2>5. Announced(k)
    BY <2>1, <2>2 DEF Announced, Turns, FilesAgree, PenFollows, Told, Terminal, Alive, Busy, Untouched, Writer
  <2>6. ChildFollows(k) /\ Sampled(k) /\ ~Active(k)
    BY <2>1 DEF ChildFollows, Fosters, Sampled, Active
  <2> QED BY <2>3, <2>4, <2>5, <2>6 DEF RowInv
<1>3. Owners
  BY <1>2, Kinds DEF Owners, Apart
<1> QED BY <1>1, <1>2, <1>3 DEF Rows

LEMMA RowInvStep ==
  ASSUME Shape, Shape', NEW k \in Op, RowInv(k), RowStep(k)
  PROVE  RowInv(k)'
BY VerdictsStep, StationsStep, AnnouncedStep, ChildStep, SampledStep DEF RowInv

LEMMA RowsStep ==
  ASSUME Rows, [Next]_vars
  PROVE  /\ Rows'
         /\ \A k \in Op : RowStep(k)
         /\ (\E k \in Op : Kept(k)) \/ (\A k \in Op : Same(k))
<1>1. \A k \in Op : Poised(k)
  BY DEF Rows, RowInv, Poised, Stations, Succession
<1>2. \/ \E k \in Op : Kept(k)
      \/ Shape' /\ \A k \in Op : Same(k)
  <2>1. CASE Next
    BY <1>1, <2>1, StepKinds DEF Rows
  <2>2. CASE UNCHANGED vars
    <3>1. Shape'
      BY <2>2 DEF Rows, Shape, vars, files, processes
    <3>2. \A k \in Op : Same(k)
      BY <2>2 DEF Same, vars, files, processes
    <3> QED BY <3>1, <3>2
  <2> QED BY <2>1, <2>2
<1>3. Shape' /\ \A k \in Op : RowStep(k)
  BY <1>2 DEF Kept, Others, RowStep
<1>4. \A k \in Op : RowInv(k)'
  BY <1>3, RowInvStep DEF Rows
<1>5. Owners'
  <2>1. CASE \E k \in Op : Kept(k)
    BY <2>1, OwnersStep DEF Rows, RowInv
  <2>2. CASE \A k \in Op : Same(k)
    <3>1. \A k \in Op : desc'[k] = desc[k]
      BY <2>2 DEF Same
    <3>2. \A k \in Op : Active(k)' <=> Active(k)
      BY <3>1 DEF Active, Terminal
    <3> QED BY <3>1, <3>2, Kinds DEF Rows, Owners, Apart
  <2> QED BY <1>2, <2>1, <2>2
<1> QED BY <1>2, <1>3, <1>4, <1>5 DEF Rows
-----------------------------------------------------------------------------
(***************************************************************************)
(* What the invariant says of finished operations.                         *)
(***************************************************************************)
LEMMA WakesBoolean ==
  ASSUME NEW k \in Op, NEW policy, NEW obs
  PROVE  WakesFor(k, policy, obs) \in BOOLEAN
<1>1. check_wakes(policy, obs) \in BOOLEAN
  BY DEF check_wakes
<1>2. run_should_wake(policy, obs) \in BOOLEAN
  <2>1. CASE policy = "always"
    BY <2>1 DEF run_should_wake
  <2>2. CASE policy = "never"
    BY <2>2 DEF run_should_wake
  <2>3. CASE policy = "on-failure"
    BY <2>3 DEF run_should_wake
  <2>4. CASE policy \notin {"always", "never", "on-failure"}
    <3> DEFINE wakes == run_verification_status(obs) \in {"failed", "cancelled", "unknown"}
    <3>1. wakes \in BOOLEAN
      OBVIOUS
    <3>2. policy # "always" /\ policy # "never" /\ policy # "on-failure"
      BY <2>4
    <3> HIDE DEF wakes
    <3>3. run_should_wake(policy, obs) = wakes
      BY <3>2 DEF run_should_wake, wakes
    <3> QED BY <3>1, <3>3
  <2> QED BY <2>1, <2>2, <2>3, <2>4
<1>3. pull_should_wake(policy, obs) \in BOOLEAN
  <2>1. CASE policy = "always"
    BY <2>1 DEF pull_should_wake
  <2>2. CASE policy = "on-failure"
    BY <2>2 DEF pull_should_wake
  <2>3. CASE policy \notin {"always", "on-failure"}
    <3> DEFINE wakes == obs.status \in PullAction
    <3>1. wakes \in BOOLEAN
      OBVIOUS
    <3>2. policy # "always" /\ policy # "on-failure"
      BY <2>3
    <3> HIDE DEF wakes
    <3>3. pull_should_wake(policy, obs) = wakes
      BY <3>2 DEF pull_should_wake, wakes
    <3> QED BY <3>1, <3>3
  <2> QED BY <2>1, <2>2, <2>3
<1>4. CASE k \in Check
  BY <1>1, <1>4, Kinds DEF WakesFor
<1>5. CASE k \in Actions
  BY <1>2, <1>5, Kinds DEF WakesFor
<1>6. CASE k \in Pull
  BY <1>3, <1>6, Kinds DEF WakesFor
<1> QED BY <1>4, <1>5, <1>6 DEF Op

LEMMA FinishedTold ==
  ASSUME Rows, NEW k \in Op, Terminal(k), Clean(k)
  PROVE  /\ Recovers(k) /\ result[k].obs = evidence[k].obs
         /\ event[k] = [status |-> EventStatus(k, Recorded(k)),
                        result |-> result[k], evidence |-> evidence[k]]
         /\ desc[k].status = Recorded(k).status
         /\ signal[k] = Wakes(k, Recorded(k))
<1>1. Announced(k)
  BY DEF Rows, RowInv
<1>2. /\ evidence[k] # None /\ event[k] # None /\ result[k] # None
      /\ result[k].obs = evidence[k].obs /\ desc[k].status = evidence[k].obs.status
      /\ signal[k] <=> WakesFor(k, desc[k].policy, evidence[k].obs)
  BY <1>1 DEF Announced, Told, FilesAgree
<1>3. Recovers(k) /\ Recorded(k) = evidence[k].obs
  BY <1>2 DEF Recovers, Recorded
<1>4. event[k] \in EventRecord
  BY <1>2 DEF Rows, Shape
<1>5. event[k] = [status |-> EventStatus(k, Recorded(k)),
                  result |-> result[k], evidence |-> evidence[k]]
  <2>1. /\ event[k].status = EventStatus(k, Recorded(k))
        /\ event[k].result = result[k] /\ event[k].evidence = evidence[k]
    BY <1>1, <1>2, <1>3 DEF Announced, FilesAgree
  <2> QED BY <1>4, <2>1 DEF EventRecord
<1>6. signal[k] = Wakes(k, Recorded(k))
  <2>1. signal[k] \in BOOLEAN
    BY DEF Rows, Shape
  <2>2. WakesFor(k, desc[k].policy, evidence[k].obs) \in BOOLEAN
    BY WakesBoolean
  <2>3. Wakes(k, Recorded(k)) = WakesFor(k, desc[k].policy, evidence[k].obs)
    BY <1>3, WakesByPolicy
  <2> QED BY <1>2, <2>1, <2>2, <2>3
<1> QED BY <1>2, <1>3, <1>5, <1>6

LEMMA NoOrphan ==
  ASSUME Rows
  PROVE  NoOrphanCommand
<1> SUFFICES ASSUME NEW k \in Check, Terminal(k), Detached(k), child[k] PROVE FALSE
  BY Kinds DEF NoOrphanCommand
<1>1. desc[k].status = "running"
  BY Kinds DEF Rows, RowInv, ChildFollows, Fosters
<1> QED BY <1>1, Kinds, NoStatusTwice DEF Terminal

LEMMA Apartness ==
  ASSUME Rows
  PROVE  OneOwner
BY DEF Rows, Owners, Apart, OneOwner

\* "ready" is judged exactly of the snapshots that are.
LEMMA ReadyJudged ==
  ASSUME NEW k \in Pull, NEW s \in Samples[k]
  PROVE  /\ Judged(k, s) = "ready" <=> Ready(k, s)
         /\ Judged(k, s) = "merged" => s.identity /\ s.head /\ s.state = "MERGED"
<1>1. /\ s.identity \in BOOLEAN /\ s.head \in BOOLEAN /\ s.draft \in BOOLEAN
      /\ s.state \in {"OPEN", "CLOSED", "MERGED"}
      /\ s.mergeable \in {"MERGEABLE", "CONFLICTING", "UNKNOWN"}
      /\ s.review \in {"", "APPROVED", "CHANGES_REQUESTED", "REVIEW_REQUIRED"}
  BY SamplesAssumption DEF Snapshots
<1>2. \A item : CheckCategory(item) \in {"pending", "failed", "passed", "unsupported"}
  BY DEF CheckCategory
<1>3. (\A item \in s.checks : CheckCategory(item) = "passed")
        <=> ~HasCheck(s, "unsupported") /\ ~HasCheck(s, "failed") /\ ~HasCheck(s, "pending")
  BY <1>2 DEF HasCheck
<1> DEFINE approval == k \in Approval
<1>4. CASE HasCheck(s, "unsupported")
  BY <1>3, <1>4 DEF Judged, Ready
<1>5. CASE ~HasCheck(s, "unsupported") /\ ~(s.identity /\ s.head)
  <2>1. evaluate_snapshot(approval, s) \in {"ambiguous", "head_changed"}
    BY <1>5, <1>1 DEF evaluate_snapshot
  <2> QED BY <1>5, <2>1 DEF Judged, Ready
<1>6. CASE ~HasCheck(s, "unsupported") /\ s.identity /\ s.head
  <2>1. evaluate_snapshot(approval, s) =
         IF s.state = "MERGED" THEN "merged"
         ELSE IF s.state = "CLOSED" THEN "closed"
         ELSE IF s.mergeable = "CONFLICTING" THEN "conflicting"
         ELSE IF HasCheck(s, "failed") THEN "failed_checks"
         ELSE IF s.draft \/ s.mergeable = "UNKNOWN" THEN "waiting"
         ELSE IF approval /\ s.review = "CHANGES_REQUESTED" THEN "changes_requested"
         ELSE IF approval /\ s.review # "APPROVED" THEN "waiting"
         ELSE IF HasCheck(s, "pending") THEN "waiting" ELSE "ready"
    BY <1>6 DEF evaluate_snapshot
  <2>2. Judged(k, s) = evaluate_snapshot(approval, s)
    BY <1>6 DEF Judged
  <2> HIDE DEF approval
  <2>3. Judged(k, s) = "merged" => s.state = "MERGED"
    BY <2>1, <2>2
  <2>4. Judged(k, s) = "ready" <=>
          /\ s.state = "OPEN" /\ s.mergeable = "MERGEABLE" /\ ~s.draft
          /\ ~HasCheck(s, "failed") /\ ~HasCheck(s, "pending")
          /\ approval => s.review = "APPROVED"
    BY <1>1, <2>1, <2>2
  <2> QED BY <1>3, <1>6, <2>3, <2>4 DEF Ready, approval
<1> QED BY <1>4, <1>5, <1>6

LEMMA Readiness ==
  ASSUME Rows
  PROVE  ReadinessSound
<1> SUFFICES ASSUME NEW k \in Pull, sup[k].at = "publishing", sup[k].note \in Samples[k]
             PROVE  /\ pen[k]["sup"].obs.status = "ready" <=> Ready(k, sup[k].note)
                    /\ pen[k]["sup"].obs.status = "merged" =>
                         /\ sup[k].note.identity /\ sup[k].note.head
                         /\ sup[k].note.state = "MERGED"
  BY DEF ReadinessSound
<1>1. sup[k].note # None
  BY SamplesAssumption
<1>2. pen[k]["sup"].obs = Seen(Judged(k, sup[k].note))
  BY <1>1, Kinds DEF Rows, RowInv, Sampled
<1>3. pen[k]["sup"].obs.status = Judged(k, sup[k].note)
  BY <1>2 DEF Seen, Observed
<1> QED BY <1>3, ReadyJudged
-----------------------------------------------------------------------------
(***************************************************************************)
(* What a step may not do.                                                 *)
(***************************************************************************)
LEMMA FinalStep ==
  ASSUME NEW k \in Op, RowInv(k), RowStep(k), Terminal(k), Clean(k)
  PROVE  desc'[k].status = desc[k].status
<1>n. \A s \in {"absent", "starting", "running"} : s \notin TerminalStatus(k)
  BY NoStatusTwice
<1>1. Announced(k) /\ Verdicts(k) /\ Stations(k) /\ Turns(k)
  BY DEF RowInv, Announced
<1>2. /\ desc[k].status \notin {"absent", "starting", "running"}
      /\ starter[k] # "stamping"
  BY <1>n, <1>1 DEF Terminal, Turns
<1>3. \A w \in Writer : ~Busy(k, w)
  BY <1>1, OneWriter
<1>4. \A w \in Writer : ~Closes(k, w)
  BY <1>3 DEF Closes, Busy
<1>5. ~Admits(k) /\ ~Stamps(k) /\ ~Claims(k)
  BY <1>2 DEF Admits, Stamps, Claims
<1> QED BY <1>4, <1>5 DEF RowStep, PutsResult, PutsEvidence, PutsEvent, PutsSignal, Advances,
       Quits, Launches, Forsakes, Registers, Reads, Breaks, Works, Concludes, Reconcludes, TakesOver,
       Expires, Same, IdentityKept

LEMMA VerdictsStand ==
  ASSUME Rows, [Next]_vars
  PROVE  [\A op \in Op : Terminal(op) /\ Clean(op) => desc'[op].status = desc[op].status]_desc
BY RowsStep, FinalStep DEF Rows

\* What a step of an operation does to what was promised of it.
LEMMA PromiseStep ==
  ASSUME NEW k \in Op, RowInv(k), RowStep(k)
  PROVE  \/ /\ desc'[k].status = "absent" <=> desc[k].status = "absent"
            /\ event'[k] = event[k] /\ signal'[k] = signal[k]
         \/ /\ desc[k].status = "absent" /\ desc'[k].status # "absent"
            /\ event'[k] = event[k] /\ signal'[k] = signal[k]
         \/ /\ desc[k].status # "absent" /\ desc'[k].status # "absent"
            /\ event[k] = None /\ event'[k] # None /\ signal'[k] = signal[k]
         \/ /\ desc[k].status # "absent" /\ desc'[k].status # "absent"
            /\ event[k] # None /\ event'[k] = event[k] /\ signal'[k] = TRUE
<1>n. \A s \in {"absent", "starting", "running"} : s \notin TerminalStatus(k)
  BY NoStatusTwice
<1>1. Verdicts(k) /\ Stations(k)
  BY DEF RowInv
<1>2. \A w \in Writer : Busy(k, w) => desc[k].status # "absent"
  BY <1>1 DEF Stations, Unborn
<1>3. ASSUME NEW w \in Writer, PutsEvent(k, w)
      PROVE  \/ event'[k] = event[k]
             \/ event[k] = None /\ event'[k] # None
  BY <1>3 DEF PutsEvent, Retains
<1>4. ASSUME NEW w \in Writer, PutsSignal(k, w)
      PROVE  event[k] # None
  BY <1>1, <1>4 DEF PutsSignal, Advances, Stations, Succession
<1>5. ASSUME NEW w \in Writer,
             PutsResult(k, w) \/ PutsEvidence(k, w) \/ PutsEvent(k, w) \/ PutsSignal(k, w)
      PROVE  Busy(k, w) /\ desc'[k] = desc[k]
  BY <1>5 DEF PutsResult, PutsEvidence, PutsEvent, PutsSignal, Advances, Busy
<1>6. ASSUME NEW w \in Writer, Closes(k, w)
      PROVE  /\ desc[k].status # "absent" /\ desc'[k].status # "absent"
             /\ event'[k] = event[k] /\ signal'[k] = signal[k]
  <2>1. /\ Busy(k, w) /\ desc'[k].status = pen[k][w].obs.status
        /\ event'[k] = event[k] /\ signal'[k] = signal[k]
    BY <1>6 DEF Closes, Busy, Stopped, FilesKept
  <2>2. desc'[k].status \in TerminalStatus(k)
    BY <1>1, <2>1 DEF Verdicts, Final
  <2> QED BY <1>n, <1>2, <2>1, <2>2
<1>7. CASE Admits(k)
  BY <1>7 DEF Admits, Quiet, FilesKept
<1>8. CASE Stamps(k) \/ Claims(k)
  <2>1. desc[k].status # "absent" /\ desc'[k].status # "absent"
    BY <1>1, <1>8 DEF Stamps, Claims, Stations, Unborn
  <2>2. FilesKept(k)
    BY <1>8 DEF Stamps, Claims, Quiet, Outcome
  <2> QED BY <2>1, <2>2 DEF FilesKept
<1>9. CASE \/ Launches(k) \/ Forsakes(k) \/ Registers(k) \/ Reads(k) \/ Breaks(k) \/ Works(k)
           \/ Concludes(k) \/ Reconcludes(k) \/ TakesOver(k) \/ Expires(k) \/ Same(k)
  <2>1. desc'[k].status = desc[k].status
    BY <1>9 DEF Launches, Forsakes, Registers, Reads, Breaks, Works, Concludes, Reconcludes,
                TakesOver, Expires, Same, IdentityKept
  <2>2. event'[k] = event[k] /\ signal'[k] = signal[k]
    BY <1>9 DEF Launches, Forsakes, Registers, Reads, Breaks, Works, Concludes, Reconcludes,
                TakesOver, Expires, Same, Outcome, Quiet, FilesKept
  <2> QED BY <2>1, <2>2
<1>10. ASSUME NEW w \in Writer, PutsResult(k, w) \/ PutsEvidence(k, w) \/ Quits(k, w)
       PROVE  desc'[k] = desc[k] /\ event'[k] = event[k] /\ signal'[k] = signal[k]
  BY <1>10 DEF PutsResult, PutsEvidence, Advances, Quits, Stopped, FilesKept
<1>11. ASSUME NEW w \in Writer, PutsEvent(k, w)
       PROVE  signal'[k] = signal[k]
  BY <1>11 DEF PutsEvent
<1>12. ASSUME NEW w \in Writer, PutsSignal(k, w)
       PROVE  event'[k] = event[k] /\ signal'[k] = TRUE
  BY <1>12 DEF PutsSignal
<1>13. ASSUME NEW w \in Writer, PutsEvent(k, w) \/ PutsSignal(k, w)
       PROVE  desc[k].status # "absent" /\ desc'[k].status # "absent"
  BY <1>2, <1>5, <1>13
<1> QED BY <1>3, <1>4, <1>6, <1>7, <1>8, <1>9, <1>10, <1>11, <1>12, <1>13 DEF RowStep

LEMMA PromiseKept ==
  ASSUME Rows, [Next]_vars
  PROVE  [Promise!Next]_(Promise!vars)
<1> DEFINE started == {op \in Op : desc[op].status # "absent"}
           woken == {op \in Op : signal[op]}
<1>1. Shape /\ Shape' /\ \A k \in Op : RowInv(k) /\ RowStep(k)
  BY RowsStep DEF Rows
<1>e. event \in [Op -> EventRecord \cup {None}] /\ event' \in [Op -> EventRecord \cup {None}]
  BY <1>1 DEF Shape
<1>2. CASE \A k \in Op : Same(k)
  <2>1. \A k \in Op : desc'[k] = desc[k] /\ event'[k] = event[k] /\ signal'[k] = signal[k]
    BY <1>2 DEF Same
  <2>2. event' = event
    BY <1>e, <2>1
  <2>3. started' = started /\ woken' = woken
    BY <2>1
  <2> QED BY <2>2, <2>3 DEF Promise!vars
<1>3. ASSUME NEW k \in Op, Kept(k)
      PROVE  [Promise!Next]_(Promise!vars)
  <2>1. \A o \in Op \ {k} : desc'[o] = desc[o] /\ event'[o] = event[o] /\ signal'[o] = signal[o]
    BY <1>3 DEF Kept, Others, Same
  <2>2. CASE /\ desc'[k].status = "absent" <=> desc[k].status = "absent"
             /\ event'[k] = event[k] /\ signal'[k] = signal[k]
    <3>1. event' = event /\ started' = started /\ woken' = woken
      BY <1>e, <2>1, <2>2
    <3> QED BY <3>1 DEF Promise!vars
  <2>3. CASE /\ desc[k].status = "absent" /\ desc'[k].status # "absent"
             /\ event'[k] = event[k] /\ signal'[k] = signal[k]
    <3>1. event' = event /\ started' = started \cup {k} /\ k \notin started /\ woken' = woken
      BY <1>e, <2>1, <2>3
    <3>2. Promise!Admit(k)
      BY <3>1 DEF Promise!Admit
    <3> QED BY <3>2 DEF Promise!Next
  <2>4. CASE /\ desc[k].status # "absent" /\ desc'[k].status # "absent"
             /\ event[k] = None /\ event'[k] # None /\ signal'[k] = signal[k]
    <3>1. /\ event' = [event EXCEPT ![k] = event'[k]]
          /\ started' = started /\ k \in started /\ woken' = woken
      BY <1>e, <2>1, <2>4
    <3>2. Promise!Decide(k)
      BY <2>4, <3>1 DEF Promise!Decide
    <3> QED BY <3>2 DEF Promise!Next
  <2>5. CASE /\ desc[k].status # "absent" /\ desc'[k].status # "absent"
             /\ event[k] # None /\ event'[k] = event[k] /\ signal'[k] = TRUE
    <3>1. event' = event /\ started' = started /\ woken' = woken \cup {k}
      BY <1>e, <2>1, <2>5
    <3>2. Promise!Announce(k)
      BY <2>5, <3>1 DEF Promise!Announce
    <3> QED BY <3>2 DEF Promise!Next
  <2> QED BY <1>1, <2>2, <2>3, <2>4, <2>5, PromiseStep
<1> QED BY <1>2, <1>3, RowsStep

LEMMA PromiseStart ==
  ASSUME Init
  PROVE  Promise!Init
<1>1. \A op \in Op : desc[op].status = "absent" /\ ~signal[op]
  BY DEF Init, NoDescriptor
<1>2. event = [op \in Op |-> None]
  BY DEF Init
<1> QED BY <1>1, <1>2 DEF Promise!Init
-----------------------------------------------------------------------------
(***************************************************************************)
(* The workstream.  The automatic decisions among the first checkpoints    *)
(* are counted; an append counts its decision, and a prefix stays.         *)
(***************************************************************************)
Counted(f, n) == {i \in 1..n : f[i] \in AUTOMATIC_DECISIONS}
Count(f, n) == Cardinality(Counted(f, n))

LEMMA CountTyped ==
  ASSUME NEW f, NEW n \in Nat
  PROVE  IsFiniteSet(Counted(f, n)) /\ Count(f, n) \in Nat
<1>1. IsFiniteSet(1..n)
  BY FS_Interval
<1>2. Counted(f, n) \subseteq 1..n
  BY DEF Counted
<1>3. IsFiniteSet(Counted(f, n))
  BY <1>1, <1>2, FS_Subset
<1> QED BY <1>3, FS_CardinalityType DEF Count

LEMMA CountZero ==
  ASSUME NEW f
  PROVE  Count(f, 0) = 0
<1>1. Counted(f, 0) = {}
  BY DEF Counted
<1> QED BY <1>1, FS_EmptySet DEF Count

LEMMA CountNext ==
  ASSUME NEW f, NEW n \in Nat
  PROVE  Count(f, n + 1) = Count(f, n) + (IF f[n + 1] \in AUTOMATIC_DECISIONS THEN 1 ELSE 0)
<1>1. IsFiniteSet(Counted(f, n)) /\ Count(f, n) \in Nat
  BY CountTyped
<1>2. CASE f[n + 1] \in AUTOMATIC_DECISIONS
  <2>1. Counted(f, n + 1) = Counted(f, n) \cup {n + 1}
    BY <1>2 DEF Counted
  <2>2. n + 1 \notin Counted(f, n)
    BY DEF Counted
  <2> QED BY <1>1, <1>2, <2>1, <2>2, FS_AddElement DEF Count
<1>3. CASE f[n + 1] \notin AUTOMATIC_DECISIONS
  <2>1. Counted(f, n + 1) = Counted(f, n)
    BY <1>3 DEF Counted
  <2> QED BY <1>1, <1>3, <2>1 DEF Count
<1> QED BY <1>2, <1>3

LEMMA CountPrefix ==
  ASSUME NEW f, NEW g, NEW n \in Nat, \A i \in 1..n : f[i] = g[i]
  PROVE  Count(f, n) = Count(g, n)
<1>1. Counted(f, n) = Counted(g, n)
  BY DEF Counted
<1> QED BY <1>1 DEF Count

Files == Seq(Decision \cup {"needs_user"})
Streams ==
  [status : {"absent", "active", "needs_user"} \cup Decision, used : Nat, active : Nat,
   limit : {Limit} \cup NewLimit, revision : {0, 1}, applied : Nat, files : Files,
   signals : SUBSET (1..MaxCheckpoints), seen : SUBSET (1..MaxCheckpoints),
   delivered : SUBSET (1..MaxCheckpoints), writing : BOOLEAN, expired : BOOLEAN]

\* The descriptor follows the checkpoint files, at most one behind.
Follows(s) ==
  /\ Len(s.files) <= MaxCheckpoints
  /\ s.applied = Len(s.files) \/ s.applied + 1 = Len(s.files)
  /\ s.used = Count(s.files, s.applied)
  /\ s.active # 0 => /\ s.status = "active" /\ s.active = s.applied
                     /\ s.files[s.active] = "continue"
\* Nothing follows a completion.
Completes(s) ==
  /\ \A i \in 1..Len(s.files) : s.files[i] = "complete" => i = Len(s.files)
  /\ s.status = "complete" <=> s.applied > 0 /\ s.files[s.applied] = "complete"
\* The files never exceed the limit that they were written under.
Limited(s) ==
  /\ s.revision = 0 => s.limit = Limit
  /\ s.revision = 0 /\ Limit # None => Count(s.files, Len(s.files)) <= Limit
Sound(s) ==
  /\ s \in Streams /\ Follows(s) /\ Completes(s) /\ Limited(s)
  /\ s.writing => Len(s.files) > 0

LEMMA FilesTyped ==
  ASSUME NEW s, s \in Streams
  PROVE  /\ Len(s.files) \in Nat /\ s.files \in Files
         /\ \A i \in 1..Len(s.files) : s.files[i] \in Decision \cup {"needs_user"}
BY DEF Streams, Files

\* What stays of a record of which the decision is not touched.
LEMMA SoundKept ==
  ASSUME NEW s, Sound(s), NEW t \in Streams,
         t.files = s.files, t.applied = s.applied, t.used = s.used,
         t.limit = s.limit, t.revision = s.revision,
         t.active = s.active \/ t.active = 0,
         t.active # 0 => t.status = s.status,
         t.status = "complete" <=> s.status = "complete",
         t.writing => s.writing
  PROVE  Sound(t)
BY DEF Sound, Follows, Completes, Limited

LEMMA AppliedSound ==
  ASSUME NEW s, Sound(s)
  PROVE  /\ Sound(Applied(s)) /\ Applied(s).files = s.files
         /\ Applied(s).signals = s.signals /\ Applied(s).seen = s.seen
         /\ Applied(s).delivered = s.delivered /\ Applied(s).expired = s.expired
         /\ Applied(s).writing = s.writing /\ Applied(s).revision = s.revision
         /\ Applied(s).limit = s.limit
         /\ Applied(s).applied = Len(s.files)
<1> DEFINE i == s.applied + 1
           d == s.files[i]
<1>t. /\ Len(s.files) \in Nat /\ s \in Streams /\ s.applied \in Nat
      /\ \A j \in 1..Len(s.files) : s.files[j] \in Decision \cup {"needs_user"}
  BY FilesTyped DEF Sound, Streams
<1>1. CASE s.applied = Len(s.files)
  <2>1. Applied(s) = s
    BY <1>1, <1>t DEF Applied
  <2> QED BY <1>1, <2>1
<1>2. CASE s.applied + 1 = Len(s.files)
  <2>1. s.status # "complete"
    BY <1>2, <1>t DEF Sound, Completes
  <2>2. i \in 1..Len(s.files) /\ i = Len(s.files) /\ d \in Decision \cup {"needs_user"}
    BY <1>2, <1>t
  <2> DEFINE status == IF d = "continue" THEN "active" ELSE d
             used == IF d \in AUTOMATIC_DECISIONS THEN s.used + 1 ELSE s.used
             active == IF d = "continue" THEN i ELSE 0
             r == [s EXCEPT !.status = status, !.applied = i, !.used = used, !.active = active]
  <2>3. Applied(s) = r
    BY <2>1, <2>2, <1>t DEF Applied
  <2>4. /\ status \in {"absent", "active", "needs_user"} \cup Decision
        /\ used \in Nat /\ active \in Nat /\ i \in Nat
    BY <1>t, <2>2 DEF Streams
  <2>5. used = Count(s.files, i)
    BY <1>t, CountNext DEF Sound, Follows, Streams
  <2> HIDE DEF status, used, active, i
  <2>6. /\ r \in Streams /\ r.status = status /\ r.applied = i /\ r.used = used /\ r.active = active
        /\ r.files = s.files /\ r.signals = s.signals /\ r.seen = s.seen
        /\ r.delivered = s.delivered /\ r.expired = s.expired /\ r.writing = s.writing
        /\ r.revision = s.revision /\ r.limit = s.limit
    BY <1>t, <2>4 DEF Streams
  <2> HIDE DEF r
  <2>7. Follows(r)
    <3>1. active # 0 => status = "active" /\ active = i /\ s.files[i] = "continue"
      BY DEF status, active
    <3> QED BY <2>2, <2>5, <2>6, <3>1 DEF Sound, Follows
  <2>8. Completes(r)
    <3>1. status = "complete" <=> s.files[i] = "complete"
      BY DEF status
    <3> QED BY <1>t, <2>2, <2>6, <3>1 DEF Sound, Completes
  <2>9. Sound(r)
    BY <2>6, <2>7, <2>8 DEF Sound, Limited
  <2> QED BY <2>2, <2>3, <2>6, <2>9
<1> QED BY <1>1, <1>2 DEF Sound, Follows
LEMMA PublishedSound ==
  ASSUME NEW s, Sound(s)
  PROVE  /\ Sound(Published(s)) /\ Published(s).files = s.files
         /\ Published(s).seen = s.seen /\ Published(s).delivered = s.delivered
         /\ Published(s).expired = s.expired /\ Published(s).writing = s.writing
         /\ Published(s).applied = s.applied
<1> DEFINE signals == s.signals \cup {i \in 1..s.applied : s.files[i] = "continue"}
<1>1. Published(s) = [s EXCEPT !.signals = signals]
  BY DEF Published
<1>2. s \in Streams /\ s.applied \in Nat /\ s.applied <= MaxCheckpoints /\ MaxCheckpoints \in Nat
  BY FilesTyped, LimitAssumption DEF Sound, Follows, Streams
<1>3. signals \subseteq 1..MaxCheckpoints
  BY <1>2 DEF Streams
<1> HIDE DEF signals
<1> DEFINE r == [s EXCEPT !.signals = signals]
<1>4. /\ r \in Streams /\ r.status = s.status /\ r.applied = s.applied /\ r.used = s.used
      /\ r.active = s.active /\ r.files = s.files /\ r.seen = s.seen
      /\ r.delivered = s.delivered /\ r.expired = s.expired /\ r.writing = s.writing
      /\ r.revision = s.revision /\ r.limit = s.limit
  BY <1>2, <1>3 DEF Streams
<1> HIDE DEF r
<1>5. Sound(r)
  BY <1>4, SoundKept
<1> QED BY <1>1, <1>4, <1>5 DEF r

LEMMA ExpiredSound ==
  ASSUME NEW s, Sound(s)
  PROVE  /\ Sound(Expired(s)) /\ Expired(s).files = s.files
         /\ Expired(s).seen = s.seen /\ Expired(s).delivered = s.delivered
         /\ Expired(s).expired = s.expired /\ Expired(s).writing = s.writing
         /\ Expired(s).applied = s.applied
         /\ Expired(s).status = "active" => ~s.expired
<1>t. s \in Streams
  BY DEF Sound
<1>1. CASE ~(s.expired /\ s.status \in {"active", "waiting_external"})
  <2>1. Expired(s) = s
    BY <1>1 DEF Expired
  <2> QED BY <1>1, <2>1
<1>2. CASE s.expired /\ s.status \in {"active", "waiting_external"}
  <2> DEFINE r == [s EXCEPT !.status = "needs_user", !.active = 0]
  <2>1. Expired(s) = r
    BY <1>2 DEF Expired
  <2>2. /\ r \in Streams /\ r.status = "needs_user" /\ r.applied = s.applied /\ r.used = s.used
        /\ r.active = 0 /\ r.files = s.files /\ r.seen = s.seen
        /\ r.delivered = s.delivered /\ r.expired = s.expired /\ r.writing = s.writing
        /\ r.revision = s.revision /\ r.limit = s.limit
    BY <1>t DEF Streams
  <2> HIDE DEF r
  <2>3. Sound(r)
    BY <1>2, <2>2, SoundKept
  <2> QED BY <2>1, <2>2, <2>3
<1> QED BY <1>1, <1>2

\* A reconciliation applies every checkpoint and authorises nothing that is expired.
LEMMA ReconciledSound ==
  ASSUME NEW s, Sound(s)
  PROVE  /\ Sound(Reconciled(s)) /\ Reconciled(s).files = s.files
         /\ Reconciled(s).seen = s.seen /\ Reconciled(s).delivered = s.delivered
         /\ Reconciled(s).expired = s.expired /\ Reconciled(s).writing = s.writing
         /\ Reconciled(s).applied = Len(s.files)
         /\ Reconciled(s).status = "active" => ~s.expired
<1> DEFINE a == Applied(s)
           p == Published(a)
<1>1. /\ Sound(a) /\ a.files = s.files /\ a.seen = s.seen /\ a.delivered = s.delivered
      /\ a.expired = s.expired /\ a.writing = s.writing /\ a.applied = Len(s.files)
  BY AppliedSound
<1> HIDE DEF a
<1>2. /\ Sound(p) /\ p.files = a.files /\ p.seen = a.seen /\ p.delivered = a.delivered
      /\ p.expired = a.expired /\ p.writing = a.writing /\ p.applied = a.applied
  BY <1>1, PublishedSound
<1> HIDE DEF p
<1>3. Reconciled(s) = Expired(p)
  BY DEF Reconciled, p, a
<1> QED BY <1>1, <1>2, <1>3, ExpiredSound

\* An effective decision is appended after a reconciliation.
LEMMA AppendSound ==
  ASSUME NEW s, Sound(s), s.applied = Len(s.files), s.status # "complete",
         Len(s.files) < MaxCheckpoints, NEW d \in Decision \cup {"needs_user"},
         d \in AUTOMATIC_DECISIONS => ~limit_reason(s),
         NEW t, t = [s EXCEPT !.files = Append(@, d), !.writing = TRUE]
  PROVE  Sound(t)
<1> DEFINE f == Append(s.files, d)
           n == Len(s.files)
           r == [s EXCEPT !.files = f, !.writing = TRUE]
<1>t. /\ n \in Nat /\ s \in Streams /\ s.files \in Files /\ s.applied = n /\ s.used \in Nat
      /\ MaxCheckpoints \in Nat /\ (Limit \in Nat \/ Limit = None)
  BY FilesTyped, LimitAssumption DEF Sound, Streams
<1>1. /\ f \in Files /\ Len(f) = n + 1 /\ f[n + 1] = d
      /\ \A i \in 1..n : f[i] = s.files[i]
  BY <1>t DEF Files
<1> HIDE DEF f
<1>2. /\ r \in Streams /\ r.status = s.status /\ r.applied = s.applied /\ r.used = s.used
      /\ r.active = s.active /\ r.files = f /\ r.writing = TRUE
      /\ r.revision = s.revision /\ r.limit = s.limit
  BY <1>t, <1>1 DEF Streams
<1> HIDE DEF r
<1>3. Count(f, n) = Count(s.files, n) /\ Count(s.files, n) = s.used
  BY <1>t, <1>1, CountPrefix DEF Sound, Follows
<1>4. Count(f, n + 1) = s.used + (IF d \in AUTOMATIC_DECISIONS THEN 1 ELSE 0)
  BY <1>t, <1>1, <1>3, CountNext
<1> HIDE DEF n
<1>5. Follows(r)
  <2>1. s.active # 0 => s.active \in 1..n
    BY <1>t DEF Sound, Follows, Streams
  <2> QED BY <1>t, <1>1, <1>2, <1>3, <2>1 DEF Sound, Follows, n
<1>6. Completes(r)
  <2>1. \A i \in 1..n : s.files[i] # "complete"
    BY <1>t DEF Sound, Completes, n
  <2>2. \A i \in 1..(n + 1) : f[i] = "complete" => i = n + 1
    BY <1>t, <1>1, <2>1
  <2>3. ~(n > 0 /\ f[n] = "complete")
    BY <1>t, <1>1, <2>1
  <2> QED BY <1>t, <1>1, <1>2, <2>2, <2>3 DEF Completes
<1>7. Limited(r)
  <2>1. s.revision = 0 /\ Limit # None => s.limit = Limit /\ s.used <= Limit
    BY <1>3, <1>t DEF Sound, Limited, n
  <2>2. CASE d \notin AUTOMATIC_DECISIONS
    BY <1>1, <1>2, <1>4, <1>t, <2>1, <2>2 DEF Limited, Sound
  <2>3. CASE d \in AUTOMATIC_DECISIONS
    <3>1. s.limit # None => ~(s.used >= s.limit)
      BY <2>3 DEF limit_reason
    <3>2. s.revision = 0 /\ Limit # None => s.used + 1 <= Limit
      BY <1>t, <2>1, <3>1
    <3> QED BY <1>1, <1>2, <1>4, <2>3, <3>2 DEF Limited, Sound
  <2> QED BY <2>2, <2>3
<1>8. Sound(r)
  BY <1>2, <1>1, <1>5, <1>6, <1>7, <1>t DEF Sound
<1>9. t = r
  BY DEF r, f
<1> QED BY <1>8, <1>9
LEMMA SoundStart == Sound(NoStream)
<1>1. NoStream \in Streams
  BY DEF NoStream, Streams, Files
<1>2. Len(NoStream.files) = 0 /\ MaxCheckpoints \in Nat
  BY LimitAssumption DEF NoStream
<1>3. Count(NoStream.files, 0) = 0
  BY CountZero
<1>4. Limit # None => Limit \in Nat
  BY LimitAssumption
<1>5. /\ NoStream.applied = 0 /\ NoStream.used = 0 /\ NoStream.active = 0 /\ NoStream.revision = 0
      /\ NoStream.limit = Limit /\ NoStream.status = "absent" /\ ~NoStream.writing
  BY DEF NoStream
<1> QED BY <1>1, <1>2, <1>3, <1>4, <1>5 DEF Sound, Follows, Completes, Limited

\* One step of a stream that is sound.
LEMMA StreamSteps ==
  ASSUME Sound(stream), StreamStep
  PROVE  Sound(stream')
<1>t. /\ stream \in Streams /\ Len(stream.files) \in Nat /\ stream.applied \in Nat
      /\ stream.applied <= Len(stream.files) /\ Len(stream.files) <= MaxCheckpoints
      /\ MaxCheckpoints \in Nat
  BY FilesTyped, LimitAssumption DEF Sound, Follows, Streams
<1>1. CASE StartStream
  <2> DEFINE r == [stream EXCEPT !.status = "active"]
  <2>1. /\ r \in Streams /\ r.status = "active" /\ r.applied = stream.applied
        /\ r.used = stream.used /\ r.active = stream.active /\ r.files = stream.files
        /\ r.writing = stream.writing /\ r.revision = stream.revision /\ r.limit = stream.limit
    BY <1>t DEF Streams
  <2>2. stream' = r /\ stream.status = "absent"
    BY <1>1 DEF StartStream
  <2> HIDE DEF r
  <2>3. stream.active = 0
    BY <2>2 DEF Sound, Follows
  <2>4. Sound(r)
    BY <2>1, <2>2, <2>3, SoundKept
  <2> QED BY <2>2, <2>4
<1>2. CASE Checkpoint
  <2> DEFINE s == Reconciled(stream)
  <2>1. /\ Sound(s) /\ s.files = stream.files /\ s.applied = Len(stream.files)
    BY ReconciledSound
  <2>2. PICK d \in Decision :
          /\ Len(stream.files) < MaxCheckpoints /\ s.status # "complete"
          /\ stream' = [s EXCEPT !.files = Append(@, IF d \in AUTOMATIC_DECISIONS /\ limit_reason(s)
                                                     THEN "needs_user" ELSE d),
                                 !.writing = TRUE]
    BY <1>2 DEF Checkpoint
  <2> HIDE DEF s
  <2> DEFINE e == IF d \in AUTOMATIC_DECISIONS /\ limit_reason(s) THEN "needs_user" ELSE d
  <2>3. e \in Decision \cup {"needs_user"} /\ (e \in AUTOMATIC_DECISIONS => ~limit_reason(s))
    BY DEF AUTOMATIC_DECISIONS
  <2>4. stream' = [s EXCEPT !.files = Append(@, e), !.writing = TRUE]
    BY <2>2
  <2> HIDE DEF e
  <2> QED BY <2>1, <2>2, <2>3, <2>4, AppendSound
<1>3. CASE ApplyCheckpoint
  <2> DEFINE s == Applied(stream)
             more == stream.files[stream.applied + 1] = "continue"
             r == [s EXCEPT !.writing = more]
  <2>1. Sound(s) /\ s.writing = stream.writing
    BY AppliedSound
  <2>2. stream' = r /\ stream.writing
    BY <1>3 DEF ApplyCheckpoint
  <2>3. more \in BOOLEAN
    OBVIOUS
  <2> HIDE DEF s, more
  <2>4. /\ r \in Streams /\ r.status = s.status /\ r.applied = s.applied /\ r.used = s.used
        /\ r.active = s.active /\ r.files = s.files /\ r.revision = s.revision
        /\ r.limit = s.limit
    BY <2>1, <2>3 DEF Sound, Streams
  <2> HIDE DEF r
  <2>5. Sound(r)
    BY <2>1, <2>2, <2>4, SoundKept
  <2> QED BY <2>2, <2>5
<1>4. CASE PublishCheckpoint
  <2> DEFINE signals == stream.signals \cup {stream.applied}
             r == [stream EXCEPT !.signals = signals, !.writing = FALSE]
  <2>1. stream.writing /\ stream.applied = Len(stream.files) /\ stream' = r
    BY <1>4 DEF PublishCheckpoint
  <2>2. signals \subseteq 1..MaxCheckpoints
    BY <1>t, <2>1 DEF Sound, Streams
  <2> HIDE DEF signals
  <2>3. /\ r \in Streams /\ r.status = stream.status /\ r.applied = stream.applied
        /\ r.used = stream.used /\ r.active = stream.active /\ r.files = stream.files
        /\ r.writing = FALSE /\ r.revision = stream.revision /\ r.limit = stream.limit
    BY <1>t, <2>2 DEF Streams
  <2> HIDE DEF r
  <2>4. Sound(r)
    BY <2>3, SoundKept
  <2> QED BY <2>1, <2>4
<1>5. CASE CheckpointDies \/ WallClockPasses
  <2>1. PICK w \in BOOLEAN, x \in BOOLEAN :
          /\ stream' = [stream EXCEPT !.writing = w, !.expired = x] /\ (w => stream.writing)
    <3>1. CASE CheckpointDies
      <4>1. stream' = [stream EXCEPT !.writing = FALSE, !.expired = stream.expired]
        BY <1>t, <3>1 DEF CheckpointDies, Streams
      <4> QED BY <1>t, <4>1 DEF Streams
    <3>2. CASE WallClockPasses
      <4>1. stream' = [stream EXCEPT !.writing = stream.writing, !.expired = TRUE]
        BY <1>t, <3>2 DEF WallClockPasses, Streams
      <4> QED BY <1>t, <4>1 DEF Streams
    <3> QED BY <1>5, <3>1, <3>2
  <2> DEFINE r == [stream EXCEPT !.writing = w, !.expired = x]
  <2>2. /\ r \in Streams /\ r.status = stream.status /\ r.applied = stream.applied
        /\ r.used = stream.used /\ r.active = stream.active /\ r.files = stream.files
        /\ r.writing = w /\ r.revision = stream.revision /\ r.limit = stream.limit
    BY <1>t DEF Streams
  <2>3. stream' = r
    BY <2>1
  <2> HIDE DEF r
  <2>4. Sound(r)
    BY <2>1, <2>2, SoundKept
  <2> QED BY <2>3, <2>4
<1>6. CASE ReconcileStream
  BY <1>6, ReconciledSound DEF ReconcileStream
<1>7. CASE ReconcileDies
  BY <1>7, AppliedSound, PublishedSound DEF ReconcileDies
<1>8. CASE SetPolicy
  <2>1. PICK l \in NewLimit : stream' = [stream EXCEPT !.limit = l, !.revision = 1]
    BY <1>8 DEF SetPolicy
  <2> DEFINE r == [stream EXCEPT !.limit = l, !.revision = 1]
  <2>2. /\ r \in Streams /\ r.status = stream.status /\ r.applied = stream.applied
        /\ r.used = stream.used /\ r.active = stream.active /\ r.files = stream.files
        /\ r.writing = stream.writing /\ r.revision = 1
    BY <1>t DEF Streams
  <2>3. stream' = r
    BY <2>1
  <2> HIDE DEF r
  <2>4. Sound(r)
    BY <2>2 DEF Sound, Follows, Completes, Limited
  <2> QED BY <2>3, <2>4
<1>9. CASE ResumeStream
  <2> DEFINE s == Reconciled(stream)
             r == [s EXCEPT !.status = "active", !.active = 0]
  <2>1. Sound(s)
    BY ReconciledSound
  <2>2. s.status # "complete" /\ stream' = r
    BY <1>9 DEF ResumeStream
  <2> HIDE DEF s
  <2>3. /\ r \in Streams /\ r.status = "active" /\ r.applied = s.applied /\ r.used = s.used
        /\ r.active = 0 /\ r.files = s.files /\ r.writing = s.writing
        /\ r.revision = s.revision /\ r.limit = s.limit
    BY <2>1 DEF Sound, Streams
  <2> HIDE DEF r
  <2>4. Sound(r)
    BY <2>1, <2>2, <2>3, SoundKept
  <2> QED BY <2>2, <2>4
\* Signals that were seen, and perhaps delivered.
<1>10. ASSUME NEW s, Sound(s), NEW seen \in SUBSET (1..MaxCheckpoints),
              NEW delivered \in SUBSET (1..MaxCheckpoints),
              NEW t, \/ t = [s EXCEPT !.seen = seen, !.delivered = delivered]
                     \/ t = [s EXCEPT !.seen = seen]
       PROVE  Sound(t)
  <2>1. /\ t \in Streams /\ t.status = s.status /\ t.applied = s.applied /\ t.used = s.used
        /\ t.active = s.active /\ t.files = s.files /\ t.writing = s.writing
        /\ t.revision = s.revision /\ t.limit = s.limit
    BY <1>10 DEF Sound, Streams
  <2> QED BY <1>10, <2>1, SoundKept
<1>12. ASSUME NEW i \in 1..MaxCheckpoints, DeliverContinuation(i)
       PROVE  Sound(stream')
  <2> DEFINE s == Reconciled(stream)
  <2>1. Sound(s)
    BY ReconciledSound
  <2>2. s \in Streams /\ s.seen \cup {i} \in SUBSET (1..MaxCheckpoints)
        /\ s.delivered \cup {i} \in SUBSET (1..MaxCheckpoints)
        /\ s.delivered \in SUBSET (1..MaxCheckpoints)
    <3> HIDE DEF s
    <3> QED BY <2>1 DEF Sound, Streams
  <2>3. \/ stream' = [s EXCEPT !.seen = s.seen \cup {i}]
        \/ stream' = [s EXCEPT !.seen = s.seen \cup {i}, !.delivered = s.delivered \cup {i}]
    BY <1>12 DEF DeliverContinuation
  <2> HIDE DEF s
  <2> QED BY <1>10, <2>1, <2>2, <2>3
<1>13. ASSUME NEW i \in 1..MaxCheckpoints, GuardRaises(i)
       PROVE  Sound(stream')
  <2>1. stream' = [stream EXCEPT !.seen = stream.seen \cup {i}]
    BY <1>13 DEF GuardRaises
  <2>2. /\ stream.seen \cup {i} \in SUBSET (1..MaxCheckpoints)
        /\ stream.delivered \in SUBSET (1..MaxCheckpoints)
    BY <1>t DEF Streams
  <2> QED BY <1>10, <2>1, <2>2
<1> QED BY <1>1, <1>2, <1>3, <1>4, <1>5, <1>6, <1>7, <1>8, <1>9, <1>12, <1>13 DEF StreamStep
\* Nothing but a step of the workstream or of the indexes changes them.
LEMMA OthersAlone ==
  ASSUME Next
  PROVE  StreamStep \/ IndexStep \/ UNCHANGED others
<1> USE DEF others
<1>1. ASSUME NEW k \in Op, NEW w \in Writer,
             \/ WriteResult(k, w) \/ WriteEvidence(k, w) \/ RetainEvent(k, w)
             \/ EventConflict(k, w) \/ RaiseSignal(k, w) \/ CloseDescriptor(k, w)
      PROVE  UNCHANGED others
  BY <1>1 DEF WriteResult, WriteEvidence, RetainEvent, EventConflict, RaiseSignal, CloseDescriptor
<1>2. ASSUME NEW k \in Op,
             \/ SupervisorDies(k) \/ StarterDies(k) \/ ReaperDies(k) \/ OrphanEnds(k)
             \/ RecordLaunchFile(k) \/ Spawns(k)
      PROVE  UNCHANGED others
  BY <1>2 DEF SupervisorDies, StarterDies, ReaperDies, OrphanEnds, RecordLaunchFile, Spawns
<1>3. ASSUME NEW k \in Check,
             \/ StartCheck(k) \/ ReadCheckSupervisor(k)
             \/ StampCheckSupervisor(k) \/ ClaimCheck(k) \/ RecordCommandLaunch(k)
             \/ SpawnCommand(k) \/ RecordActiveCommand(k) \/ CommandEnds(k)
             \/ ClearActiveCommand(k) \/ ReapCheck(k)
      PROVE  UNCHANGED others
  BY <1>3 DEF StartCheck, ReadCheckSupervisor, StampCheckSupervisor, ClaimCheck,
              RecordCommandLaunch, SpawnCommand, RecordActiveCommand, CommandEnds,
              ClearActiveCommand, ReapCheck
<1>4. ASSUME NEW k \in Actions,
             \/ StartActions(k) \/ ClaimActions(k)
             \/ Discover(k) \/ ClaimRun(k) \/ InitialView(k) \/ SpawnWatch(k)
             \/ RecordWatch(k) \/ WatchExits(k) \/ WatchStopped(k) \/ FinalView(k)
             \/ SupervisorRaises(k) \/ SettlingRaises(k) \/ CancelActions(k) \/ ReapActions(k)
      PROVE  UNCHANGED others
  BY <1>4 DEF StartActions, ClaimActions, Discover, ClaimRun, InitialView, SpawnWatch, RecordWatch,
              WatchExits, WatchStopped, FinalView, SupervisorRaises, SettlingRaises, CancelActions,
              ReapActions
<1>5. ASSUME NEW k \in Pull,
             \/ StartPull(k) \/ ClaimPull(k) \/ SamplePull(k)
             \/ SampleRaises(k) \/ CancelPull(k) \/ ReapPull(k)
      PROVE  UNCHANGED others
  BY <1>5 DEF StartPull, ClaimPull, SamplePull, SampleRaises, CancelPull, ReapPull
<1>6. ASSUME NEW k \in Op,
             \/ LaunchCheckSupervisor(k) \/ LaunchActionsSupervisor(k) \/ LaunchPullSupervisor(k)
      PROVE  UNCHANGED others
  BY <1>2, <1>6 DEF LaunchCheckSupervisor, LaunchActionsSupervisor, LaunchPullSupervisor
<1> QED BY <1>1, <1>2, <1>3, <1>4, <1>5, <1>6, Kinds DEF Next, StreamStep, IndexStep

LEMMA StreamAlone ==
  ASSUME Next
  PROVE  StreamStep \/ stream' = stream
BY OthersAlone, IndexAside DEF others

LEMMA IndexAlone ==
  ASSUME Next
  PROVE  IndexStep \/ UNCHANGED <<play, archive, index>>
BY OthersAlone, StreamAside DEF others

\* A continuation is delivered when it is the last decision and nothing forbids it.
LEMMA DeliveryAuthorised ==
  ASSUME Sound(stream), Next
  PROVE  \A i \in stream'.delivered \ stream.delivered :
           /\ i = Len(stream.files) /\ stream.files[i] = "continue"
           /\ stream'.status = "active" /\ ~stream.expired
<1>t. stream \in Streams
  BY DEF Sound
<1>1. ASSUME stream'.delivered = stream.delivered
      PROVE  stream'.delivered \ stream.delivered = {}
  BY <1>1
<1>2. CASE \/ StartStream \/ PublishCheckpoint \/ CheckpointDies \/ SetPolicy \/ WallClockPasses
           \/ stream' = stream
  <2>1. stream'.delivered = stream.delivered
    BY <1>t, <1>2 DEF StartStream, PublishCheckpoint, CheckpointDies, SetPolicy, WallClockPasses,
                      Streams
  <2> QED BY <1>1, <2>1
<1>3. CASE Checkpoint \/ ReconcileStream \/ ResumeStream
  <2> DEFINE s == Reconciled(stream)
  <2>1. Sound(s) /\ s.delivered = stream.delivered
    BY ReconciledSound
  <2> HIDE DEF s
  <2>2. s \in Streams
    BY <2>1 DEF Sound
  <2>3. \/ stream' = s
        \/ stream' = [s EXCEPT !.status = "active", !.active = 0]
        \/ \E d : stream' = [s EXCEPT !.files = Append(@, d), !.writing = TRUE]
    BY <1>3 DEF Checkpoint, ReconcileStream, ResumeStream, s
  <2>4. stream'.delivered = stream.delivered
    BY <2>1, <2>2, <2>3 DEF Streams
  <2> QED BY <1>1, <2>4
<1>4. CASE ApplyCheckpoint \/ ReconcileDies
  <2> DEFINE s == Applied(stream)
  <2>1. Sound(s) /\ s.delivered = stream.delivered
    BY AppliedSound
  <2>2. \/ stream' = s
        \/ stream' = [s EXCEPT !.writing = stream.files[stream.applied + 1] = "continue"]
        \/ stream' = Published(s)
    BY <1>4 DEF ApplyCheckpoint, ReconcileDies
  <2> HIDE DEF s
  <2>3. s \in Streams
    BY <2>1 DEF Sound
  <2>4. Published(s).delivered = s.delivered
    BY <2>1, PublishedSound
  <2>5. stream'.delivered = stream.delivered
    BY <2>1, <2>2, <2>3, <2>4 DEF Streams
  <2> QED BY <1>1, <2>5
<1>5. ASSUME NEW i \in 1..MaxCheckpoints, GuardRaises(i)
      PROVE  stream'.delivered = stream.delivered
  BY <1>t, <1>5 DEF GuardRaises, Streams
<1>6. ASSUME NEW i \in 1..MaxCheckpoints, DeliverContinuation(i),
             NEW j \in stream'.delivered \ stream.delivered
      PROVE  /\ j = Len(stream.files) /\ stream.files[j] = "continue"
             /\ stream'.status = "active" /\ ~stream.expired
  <2> DEFINE s == Reconciled(stream)
  <2>1. /\ Sound(s) /\ s.files = stream.files /\ s.delivered = stream.delivered
        /\ s.applied = Len(stream.files) /\ (s.status = "active" => ~stream.expired)
    BY ReconciledSound
  <2>2. \/ stream' = [s EXCEPT !.seen = s.seen \cup {i}]
        \/ /\ s.status = "active" /\ s.active = i
           /\ stream' = [s EXCEPT !.seen = s.seen \cup {i}, !.delivered = s.delivered \cup {i}]
    BY <1>6 DEF DeliverContinuation
  <2> HIDE DEF s
  <2>3. s \in Streams
    BY <2>1 DEF Sound
  <2>4. stream' # [s EXCEPT !.seen = s.seen \cup {i}]
    <3>1. ASSUME stream' = [s EXCEPT !.seen = s.seen \cup {i}]
          PROVE  stream'.delivered = s.delivered
      BY <2>3, <3>1 DEF Streams
    <3> QED BY <1>6, <2>1, <3>1
  <2>6. /\ s.status = "active" /\ s.active = i
        /\ stream' = [s EXCEPT !.seen = s.seen \cup {i}, !.delivered = s.delivered \cup {i}]
    BY <2>2, <2>4
  <2>7. stream'.delivered = s.delivered \cup {i} /\ stream'.status = s.status
    BY <2>3, <2>6 DEF Streams
  <2>8. j = i
    BY <1>6, <2>1, <2>7
  <2>5. s.active = s.applied /\ s.files[s.active] = "continue"
    BY <2>1, <2>6 DEF Sound, Follows
  <2> QED BY <2>1, <2>6, <2>7, <2>8, <2>5
<1> QED BY <1>1, <1>2, <1>3, <1>4, <1>5, <1>6, StreamAlone DEF StreamStep

LEMMA StreamIsSound ==
  ASSUME Sound(stream)
  PROVE  StreamSound
<1>t. /\ stream \in Streams /\ Len(stream.files) \in Nat /\ stream.applied \in Nat
  BY FilesTyped DEF Sound, Streams
<1>1. \A n : Automatic(n) = Count(stream.files, n)
  BY DEF Automatic, Count, Counted
<1>2. StreamAgrees
  <2>1. Len(stream.files) - stream.applied \in {0, 1}
    BY <1>t DEF Sound, Follows
  <2>2. stream.used = Automatic(stream.applied)
    BY <1>1 DEF Sound, Follows
  <2>3. stream.active # 0 =>
          /\ stream.status = "active" /\ stream.active = stream.applied
          /\ stream.files[stream.active] = "continue"
    BY DEF Sound, Follows
  <2>4. \A i \in 1..(Len(stream.files) - 1) : stream.files[i] # "complete"
    BY <1>t DEF Sound, Completes
  <2> QED BY <2>1, <2>2, <2>3, <2>4 DEF StreamAgrees
<1>3. WithinLimit
  BY <1>1 DEF Sound, Limited, WithinLimit
<1> QED BY <1>2, <1>3 DEF StreamSound

LEMMA Typed ==
  ASSUME Rows, Sound(stream)
  PROVE  TypeOK
<1>1. play \in Plays /\ faults \in 0..MaxFaults[play]
  BY DEF Rows, Shape
<1>2. ASSUME NEW k \in Op
      PROVE  /\ desc[k].status \in {"absent", "starting", "running"} \cup TerminalStatus(k)
             /\ desc[k].child \in {"none", "launching", "active"} /\ desc[k].identity \in BOOLEAN
             /\ starter[k] \in {"idle", "spawning", "recording", "stamping", "failing"}
             /\ launch[k] \in BOOLEAN /\ signal[k] \in BOOLEAN /\ child[k] \in BOOLEAN
             /\ cancel[k] \in BOOLEAN /\ sup[k].clean \in BOOLEAN
             /\ \A w \in Writer :
                  pen[k][w].at \in {"idle", "result", "evidence", "event", "signal", "descriptor"}
  <2>1. desc[k] \in Descriptors /\ sup[k] \in Supervisors /\ \A w \in Writer : pen[k][w] \in Pens
    BY DEF Rows, Shape
  <2>2. desc[k].child \in {"none", "launching", "active"} /\ desc[k].identity \in BOOLEAN
    BY <2>1 DEF Descriptors
  <2>3. sup[k].clean \in BOOLEAN
    BY <2>1 DEF Supervisors
  <2>4. \A w \in Writer :
          pen[k][w].at \in {"idle", "result", "evidence", "event", "signal", "descriptor"}
    BY <2>1 DEF Pens, Places
  <2> QED BY <2>2, <2>3, <2>4 DEF Rows, RowInv, Verdicts, Shape
<1>3. /\ stream.files \in Seq(Decision \cup {"needs_user"})
      /\ stream.signals \cup stream.seen \cup stream.delivered \subseteq 1..MaxCheckpoints
  BY DEF Sound, Streams, Files
<1>4. \A k \in Op : <<launch[k], signal[k], child[k], cancel[k], sup[k].clean>>
                      \in BOOLEAN \X BOOLEAN \X BOOLEAN \X BOOLEAN \X BOOLEAN
  BY <1>2
<1> QED BY <1>1, <1>2, <1>3, <1>4 DEF TypeOK

-----------------------------------------------------------------------------
(***************************************************************************)
(* Waits.  A report names a terminal status exactly for a finished         *)
(* operation, and calls it successful exactly if its event says so.        *)
(***************************************************************************)
LEMMA ReportedTerminal ==
  ASSUME NEW k \in Op, NEW late
  PROVE  /\ Terminal(k) => Reported(k, late) = desc[k].status
         /\ Reported(k, late) \in TerminalStatus(k) <=> Terminal(k)
<1>1. {"crashed", "stalled", "starting"} \cap TerminalStatus(k) = {}
  BY StatusesOf DEF Op, CheckStatus, MonitorStatus, PullStatus, PullSuccess
<1>2. Terminal(k) => ~Active(k) /\ desc[k].status # "starting"
  BY <1>1 DEF Terminal, Active
<1>3. /\ Reported(k, late) \in {"crashed", "stalled", desc[k].status}
      /\ Terminal(k) => Reported(k, late) = desc[k].status
  <2>1. CASE k \in Check
    BY <1>2, <2>1, Kinds DEF Reported, CheckView
  <2>2. CASE k \in Actions
    BY <1>2, <2>2, Kinds DEF Reported, ActionsView
  <2>3. CASE k \in Pull
    BY <1>2, <2>3, Kinds DEF Reported, PullView
  <2> QED BY <2>1, <2>2, <2>3 DEF Op
<1> QED BY <1>1, <1>3 DEF Terminal

LEMMA SuccessTold ==
  ASSUME Rows, NEW k \in Op, Terminal(k), Clean(k)
  PROVE  Successful(k, desc[k].status) <=> event[k].status = "completed"
<1>1. /\ result[k].obs = evidence[k].obs
      /\ event[k].status = EventStatus(k, evidence[k].obs)
      /\ desc[k].status = evidence[k].obs.status
  <2>1. Recorded(k) = evidence[k].obs
    BY FinishedTold DEF Recorded
  <2>2. event[k] = [status |-> EventStatus(k, evidence[k].obs),
                    result |-> result[k], evidence |-> evidence[k]]
    BY <2>1, FinishedTold
  <2> HIDE DEF EventStatus
  <2>3. event[k].status = EventStatus(k, evidence[k].obs)
    BY <2>2
  <2>4. result[k].obs = evidence[k].obs /\ desc[k].status = Recorded(k).status
    BY FinishedTold
  <2> QED BY <2>1, <2>3, <2>4
<1> DEFINE obs == evidence[k].obs
<1>2. obs.status \in TerminalStatus(k)
  BY <1>1 DEF Terminal
<1> HIDE DEF obs
<1>3. CASE k \in Check
  <2>1. EventStatus(k, obs) = check_event_status(obs)
    BY <1>3, Kinds DEF EventStatus
  <2>2. Successful(k, obs.status) <=> obs.status = "passed"
    BY <1>3, Kinds DEF Successful
  <2> QED BY <1>1, <2>1, <2>2 DEF check_event_status, obs
<1>4. CASE k \in Actions
  <2>1. EventStatus(k, obs) = run_event_status(obs)
    BY <1>4, Kinds DEF EventStatus
  <2>2. Successful(k, obs.status) <=> obs.status = "completed" /\ obs.conclusion = "success"
    BY <1>4, Kinds DEF Successful, obs
  <2>3. run_event_status(obs) = "completed"
          <=> obs.status = "completed" /\ obs.conclusion = "success"
    BY DEF run_event_status
  <2> QED BY <1>1, <2>1, <2>2, <2>3 DEF obs
<1>5. CASE k \in Pull
  <2>1. EventStatus(k, obs) = pull_event_status(obs)
    BY <1>5, Kinds DEF EventStatus
  <2>2. Successful(k, obs.status) <=> obs.status \in PullSuccess
    BY <1>5, Kinds DEF Successful
  <2>3. pull_event_status(obs) = "completed" <=> obs.status \in PullSuccess
    BY DEF pull_event_status, PullSuccess
  <2> QED BY <1>1, <2>1, <2>2, <2>3 DEF obs
<1> QED BY <1>3, <1>4, <1>5 DEF Op

LEMMA SnapshotTold ==
  ASSUME Rows, NEW k \in Op, Clean(k), NEW late
  PROVE  /\ Snapshot(k, late).terminal <=> Terminal(k)
         /\ Terminal(k) =>
              (Snapshot(k, late).successful <=> event[k].status = "completed")
<1>1. Reported(k, late) \in TerminalStatus(k) <=> Terminal(k)
  BY ReportedTerminal
<1>2. Snapshot(k, late).terminal <=> Reported(k, late) \in TerminalStatus(k)
  BY DEF Snapshot
<1>3. Snapshot(k, late).successful
        <=> Reported(k, late) \in TerminalStatus(k) /\ Successful(k, Reported(k, late))
  BY DEF Snapshot
<1>4. Terminal(k) => (Successful(k, Reported(k, late)) <=> event[k].status = "completed")
  BY ReportedTerminal, SuccessTold
<1> QED BY <1>1, <1>2, <1>3, <1>4

\* What a wait that ends concluded from.
LEMMA EndsFrom ==
  ASSUME NEW S, NEW mode \in WAIT_MODES
  PROVE  LET outcome == Ends(Aggregate(S, mode), FALSE)
         IN /\ outcome = "completed" =>
                 /\ IF mode = "any" THEN \E s \in S : s.terminal ELSE \A s \in S : s.terminal
                 /\ \A s \in S : s.terminal => s.successful
            /\ outcome = "unsuccessful" => \E s \in S : s.terminal /\ ~s.successful
<1> DEFINE V == Aggregate(S, mode)
           T == {s \in S : s.terminal}
<1>1. /\ V.met = IF mode = "any" THEN T # {} ELSE T = S
      /\ V.status = IF \E s \in S : s.action THEN "action_required"
                    ELSE IF ~V.met THEN "waiting"
                    ELSE IF \A s \in T : s.successful THEN "completed" ELSE "unsuccessful"
  BY DEF Aggregate
<1> HIDE DEF V
<1>2. Ends(V, FALSE) \in {V.status, "sleeping"}
  BY <1>1 DEF Ends
<1>3. Ends(V, FALSE) \in {"completed", "unsuccessful"} =>
        /\ V.status = Ends(V, FALSE) /\ V.met
  BY <1>1, <1>2
<1>4. Ends(V, FALSE) = "completed" => V.met /\ \A s \in T : s.successful
  BY <1>1, <1>3
<1>5. Ends(V, FALSE) = "unsuccessful" => \E s \in T : ~s.successful
  BY <1>1, <1>3
<1> QED BY <1>1, <1>4, <1>5 DEF V

\* Who is never woken has no signal.
LEMMA NeverWoken ==
  ASSUME Rows, NEW k \in Check \cup Actions, Clean(k), desc[k].policy = "never"
  PROVE  ~signal[k]
<1>1. k \in Op
  BY Kinds
<1>2. signal[k] => WakesFor(k, "never", evidence[k].obs)
  BY <1>1 DEF Rows, RowInv, Announced, FilesAgree
<1>3. CASE k \in Check
  BY <1>2, <1>3, Kinds DEF WakesFor, check_wakes
<1>4. CASE k \in Actions
  BY <1>2, <1>4, Kinds DEF WakesFor, run_should_wake
<1> QED BY <1>3, <1>4

LEMMA WaitsTold ==
  ASSUME Rows
  PROVE  WaitTruthful
<1> SUFFICES ASSUME NEW T \in WaitSets, NEW mode \in WAIT_MODES, NEW late \in BOOLEAN,
                    \A op \in T : Clean(op)
             PROVE  LET outcome == Ends(Verdict(T, mode, late), FALSE)
                        Over == {op \in T : Terminal(op)}
                    IN /\ outcome = "completed" =>
                            /\ Over # {} /\ (mode = "all" => Over = T)
                            /\ \A op \in Over : event[op].status = "completed"
                       /\ outcome = "unsuccessful" =>
                            \E op \in Over : event[op].status # "completed"
                       /\ \A op \in T \ (WakeupEnabled(T) \cup Pull) : ~signal[op]
  BY DEF WaitTruthful
<1> DEFINE S == {Snapshot(op, late) : op \in T}
           Over == {op \in T : Terminal(op)}
           outcome == Ends(Aggregate(S, mode), FALSE)
<1>1. T \subseteq Op /\ T # {}
  BY DEF WaitSets, WaitableSets, Admitted
<1>2. Verdict(T, mode, late) = Aggregate(S, mode)
  BY DEF Verdict
<1>3. \A op \in T :
        /\ Snapshot(op, late) \in S
        /\ Snapshot(op, late).terminal <=> Terminal(op)
        /\ Terminal(op) => (Snapshot(op, late).successful <=> event[op].status = "completed")
  BY <1>1, SnapshotTold
<1>4. \A s \in S : \E op \in T : s = Snapshot(op, late)
  OBVIOUS
<1>5. /\ outcome = "completed" =>
           /\ IF mode = "any" THEN \E s \in S : s.terminal ELSE \A s \in S : s.terminal
           /\ \A s \in S : s.terminal => s.successful
      /\ outcome = "unsuccessful" => \E s \in S : s.terminal /\ ~s.successful
  BY EndsFrom
<1>6. mode = "any" \/ mode = "all"
  BY DEF WAIT_MODES
<1>7. \A op \in T \ (WakeupEnabled(T) \cup Pull) : ~signal[op]
  <2> SUFFICES ASSUME NEW op \in T \ (WakeupEnabled(T) \cup Pull)
               PROVE  ~signal[op]
    OBVIOUS
  <2>1. op \in Check \cup Actions /\ desc[op].policy = "never"
    BY <1>1 DEF WakeupEnabled, Op
  <2> QED BY <2>1, NeverWoken
<1> HIDE DEF S, outcome
<1>8. outcome = "completed" => Over # {} /\ (mode = "all" => Over = T)
  <2> SUFFICES ASSUME outcome = "completed"
               PROVE  Over # {} /\ (mode = "all" => Over = T)
    OBVIOUS
  <2>1. CASE mode = "any"
    BY <1>3, <1>4, <1>5, <2>1
  <2>2. CASE mode = "all"
    BY <1>1, <1>3, <1>5, <2>2
  <2> QED BY <1>6, <2>1, <2>2
<1>9. outcome = "completed" => \A op \in Over : event[op].status = "completed"
  BY <1>3, <1>5
<1>10. outcome = "unsuccessful" => \E op \in Over : event[op].status # "completed"
  BY <1>3, <1>4, <1>5
<1> QED BY <1>2, <1>7, <1>8, <1>9, <1>10 DEF outcome

-----------------------------------------------------------------------------
(***************************************************************************)
(* Indexes.  Everything is said of values: A of the archive, X of the      *)
(* index.  Their types first.                                              *)
(***************************************************************************)
Cell == [n : Int, runs : BOOLEAN]
Said == [n : Nat \ {0}, runs : BOOLEAN]
Mark == [file : Artifacts, n : Int]
Writing ==
  {Resting} \cup [at : {"prepare", "write", "append", "clear"}, file : Artifacts, says : Said,
                  marked : BOOLEAN]
Archives ==
  [content : [Artifacts -> Cell], published : Nat, journal : Seq(Artifacts),
   markers : SUBSET Mark, writer : [Publisher -> Writing], unmarked : SUBSET Artifacts]

RowValue == {None} \cup UNION {[FilesOf(t) -> Cell] : t \in Tasks}
Tables ==
  [booted : BOOLEAN, offset : Nat, rows : [Tasks -> RowValue], sequence : [Artifacts -> Nat],
   last : Nat]
Summarizing ==
  [at : {"scan", "journal"}, ready : SUBSET Mark, tables : Tables]
    \cup [at : {"refresh"}, ready : SUBSET Mark, outdated : SUBSET Tasks, tables : Tables]
    \cup [at : {"clear"}, ready : SUBSET Mark]
Collecting ==
  [at : {"page"}, cursor : Nat, ready : SUBSET Mark]
    \cup [at : {"clear", "ingest"}, ready : SUBSET Mark, files : SUBSET Artifacts, next : Nat]
    \cup [at : {"advance"}, next : Nat]
\* P is the play.
Reading(P) ==
  {Away} \cup (IF P = {"summaries"} THEN Summarizing ELSE {})
    \cup (IF P = {"candidates"} THEN Collecting ELSE {})
IndexFiles(P) ==
  [tables : Tables, cursor : Nat, collected : SUBSET Mark, reader : [Reader -> Reading(P)]]

InTransaction == {"scan", "journal", "refresh", "page"}
HasReady == InTransaction \cup {"clear"}

\* The types; one reader at a time is in a transaction.
IndexShape(P, A, X) ==
  /\ A \in Archives /\ X \in IndexFiles(P)
  /\ X.tables.offset <= Len(A.journal)
  /\ \A r, q \in Reader :
       X.reader[r].at \in InTransaction /\ X.reader[q].at \in InTransaction => r = q
  /\ \A r \in Reader : X.reader[r].at \in {"scan", "journal", "refresh"} =>
       X.reader[r].tables.offset <= Len(A.journal)
  /\ \A r \in Reader : X.reader[r].at \in {"journal", "refresh"} => X.reader[r].tables.booted

\* n has not been written.
Unused(A, X, n) ==
  /\ \A a \in Artifacts : A.content[a].n # n
  /\ \A r \in Reader : X.reader[r].at \in HasReady => \A m \in X.reader[r].ready : m.n # n
\* Every publication has a number of its own, and a marker that was found ready is of one
\* that has been written.
Numbers(A, X) ==
  /\ \A a \in Artifacts : A.content[a].n <= A.published
  /\ \A w \in Publisher : A.writer[w].at # "idle" => A.writer[w].says.n <= A.published
  /\ \A w, v \in Publisher :
       A.writer[w].at # "idle" /\ A.writer[v].at # "idle" /\ w # v =>
         A.writer[w].says.n # A.writer[v].says.n
  /\ \A w \in Publisher : A.writer[w].at \in {"prepare", "write"} =>
       Unused(A, X, A.writer[w].says.n)
  /\ \A r \in Reader : X.reader[r].at \in HasReady =>
       \A m \in X.reader[r].ready : m.n <= A.published
  /\ \A w \in Publisher : A.writer[w].at = "write" /\ A.writer[w].marked =>
       [file |-> A.writer[w].file, n |-> A.writer[w].says.n] \in A.markers

\* What announces the content of an artifact, and who is about to remove it.
MarkOf(A, a) == [file |-> a, n |-> A.content[a].n]
Removed(A, X, a) ==
  \/ \E w \in Publisher :
       /\ A.writer[w].at = "clear"
       /\ [file |-> A.writer[w].file, n |-> A.writer[w].says.n] = MarkOf(A, a)
  \/ \E r \in Reader : X.reader[r].at = "clear" /\ MarkOf(A, a) \in X.reader[r].ready
Ahead(A, a, offset) == \E i \in (offset + 1)..Len(A.journal) : A.journal[i] = a
Missed(A, X, a, offset, spent) ==
  \/ Ahead(A, a, offset)
  \/ a \in A.unmarked \/ A.content[a] = Unwritten
  \/ MarkOf(A, a) \in A.markers /\ ~Removed(A, X, a) /\ MarkOf(A, a) \notin spent

SummaryOf(A, t) ==
  IF \E a \in FilesOf(t) : A.content[a] # Absent
  THEN [a \in FilesOf(t) |-> A.content[a]] ELSE None
RowSound(A, X, t, row, offset, spent) ==
  row = SummaryOf(A, t) \/ \E a \in FilesOf(t) : Missed(A, X, a, offset, spent)
SummariesHold(A, X) ==
  /\ X.tables.booted =>
       \A t \in Tasks : RowSound(A, X, t, X.tables.rows[t], X.tables.offset, {})
  /\ \A r \in Reader :
       LET p == X.reader[r] IN
       p.at \in {"journal", "refresh"} =>
         \A t \in Tasks :
           \/ p.at = "refresh" /\ t \in p.outdated
           \/ RowSound(A, X, t, p.tables.rows[t], p.tables.offset, p.ready)

Passed(A, X, a, cursor) ==
  \/ A.content[a] = Absent
  \/ MarkOf(A, a) \in X.collected
  \/ X.tables.sequence[a] > cursor
PassedSound(A, X, a, cursor) == Passed(A, X, a, cursor) \/ Missed(A, X, a, X.tables.offset, {})
\* Where a collector has come to, and what it has in hand.
ReachedBy(p) == IF p.at = "page" THEN p.cursor ELSE p.next
Collects == {"page", "clear", "ingest", "advance"}
InHand(p) == IF p.at \in {"clear", "ingest"} THEN p.files ELSE {}
\* A collector with this cursor passes over nothing but what it has in hand.
CursorSound(A, X, cursor, held) ==
  /\ cursor <= X.tables.last
  /\ X.tables.booted => \A a \in Artifacts : a \in held \/ PassedSound(A, X, a, cursor)
CandidatesHold(A, X) ==
  /\ \A a \in Artifacts : X.tables.sequence[a] <= X.tables.last
  /\ ~X.tables.booted => \A a \in Artifacts : X.tables.sequence[a] = 0
  /\ CursorSound(A, X, X.cursor, {})
  /\ \A r \in Reader : X.reader[r].at \in Collects =>
       CursorSound(A, X, ReachedBy(X.reader[r]), InHand(X.reader[r]))

IndexKept(P, A, X) ==
  /\ IndexShape(P, A, X) /\ Numbers(A, X)
  /\ P = {"summaries"} => SummariesHold(A, X)
  /\ P = {"candidates"} => CandidatesHold(A, X)

-----------------------------------------------------------------------------
LEMMA ReadingTyped ==
  ASSUME NEW P, NEW p \in Reading(P)
  PROVE  /\ p.at \in HasReady => p.ready \in SUBSET Mark
         /\ p.at \in {"scan", "journal", "refresh"} => p.tables \in Tables /\ p \in Summarizing
         /\ p.at \in {"scan", "journal", "refresh"} => P = {"summaries"}
         /\ p.at \in {"page", "ingest", "advance"} => P = {"candidates"} /\ p \in Collecting
         /\ p.at = "refresh" => p.outdated \in SUBSET Tasks
         /\ P = {"candidates"} /\ p.at \in Collects =>
              p \in Collecting /\ ReachedBy(p) \in Nat /\ InHand(p) \in SUBSET Artifacts
         /\ P = {"summaries"} => p \in Summarizing \cup {Away}
         /\ p.at \in {"idle", "advance"} \cup HasReady \cup {"ingest"}
<1>1. {"summaries"} # {"candidates"}
  OBVIOUS
<1>2. CASE p = Away
  BY <1>2 DEF Away, HasReady, InTransaction, Collects
<1>3. CASE p \in Summarizing /\ P = {"summaries"}
  BY <1>1, <1>3 DEF Summarizing, HasReady, InTransaction
<1>4. CASE p \in Collecting /\ P = {"candidates"}
  BY <1>1, <1>4 DEF Collecting, HasReady, InTransaction, Collects, ReachedBy, InHand
<1> QED BY <1>2, <1>3, <1>4 DEF Reading

LEMMA IndexTyped ==
  ASSUME NEW P, NEW A, NEW X, IndexShape(P, A, X)
  PROVE  /\ A.content \in [Artifacts -> Cell] /\ A.published \in Nat
         /\ A.journal \in Seq(Artifacts) /\ Len(A.journal) \in Nat
         /\ A.markers \in SUBSET Mark
         /\ A.writer \in [Publisher -> Writing] /\ A.unmarked \in SUBSET Artifacts
         /\ X.tables \in Tables /\ X.cursor \in Nat /\ X.collected \in SUBSET Mark
         /\ X.reader \in [Reader -> Reading(P)]
         /\ \A r \in Reader : X.reader[r] \in Reading(P)
BY DEF IndexShape, Archives, IndexFiles

\* What is missed does not depend on readers that have no marker to remove.
LEMMA MissedByReaders ==
  ASSUME NEW A, NEW X, NEW Y, NEW a, NEW offset, NEW spent,
         \A r \in Reader :
           Y.reader[r].at = "clear" /\ MarkOf(A, a) \in Y.reader[r].ready
             => \/ X.reader[r].at = "clear" /\ MarkOf(A, a) \in X.reader[r].ready
                \/ MarkOf(A, a) \in spent
  PROVE  Missed(A, X, a, offset, spent) => Missed(A, Y, a, offset, {})
<1> DEFINE m == MarkOf(A, a)
<1>1. Removed(A, Y, a) => Removed(A, X, a) \/ m \in spent
  <2> HIDE DEF m
  <2> QED BY DEF Removed, m
<1> HIDE DEF m
<1> QED BY <1>1 DEF Missed, m

LEMMA MissedSpent ==
  ASSUME NEW A, NEW X, NEW a, NEW offset, NEW spent, Missed(A, X, a, offset, spent)
  PROVE  Missed(A, X, a, offset, {})
BY DEF Missed

-----------------------------------------------------------------------------
(***************************************************************************)
(* What publishers do to the archive.                                      *)
(***************************************************************************)
\* What readers in a transaction are going to remove.
Spent(X) == {{}} \cup {X.reader[r].ready : r \in {q \in Reader : X.reader[q].at \in HasReady}}

\* B follows A: what was missed is missed, and so is what is published.
Announces(A, B, X) ==
  \A a \in Artifacts, offset \in 0..Len(A.journal), spent \in Spent(X) :
    Missed(A, X, a, offset, spent) \/ B.content[a] # A.content[a]
      => Missed(B, X, a, offset, spent)

LEMMA RowsAnnounced ==
  ASSUME NEW P, NEW A, NEW B, NEW X, IndexShape(P, A, X), Announces(A, B, X),
         SummariesHold(A, X), B \in Archives
  PROVE  SummariesHold(B, X)
<1> USE IndexTyped
<1>1. ASSUME NEW t \in Tasks, NEW row, NEW offset \in 0..Len(A.journal), NEW spent \in Spent(X),
             RowSound(A, X, t, row, offset, spent)
      PROVE  RowSound(B, X, t, row, offset, spent)
  <2>1. FilesOf(t) \subseteq Artifacts
    BY DEF FilesOf
  <2>2. CASE \E a \in FilesOf(t) : Missed(A, X, a, offset, spent)
    BY <2>1, <2>2 DEF Announces, RowSound
  <2>3. CASE \E a \in FilesOf(t) : B.content[a] # A.content[a]
    BY <2>1, <2>3 DEF Announces, RowSound
  <2>4. CASE row = SummaryOf(A, t) /\ \A a \in FilesOf(t) : B.content[a] = A.content[a]
    <3>1. SummaryOf(B, t) = SummaryOf(A, t)
      BY <2>4 DEF SummaryOf
    <3> QED BY <2>4, <3>1 DEF RowSound
  <2> QED BY <1>1, <2>2, <2>3, <2>4 DEF RowSound
<1>2. {} \in Spent(X)
  BY DEF Spent
<1>3. X.tables.offset \in 0..Len(A.journal)
  BY DEF IndexShape, Tables
<1>4. ASSUME NEW r \in Reader, X.reader[r].at \in {"journal", "refresh"}
      PROVE  X.reader[r].ready \in Spent(X) /\ X.reader[r].tables.offset \in 0..Len(A.journal)
  <2>1. X.reader[r].tables \in Tables
    BY <1>4, ReadingTyped
  <2>2. X.reader[r].tables.offset <= Len(A.journal)
    BY <1>4 DEF IndexShape
  <2> QED BY <1>4, <2>1, <2>2 DEF Spent, Tables, HasReady, InTransaction
<1> QED BY <1>1, <1>2, <1>3, <1>4 DEF SummariesHold

LEMMA CandidatesAnnounced ==
  ASSUME NEW P, NEW A, NEW B, NEW X, IndexShape(P, A, X), Announces(A, B, X),
         CandidatesHold(A, X), B \in Archives
  PROVE  CandidatesHold(B, X)
<1>1. ASSUME NEW a \in Artifacts, NEW cursor, PassedSound(A, X, a, cursor)
      PROVE  PassedSound(B, X, a, cursor)
  <2>1. {} \in Spent(X)
    BY DEF Spent
  <2>2. X.tables.offset \in 0..Len(A.journal)
    BY IndexTyped DEF IndexShape, Tables
  <2>3. CASE Missed(A, X, a, X.tables.offset, {}) \/ B.content[a] # A.content[a]
    BY <2>1, <2>2, <2>3 DEF Announces, PassedSound
  <2>4. CASE Passed(A, X, a, cursor) /\ B.content[a] = A.content[a]
    BY <2>4 DEF Passed, PassedSound, MarkOf
  <2> QED BY <1>1, <2>3, <2>4 DEF PassedSound
<1>2. \A cursor, held : CursorSound(A, X, cursor, held) => CursorSound(B, X, cursor, held)
  BY <1>1 DEF CursorSound
<1> QED BY <1>2 DEF CandidatesHold

-----------------------------------------------------------------------------
\* What every step of a publisher w comes to.
IndexFollows(P, A, B, X) == IndexShape(P, B, X) /\ Numbers(B, X) /\ Announces(A, B, X)

LEMMA ShapeGrows ==
  ASSUME NEW P, NEW A, NEW B, NEW X, IndexShape(P, A, X), B \in Archives,
         Len(A.journal) <= Len(B.journal)
  PROVE  IndexShape(P, B, X)
<1>1. Len(B.journal) \in Nat /\ Len(A.journal) \in Nat
  BY DEF IndexShape, Archives
<1>2. X.tables.offset \in Nat
  BY IndexTyped DEF Tables
<1>3. \A r \in Reader : X.reader[r].at \in {"scan", "journal", "refresh"} =>
        X.reader[r].tables.offset \in Nat
  BY IndexTyped, ReadingTyped DEF Tables
<1> QED BY <1>1, <1>2, <1>3 DEF IndexShape

\* The record of a publisher that is not resting.
LEMMA WritingTyped ==
  ASSUME NEW x \in Writing
  PROVE  x.at # "idle" => /\ x.file \in Artifacts /\ x.says \in Said /\ x.says.n \in Nat \ {0}
                          /\ x.marked \in BOOLEAN /\ x.says \in Cell
BY DEF Writing, Resting, Said, Cell

LEMMA ClaimFollows ==
  ASSUME NEW P, NEW A, NEW B, NEW X, IndexShape(P, A, X), Numbers(A, X),
         NEW w \in Publisher, A.writer[w].at = "idle",
         NEW a \in Artifacts, NEW s \in Said, s.n = A.published + 1,
         B \in Archives, B.content = [A.content EXCEPT ![a] = Unwritten],
         B.published = A.published + 1,
         B.writer = [A.writer EXCEPT ![w] = Underway(w, a, s, "prepare", FALSE)],
         B.journal = A.journal, B.markers = A.markers, B.unmarked = A.unmarked
  PROVE  IndexFollows(P, A, B, X)
<1>0. /\ A.content \in [Artifacts -> Cell] /\ A.published \in Nat
      /\ A.journal \in Seq(Artifacts) /\ A.markers \in SUBSET Mark
      /\ A.writer \in [Publisher -> Writing] /\ A.unmarked \in SUBSET Artifacts
      /\ \A r \in Reader : X.reader[r] \in Reading(P)
  BY IndexTyped
<1> DEFINE x == Underway(w, a, s, "prepare", FALSE)
<1>1. x.at = "prepare" /\ x.says = s
  BY DEF Underway
<1>2. B.published = A.published + 1 /\ B.writer = [A.writer EXCEPT ![w] = x]
  OBVIOUS
<1> HIDE DEF x
<1>3. Unwritten \in Cell /\ Unwritten.n = -1
  BY DEF Unwritten, Cell
<1>6. IndexShape(P, B, X)
  BY <1>0, <1>2, ShapeGrows
<1>7. /\ \A b \in Artifacts : A.content[b].n \in Int
      /\ \A b \in Artifacts : B.content[b] = A.content[b] \/ B.content[b] = Unwritten
  <2>1. \A b \in Artifacts : A.content[b].n \in Int
    BY <1>0 DEF Cell
  <2> HIDE DEF Unwritten
  <2>2. \A b \in Artifacts : B.content[b] = A.content[b] \/ B.content[b] = Unwritten
    BY <1>0, <1>2
  <2> QED BY <2>1, <2>2
<1>14. (\A v \in Publisher : v # w => B.writer[v] = A.writer[v]) /\ B.writer[w] = x
  BY <1>0, <1>2
<1>11. \A v \in Publisher : A.writer[v].at # "idle" =>
         A.writer[v].says.n \in Nat \ {0} /\ A.writer[v].says.n <= A.published
  BY <1>0, WritingTyped DEF Numbers
<1>12. s.n \in Nat \ {0} /\ s.n > A.published /\ s.n <= B.published /\ A.published <= B.published
  BY <1>0, <1>2 DEF Said
<1>13. \A b \in Artifacts : A.content[b].n <= A.published
  BY DEF Numbers
<1>8. \A r \in Reader : X.reader[r].at \in HasReady => \A m \in X.reader[r].ready : m.n \in Int
  BY <1>0, ReadingTyped DEF Mark
<1>9. Numbers(B, X)
  <2>1. \A b \in Artifacts : B.content[b].n <= B.published
    BY <1>0, <1>3, <1>7, <1>12, <1>13
  <2>2. \A v \in Publisher : B.writer[v].at # "idle" => B.writer[v].says.n <= B.published
    <3>1. \A v \in Publisher : v # w /\ A.writer[v].at # "idle" => A.writer[v].says.n <= B.published
      BY <1>0, <1>2, <1>11
    <3> QED BY <1>1, <1>12, <1>14, <3>1
  <2>3. \A v, u \in Publisher :
          B.writer[v].at # "idle" /\ B.writer[u].at # "idle" /\ v # u =>
            B.writer[v].says.n # B.writer[u].says.n
    <3>1. \A v, u \in Publisher :
            A.writer[v].at # "idle" /\ A.writer[u].at # "idle" /\ v # u =>
              A.writer[v].says.n # A.writer[u].says.n
      BY DEF Numbers
    <3>2. \A v \in Publisher : A.writer[v].at # "idle" => A.writer[v].says.n # s.n
      BY <1>0, <1>11, <1>12
    <3> SUFFICES ASSUME NEW v \in Publisher, NEW u \in Publisher, v # u,
                        B.writer[v].at # "idle", B.writer[u].at # "idle"
                 PROVE  B.writer[v].says.n # B.writer[u].says.n
      OBVIOUS
    <3>3. CASE v = w
      BY <1>1, <1>14, <3>2, <3>3
    <3>4. CASE u = w
      BY <1>1, <1>14, <3>2, <3>4
    <3>5. CASE v # w /\ u # w
      BY <1>14, <3>1, <3>5
    <3> QED BY <3>3, <3>4, <3>5
  <2>4. \A v \in Publisher : B.writer[v].at \in {"prepare", "write"} => Unused(B, X, B.writer[v].says.n)
    <3>1. Unused(B, X, s.n)
      <4>1. \A r \in Reader : X.reader[r].at \in HasReady =>
              \A m \in X.reader[r].ready : m.n <= A.published
        BY DEF Numbers
      <4>2. \A b \in Artifacts : B.content[b].n # s.n
        BY <1>0, <1>3, <1>7, <1>12, <1>13
      <4> QED BY <1>0, <1>8, <1>12, <4>1, <4>2 DEF Unused
    <3>2. \A v \in Publisher : v # w /\ A.writer[v].at \in {"prepare", "write"} =>
            Unused(A, X, A.writer[v].says.n) /\ A.writer[v].says.n # -1
      BY <1>11 DEF Numbers
    <3>3. ASSUME NEW n, Unused(A, X, n), n # -1 PROVE Unused(B, X, n)
      BY <1>3, <1>7, <3>3 DEF Unused
    <3>4. \A v \in Publisher : v # w /\ A.writer[v].at \in {"prepare", "write"} =>
            Unused(B, X, A.writer[v].says.n)
      BY <3>2, <3>3
    <3> QED BY <1>1, <1>14, <3>1, <3>4
  <2>5. \A r \in Reader : X.reader[r].at \in HasReady =>
          \A m \in X.reader[r].ready : m.n <= B.published
    BY <1>0, <1>2, <1>8 DEF Numbers
  <2>6. \A v \in Publisher : B.writer[v].at = "write" /\ B.writer[v].marked =>
          [file |-> B.writer[v].file, n |-> B.writer[v].says.n] \in B.markers
    BY <1>1, <1>2, <1>14 DEF Numbers
  <2> QED BY <2>1, <2>2, <2>3, <2>4, <2>5, <2>6 DEF Numbers
<1>10. Announces(A, B, X)
  <2> SUFFICES ASSUME NEW b \in Artifacts, NEW offset \in 0..Len(A.journal), NEW spent \in Spent(X),
                      Missed(A, X, b, offset, spent) \/ B.content[b] # A.content[b]
               PROVE  Missed(B, X, b, offset, spent)
    BY DEF Announces
  <2>1. CASE b = a
    BY <1>0, <1>2, <2>1 DEF Missed
  <2>2. CASE b # a
    <3>1. B.content[b] = A.content[b] /\ MarkOf(B, b) = MarkOf(A, b)
      BY <1>0, <1>2, <2>2 DEF MarkOf
    <3>2. Removed(B, X, b) => Removed(A, X, b)
      BY <1>1, <1>14, <3>1 DEF Removed
    <3> QED BY <1>2, <3>1, <3>2 DEF Missed, Ahead
  <2> QED BY <2>1, <2>2
<1> QED BY <1>6, <1>9, <1>10 DEF IndexFollows

\* Taking up the pen for the artifact: marked, if the marker could be written.
LEMMA PreparedFollows ==
  ASSUME NEW P, NEW A, NEW B, NEW X, IndexShape(P, A, X), Numbers(A, X),
         NEW w \in Publisher, NEW a \in Artifacts, NEW s \in Said, NEW marked \in BOOLEAN,
         \/ A.writer[w].at = "idle" /\ s.n = A.published + 1
         \/ A.writer[w].at = "prepare" /\ s = A.writer[w].says,
         B \in Archives, B.content = A.content, B.journal = A.journal, B.unmarked = A.unmarked,
         B.published = IF A.writer[w].at = "idle" THEN A.published + 1 ELSE A.published,
         B.writer = [A.writer EXCEPT ![w] = Underway(w, a, s, "write", marked)],
         A.markers \subseteq B.markers, marked => [file |-> a, n |-> s.n] \in B.markers
  PROVE  IndexFollows(P, A, B, X)
<1>0. /\ A.content \in [Artifacts -> Cell] /\ A.published \in Nat
      /\ A.journal \in Seq(Artifacts) /\ A.markers \in SUBSET Mark
      /\ A.writer \in [Publisher -> Writing] /\ A.unmarked \in SUBSET Artifacts
      /\ \A r \in Reader : X.reader[r] \in Reading(P)
  BY IndexTyped
<1> DEFINE x == Underway(w, a, s, "write", marked)
<1>1. /\ x.at = "write" /\ x.says = s /\ x.file = a /\ x.marked = marked
      /\ s.n \in Nat \ {0}
  BY DEF Underway, Said
<1> HIDE DEF x
<1>2. IndexShape(P, B, X)
  BY <1>0, ShapeGrows
<1>3. /\ \A b \in Artifacts : A.content[b].n \in Int
      /\ \A v \in Publisher : v # w => B.writer[v] = A.writer[v]
      /\ B.writer[w] = x
      /\ \A v \in Publisher : A.writer[v].at # "idle" => A.writer[v].says.n \in Nat \ {0}
  BY <1>0, WritingTyped DEF Cell, x
<1>4. \A r \in Reader : X.reader[r].at \in HasReady => \A m \in X.reader[r].ready : m.n \in Int
  BY <1>0, ReadingTyped DEF Mark
<1>5. A.published <= B.published /\ s.n <= B.published /\ B.published \in Nat
  BY <1>0, <1>1 DEF Numbers
<1>6. \A v \in Publisher : v # w /\ A.writer[v].at # "idle" => A.writer[v].says.n # s.n
  <2>1. \A v \in Publisher : A.writer[v].at # "idle" => A.writer[v].says.n <= A.published
    BY DEF Numbers
  <2>2. CASE A.writer[w].at = "idle" /\ s.n = A.published + 1
    BY <1>0, <1>3, <2>1, <2>2
  <2>3. CASE A.writer[w].at = "prepare" /\ s = A.writer[w].says
    BY <2>3 DEF Numbers
  <2> QED BY <2>2, <2>3
<1>7. Unused(A, X, s.n)
  <2>1. CASE A.writer[w].at = "idle" /\ s.n = A.published + 1
    <3>1. /\ \A b \in Artifacts : A.content[b].n <= A.published
          /\ \A r \in Reader : X.reader[r].at \in HasReady =>
               \A m \in X.reader[r].ready : m.n <= A.published
      BY DEF Numbers
    <3>2. \A b \in Artifacts : A.content[b].n # s.n
      BY <1>0, <1>3, <2>1, <3>1
    <3> QED BY <1>0, <1>4, <2>1, <3>1, <3>2 DEF Unused
  <2>2. CASE A.writer[w].at = "prepare" /\ s = A.writer[w].says
    BY <2>2 DEF Numbers
  <2> QED BY <2>1, <2>2
<1>8. Numbers(B, X)
  <2>1. \A b \in Artifacts : B.content[b].n <= B.published
    BY <1>0, <1>3, <1>5 DEF Numbers
  <2>2. \A v \in Publisher : B.writer[v].at # "idle" => B.writer[v].says.n <= B.published
    BY <1>0, <1>1, <1>3, <1>5 DEF Numbers
  <2>3. \A v, u \in Publisher :
          B.writer[v].at # "idle" /\ B.writer[u].at # "idle" /\ v # u =>
            B.writer[v].says.n # B.writer[u].says.n
    BY <1>1, <1>3, <1>6 DEF Numbers
  <2>4. \A v \in Publisher : B.writer[v].at \in {"prepare", "write"} => Unused(B, X, B.writer[v].says.n)
    <3>1. \A n : Unused(A, X, n) => Unused(B, X, n)
      BY DEF Unused
    <3>2. \A v \in Publisher : A.writer[v].at \in {"prepare", "write"} => Unused(A, X, A.writer[v].says.n)
      BY DEF Numbers
    <3> QED BY <1>1, <1>3, <1>7, <3>1, <3>2
  <2>5. \A r \in Reader : X.reader[r].at \in HasReady =>
          \A m \in X.reader[r].ready : m.n <= B.published
    BY <1>0, <1>4, <1>5 DEF Numbers
  <2>6. \A v \in Publisher : B.writer[v].at = "write" /\ B.writer[v].marked =>
          [file |-> B.writer[v].file, n |-> B.writer[v].says.n] \in B.markers
    BY <1>1, <1>3 DEF Numbers
  <2> QED BY <2>1, <2>2, <2>3, <2>4, <2>5, <2>6 DEF Numbers
<1>9. Announces(A, B, X)
  <2> SUFFICES ASSUME NEW b \in Artifacts, NEW offset \in 0..Len(A.journal), NEW spent \in Spent(X),
                      Missed(A, X, b, offset, spent) \/ B.content[b] # A.content[b]
               PROVE  Missed(B, X, b, offset, spent)
    BY DEF Announces
  <2>1. MarkOf(B, b) = MarkOf(A, b)
    BY DEF MarkOf
  <2>2. Removed(B, X, b) => Removed(A, X, b)
    BY <1>1, <1>3, <2>1 DEF Removed
  <2> QED BY <2>1, <2>2 DEF Missed, Ahead
<1> QED BY <1>2, <1>8, <1>9 DEF IndexFollows

\* A publisher that goes on to announce what it wrote, or rests.
MovesOn(A, B, w) ==
  /\ B \in Archives /\ B.published = A.published
  /\ \A v \in Publisher : v # w => B.writer[v] = A.writer[v]
  /\ A.writer[w].at # "idle"
  /\ \/ B.writer[w] = Resting
     \/ B.writer[w].at \in {"append", "clear"} /\ B.writer[w].says = A.writer[w].says
\* What changes holds what it was writing, and no marker of another one is lost.
Rewrites(A, B, w) ==
  /\ \A b \in Artifacts :
       \/ B.content[b].n = A.content[b].n
       \/ A.writer[w].at = "write" /\ B.content[b].n = A.writer[w].says.n
  /\ \A m \in A.markers \ B.markers : \A v \in Publisher \ {w} :
       A.writer[v].at = "write" => m.n # A.writer[v].says.n

LEMMA NumbersGoOn ==
  ASSUME NEW P, NEW A, NEW B, NEW X, IndexShape(P, A, X), Numbers(A, X),
         NEW w \in Publisher, MovesOn(A, B, w), Rewrites(A, B, w)
  PROVE  Numbers(B, X)
<1>1. /\ \A v \in Publisher : v # w => B.writer[v] = A.writer[v]
      /\ A.writer[w].at # "idle" /\ B.published = A.published
      /\ B.writer[w].at \notin {"prepare", "write"}
      /\ B.writer[w].at # "idle" => B.writer[w].says = A.writer[w].says
  BY DEF MovesOn, Resting
<1>2. \A b \in Artifacts : B.content[b].n <= B.published
  BY <1>1 DEF Numbers, Rewrites
<1>3. \A v \in Publisher : B.writer[v].at # "idle" => B.writer[v].says.n <= B.published
  BY <1>1 DEF Numbers
<1>4. ASSUME NEW v \in Publisher, NEW u \in Publisher, v # u,
             B.writer[v].at # "idle", B.writer[u].at # "idle"
      PROVE  B.writer[v].says.n # B.writer[u].says.n
  <2>1. /\ A.writer[v].at # "idle" /\ B.writer[v].says = A.writer[v].says
        /\ A.writer[u].at # "idle" /\ B.writer[u].says = A.writer[u].says
    BY <1>1, <1>4
  <2> QED BY <1>4, <2>1 DEF Numbers
<1>5. ASSUME NEW v \in Publisher, B.writer[v].at \in {"prepare", "write"}
      PROVE  Unused(B, X, B.writer[v].says.n)
  <2>1. v # w /\ B.writer[v] = A.writer[v]
    BY <1>1, <1>5
  <2>2. Unused(A, X, A.writer[v].says.n) /\ A.writer[v].says.n # A.writer[w].says.n
    BY <1>1, <1>5, <2>1 DEF Numbers
  <2> QED BY <2>1, <2>2 DEF Unused, Rewrites
<1>6. \A r \in Reader : X.reader[r].at \in HasReady =>
        \A m \in X.reader[r].ready : m.n <= B.published
  BY <1>1 DEF Numbers
<1>7. ASSUME NEW v \in Publisher, B.writer[v].at = "write", B.writer[v].marked
      PROVE  [file |-> B.writer[v].file, n |-> B.writer[v].says.n] \in B.markers
  <2>1. v # w /\ B.writer[v] = A.writer[v]
    BY <1>1, <1>7
  <2>2. [file |-> A.writer[v].file, n |-> A.writer[v].says.n] \in A.markers
    BY <1>7, <2>1 DEF Numbers
  <2> QED BY <1>7, <2>1, <2>2 DEF Rewrites
<1> QED BY <1>2, <1>3, <1>4, <1>5, <1>6, <1>7 DEF Numbers

LEMMA WriteFollows ==
  ASSUME NEW P, NEW A, NEW B, NEW X, IndexShape(P, A, X), Numbers(A, X),
         NEW w \in Publisher, A.writer[w].at = "write",
         B \in Archives, B.published = A.published, B.journal = A.journal, B.markers = A.markers,
         B.content = [A.content EXCEPT ![A.writer[w].file] = A.writer[w].says],
         B.writer = [A.writer EXCEPT ![w] = [A.writer[w] EXCEPT !.at = "append"]],
         B.unmarked = IF A.writer[w].marked THEN A.unmarked
                      ELSE A.unmarked \cup {A.writer[w].file}
  PROVE  IndexFollows(P, A, B, X)
<1>0. /\ A.content \in [Artifacts -> Cell] /\ A.published \in Nat
      /\ A.journal \in Seq(Artifacts) /\ A.markers \in SUBSET Mark
      /\ A.writer \in [Publisher -> Writing] /\ A.unmarked \in SUBSET Artifacts
      /\ \A r \in Reader : X.reader[r] \in Reading(P)
  BY IndexTyped
<1> DEFINE a == A.writer[w].file
           s == A.writer[w].says
           x == [A.writer[w] EXCEPT !.at = "append"]
<1>1. a \in Artifacts /\ s \in Cell /\ s.n \in Nat \ {0}
  BY <1>0, WritingTyped
<1>2. x.at = "append" /\ x.says = s
  BY <1>0 DEF Writing, Resting
<1>3. (\A v \in Publisher : v # w => B.writer[v] = A.writer[v]) /\ B.writer[w] = x
  <2> HIDE DEF x
  <2> QED BY <1>0 DEF x
<1>4. B.content[a] = s /\ \A b \in Artifacts : b # a => B.content[b] = A.content[b]
  <2> HIDE DEF s, a
  <2> QED BY <1>0, <1>1 DEF s, a
<1>5. IndexShape(P, B, X)
  BY <1>0, ShapeGrows
<1>6. MovesOn(A, B, w)
  BY <1>2, <1>3 DEF MovesOn
<1>7. Numbers(B, X)
  <2>1. Rewrites(A, B, w)
    BY <1>4 DEF Rewrites
  <2> HIDE DEF a, s, x
  <2> QED BY <1>6, <2>1, NumbersGoOn
<1>8. Announces(A, B, X)
  <2> SUFFICES ASSUME NEW b \in Artifacts, NEW offset \in 0..Len(A.journal), NEW spent \in Spent(X),
                      Missed(A, X, b, offset, spent) \/ B.content[b] # A.content[b]
               PROVE  Missed(B, X, b, offset, spent)
    BY DEF Announces
  <2>1. CASE b = a /\ ~A.writer[w].marked
    BY <2>1 DEF Missed
  <2>2. CASE b = a /\ A.writer[w].marked
    <3> DEFINE m == [file |-> a, n |-> s.n]
    <3>1. MarkOf(B, b) = m
      BY <1>4, <2>2 DEF MarkOf
    <3>2. m \in A.markers
      BY <2>2 DEF Numbers
    <3>3. Unused(A, X, s.n)
      BY DEF Numbers
    <3>4. \A r \in Reader : X.reader[r].at \in HasReady => m \notin X.reader[r].ready
      BY <3>3 DEF Unused
    <3>5. m \notin spent
      BY <3>4 DEF Spent
    <3>6. \A v \in Publisher : B.writer[v].at = "clear" => B.writer[v].says.n # s.n
      <4>1. \A v \in Publisher : v # w /\ A.writer[v].at # "idle" => A.writer[v].says.n # s.n
        BY DEF Numbers
      <4> HIDE DEF s, x
      <4> QED BY <1>2, <1>3, <4>1
    <3>7. ~Removed(B, X, b)
      <4> HIDE DEF m
      <4>1. ~ \E r \in Reader : X.reader[r].at = "clear" /\ m \in X.reader[r].ready
        BY <3>4 DEF HasReady
      <4>2. \A v \in Publisher : B.writer[v].at = "clear" =>
              [file |-> B.writer[v].file, n |-> B.writer[v].says.n] # m
        <5>1. m.n = s.n
          BY DEF m
        <5> HIDE DEF s, a, x
        <5> QED BY <3>6, <5>1
      <4> QED BY <3>1, <4>1, <4>2 DEF Removed
    <3> QED BY <3>1, <3>2, <3>5, <3>7 DEF Missed
  <2>3. CASE b # a
    <3>1. B.content[b] = A.content[b] /\ MarkOf(B, b) = MarkOf(A, b)
      BY <1>4, <2>3 DEF MarkOf
    <3>2. Removed(B, X, b) => Removed(A, X, b)
      <4> HIDE DEF x
      <4> QED BY <1>2, <1>3, <3>1 DEF Removed
    <3> QED BY <3>1, <3>2 DEF Missed, Ahead
  <2> QED BY <2>1, <2>2, <2>3
<1> QED BY <1>5, <1>7, <1>8 DEF IndexFollows

\* The journal names the artifact, whatever else is known of it.
LEMMA AppendFollows ==
  ASSUME NEW P, NEW A, NEW B, NEW X, IndexShape(P, A, X), Numbers(A, X),
         NEW w \in Publisher, A.writer[w].at = "append",
         B \in Archives, B.published = A.published, B.markers = A.markers,
         B.content = A.content, B.journal = Append(A.journal, A.writer[w].file),
         B.writer = [A.writer EXCEPT ![w] = [A.writer[w] EXCEPT !.at = "clear"]],
         B.unmarked = A.unmarked \ {A.writer[w].file}
  PROVE  IndexFollows(P, A, B, X)
<1>0. /\ A.content \in [Artifacts -> Cell] /\ A.published \in Nat
      /\ A.journal \in Seq(Artifacts) /\ Len(A.journal) \in Nat /\ A.markers \in SUBSET Mark
      /\ A.writer \in [Publisher -> Writing] /\ A.unmarked \in SUBSET Artifacts
  BY IndexTyped
<1> DEFINE a == A.writer[w].file
           x == [A.writer[w] EXCEPT !.at = "clear"]
<1>1. a \in Artifacts
  BY <1>0, WritingTyped
<1>2. x.at = "clear" /\ x.says = A.writer[w].says /\ x.file = a
  BY <1>0 DEF Writing, Resting
<1>3. (\A v \in Publisher : v # w => B.writer[v] = A.writer[v]) /\ B.writer[w] = x
  <2> HIDE DEF x
  <2> QED BY <1>0 DEF x
<1>4. /\ Len(B.journal) = Len(A.journal) + 1 /\ B.journal[Len(A.journal) + 1] = a
      /\ \A i \in 1..Len(A.journal) : B.journal[i] = A.journal[i]
  BY <1>0, <1>1
<1>5. IndexShape(P, B, X)
  BY <1>0, <1>4, ShapeGrows
<1>6. MovesOn(A, B, w)
  BY <1>2, <1>3 DEF MovesOn
<1>7. Numbers(B, X)
  <2>1. Rewrites(A, B, w)
    BY DEF Rewrites
  <2> QED BY <1>6, <2>1, NumbersGoOn
<1>8. Announces(A, B, X)
  <2> SUFFICES ASSUME NEW b \in Artifacts, NEW offset \in 0..Len(A.journal), NEW spent \in Spent(X),
                      Missed(A, X, b, offset, spent)
               PROVE  Missed(B, X, b, offset, spent)
    BY DEF Announces
  <2>1. CASE b = a
    <3>1. Len(A.journal) + 1 \in (offset + 1)..Len(B.journal)
      BY <1>0, <1>4
    <3> QED BY <1>4, <2>1, <3>1 DEF Missed, Ahead
  <2>2. CASE b # a
    <3>1. MarkOf(B, b) = MarkOf(A, b)
      BY DEF MarkOf
    <3>2. Removed(B, X, b) => Removed(A, X, b)
      <4>1. MarkOf(A, b).file # x.file
        BY <1>2, <2>2 DEF MarkOf
      <4> HIDE DEF x
      <4> QED BY <1>2, <1>3, <3>1, <4>1 DEF Removed
    <3>3. Ahead(A, b, offset) => Ahead(B, b, offset)
      <4> HIDE DEF a
      <4>1. \A i \in (offset + 1)..Len(A.journal) :
              i \in (offset + 1)..Len(B.journal) /\ i \in 1..Len(A.journal)
        BY <1>0, <1>4
      <4> QED BY <1>4, <4>1 DEF Ahead
    <3> QED BY <2>2, <3>1, <3>2, <3>3 DEF Missed
  <2> QED BY <2>1, <2>2
<1> QED BY <1>5, <1>7, <1>8 DEF IndexFollows

\* A publisher stops, with or without its marker: nothing else depends on a marker of one
\* that has written to the journal.
LEMMA RestFollows ==
  ASSUME NEW P, NEW A, NEW B, NEW X, IndexShape(P, A, X), Numbers(A, X),
         NEW w \in Publisher, A.writer[w].at # "idle",
         B \in Archives, B.published = A.published, B.content = A.content,
         B.journal = A.journal, B.unmarked = A.unmarked,
         B.writer = [A.writer EXCEPT ![w] = Resting],
         \/ B.markers = A.markers
         \/ /\ A.writer[w].at = "clear"
            /\ B.markers = A.markers \ {[file |-> A.writer[w].file, n |-> A.writer[w].says.n]}
  PROVE  IndexFollows(P, A, B, X)
<1>0. /\ A.content \in [Artifacts -> Cell] /\ A.published \in Nat
      /\ A.journal \in Seq(Artifacts) /\ Len(A.journal) \in Nat /\ A.markers \in SUBSET Mark
      /\ A.writer \in [Publisher -> Writing] /\ A.unmarked \in SUBSET Artifacts
  BY IndexTyped
<1> DEFINE m == [file |-> A.writer[w].file, n |-> A.writer[w].says.n]
<1>1. (\A v \in Publisher : v # w => B.writer[v] = A.writer[v]) /\ B.writer[w] = Resting
  BY <1>0
<1>2. IndexShape(P, B, X)
  BY <1>0, ShapeGrows
<1>3. MovesOn(A, B, w)
  BY <1>1 DEF MovesOn
<1>4. Numbers(B, X)
  <2>1. \A v \in Publisher \ {w} : A.writer[v].at = "write" => A.writer[w].says.n # A.writer[v].says.n
    BY DEF Numbers
  <2>2. Rewrites(A, B, w)
    BY <2>1 DEF Rewrites
  <2> QED BY <1>3, <2>2, NumbersGoOn
<1>5. Announces(A, B, X)
  <2> SUFFICES ASSUME NEW b \in Artifacts, NEW offset \in 0..Len(A.journal), NEW spent \in Spent(X),
                      Missed(A, X, b, offset, spent)
               PROVE  Missed(B, X, b, offset, spent)
    BY DEF Announces
  <2>1. MarkOf(B, b) = MarkOf(A, b)
    BY DEF MarkOf
  <2>2. Removed(B, X, b) => Removed(A, X, b)
    BY <1>1, <2>1 DEF Removed, Resting
  <2>3. MarkOf(A, b) \in A.markers /\ ~Removed(A, X, b) => MarkOf(A, b) \in B.markers
    BY DEF Removed
  <2> QED BY <2>1, <2>2, <2>3 DEF Missed, Ahead
<1> QED BY <1>2, <1>4, <1>5 DEF IndexFollows

-----------------------------------------------------------------------------
(***************************************************************************)
(* What readers do to the index.                                           *)
(***************************************************************************)
ReadyOf(A) == {m \in A.markers : A.content[m.file].n = m.n}

\* A reader r goes from p to q.
IndexTurns(P, A, X, Y, r, q) ==
  /\ Y \in IndexFiles(P) /\ q \in Reading(P) /\ Y.reader = [X.reader EXCEPT ![r] = q]
  /\ Y.tables.offset <= Len(A.journal)
  /\ q.at \in InTransaction =>
       \/ X.reader[r].at \in InTransaction
       \/ \A v \in Reader : X.reader[v].at \notin InTransaction
  /\ q.at \in {"scan", "journal", "refresh"} => q.tables.offset <= Len(A.journal)
  /\ q.at \in {"journal", "refresh"} => q.tables.booted
  /\ q.at \in HasReady =>
       \/ X.reader[r].at \in HasReady /\ q.ready = X.reader[r].ready
       \/ q.ready \subseteq ReadyOf(A)

LEMMA ReadersTurn ==
  ASSUME NEW P, NEW A, NEW X, NEW Y, IndexShape(P, A, X), NEW r \in Reader, NEW q,
         IndexTurns(P, A, X, Y, r, q)
  PROVE  Y.reader[r] = q /\ \A v \in Reader : v # r => Y.reader[v] = X.reader[v]
BY IndexTyped DEF IndexTurns

LEMMA ShapeTurns ==
  ASSUME NEW P, NEW A, NEW X, NEW Y, IndexShape(P, A, X), Numbers(A, X),
         NEW r \in Reader, NEW q, IndexTurns(P, A, X, Y, r, q)
  PROVE  IndexShape(P, A, Y) /\ Numbers(A, Y)
<1>1. /\ Y.reader[r] = q /\ \A v \in Reader : v # r => Y.reader[v] = X.reader[v]
  BY ReadersTurn
<1>2. IndexShape(P, A, Y)
  <2>1. \A v, u \in Reader :
          Y.reader[v].at \in InTransaction /\ Y.reader[u].at \in InTransaction => v = u
    <3>1. \A v, u \in Reader :
            X.reader[v].at \in InTransaction /\ X.reader[u].at \in InTransaction => v = u
      BY DEF IndexShape
    <3>2. q.at \in InTransaction =>
            \/ X.reader[r].at \in InTransaction
            \/ \A v \in Reader : X.reader[v].at \notin InTransaction
      BY DEF IndexTurns
    <3> QED BY <1>1, <3>1, <3>2
  <2>2. \A v \in Reader : Y.reader[v].at \in {"scan", "journal", "refresh"} =>
          Y.reader[v].tables.offset <= Len(A.journal)
    BY <1>1 DEF IndexShape, IndexTurns
  <2>3. \A v \in Reader : Y.reader[v].at \in {"journal", "refresh"} => Y.reader[v].tables.booted
    BY <1>1 DEF IndexShape, IndexTurns
  <2> QED BY <2>1, <2>2, <2>3 DEF IndexShape, IndexTurns
<1>3. /\ A.content \in [Artifacts -> Cell] /\ A.published \in Nat /\ A.markers \in SUBSET Mark
  BY IndexTyped
<1>4. \A m \in ReadyOf(A) : m.file \in Artifacts /\ m.n = A.content[m.file].n
  BY <1>3 DEF ReadyOf, Mark
<1>5. \A m \in ReadyOf(A) : m.n <= A.published
  BY <1>4 DEF Numbers
<1>6. \A n : Unused(A, X, n) => Unused(A, Y, n)
  <2> SUFFICES ASSUME NEW n, Unused(A, X, n) PROVE Unused(A, Y, n)
    OBVIOUS
  <2>1. q.at \in HasReady => \A m \in q.ready : m.n # n
    BY <1>4 DEF IndexTurns, Unused
  <2> QED BY <1>1, <2>1 DEF Unused
<1>7. \A v \in Reader : Y.reader[v].at \in HasReady => \A m \in Y.reader[v].ready : m.n <= A.published
  <2>1. q.at \in HasReady => \A m \in q.ready : m.n <= A.published
    BY <1>5 DEF IndexTurns, Numbers
  <2> QED BY <1>1, <2>1 DEF Numbers
<1>8. Numbers(A, Y)
  BY <1>6, <1>7 DEF Numbers
<1> QED BY <1>2, <1>8

\* A turn that removes nothing keeps what is missed.
LEMMA MissedTurns ==
  ASSUME NEW P, NEW A, NEW X, NEW Y, IndexShape(P, A, X), NEW r \in Reader, NEW q,
         IndexTurns(P, A, X, Y, r, q), q.at # "clear"
  PROVE  \A a, offset, spent : Missed(A, X, a, offset, spent) => Missed(A, Y, a, offset, spent)
<1>1. /\ Y.reader[r] = q /\ \A v \in Reader : v # r => Y.reader[v] = X.reader[v]
  BY ReadersTurn
<1>2. \A a : Removed(A, Y, a) => Removed(A, X, a)
  BY <1>1 DEF Removed
<1> QED BY <1>2 DEF Missed

RowsSound(A, X, p) ==
  p.at \in {"journal", "refresh"} =>
    \A t \in Tasks :
      \/ p.at = "refresh" /\ t \in p.outdated
      \/ RowSound(A, X, t, p.tables.rows[t], p.tables.offset, p.ready)

LEMMA SummariesTurn ==
  ASSUME NEW P, NEW A, NEW X, NEW Y, IndexShape(P, A, X), NEW r \in Reader, NEW q,
         IndexTurns(P, A, X, Y, r, q), q.at # "clear", SummariesHold(A, X),
         Y.tables = X.tables \/ ~Y.tables.booted, RowsSound(A, X, q)
  PROVE  SummariesHold(A, Y)
<1>1. /\ Y.reader[r] = q /\ \A v \in Reader : v # r => Y.reader[v] = X.reader[v]
  BY ReadersTurn
<1>2. \A t, row, offset, spent :
        RowSound(A, X, t, row, offset, spent) => RowSound(A, Y, t, row, offset, spent)
  BY MissedTurns DEF RowSound
<1>3. Y.tables.booted => \A t \in Tasks : RowSound(A, Y, t, Y.tables.rows[t], Y.tables.offset, {})
  BY <1>2 DEF SummariesHold
<1>4. \A v \in Reader : RowsSound(A, X, Y.reader[v])
  BY <1>1 DEF SummariesHold, RowsSound
<1>5. \A v \in Reader : RowsSound(A, Y, Y.reader[v])
  BY <1>2, <1>4 DEF RowsSound
<1> QED BY <1>3, <1>5 DEF SummariesHold, RowsSound

\* The commit: what was read is what is announced, or is announced still.
LEMMA CommitHolds ==
  ASSUME NEW P, NEW A, NEW X, NEW Y, IndexShape(P, A, X), NEW r \in Reader, NEW q,
         IndexTurns(P, A, X, Y, r, q), q.at = "clear", SummariesHold(A, X),
         X.reader[r].at = "refresh", q.ready = X.reader[r].ready,
         Y.tables.offset = X.reader[r].tables.offset,
         \A t \in Tasks : Y.tables.rows[t] =
           IF t \in X.reader[r].outdated THEN SummaryOf(A, t) ELSE X.reader[r].tables.rows[t]
  PROVE  SummariesHold(A, Y)
<1>1. /\ Y.reader[r] = q /\ \A v \in Reader : v # r => Y.reader[v] = X.reader[v]
  BY ReadersTurn
<1>2. \A v \in Reader : Y.reader[v].at \notin {"journal", "refresh"}
  BY <1>1 DEF IndexShape, InTransaction
<1>3. \A a, offset : Missed(A, X, a, offset, q.ready) => Missed(A, Y, a, offset, {})
  <2>1. \A a : Removed(A, Y, a) => Removed(A, X, a) \/ MarkOf(A, a) \in q.ready
    BY <1>1 DEF Removed
  <2> QED BY <2>1 DEF Missed
<1>4. ASSUME NEW t \in Tasks
      PROVE  RowSound(A, Y, t, Y.tables.rows[t], Y.tables.offset, {})
  <2>1. CASE t \in X.reader[r].outdated
    BY <2>1 DEF RowSound
  <2>2. CASE t \notin X.reader[r].outdated
    <3>1. RowSound(A, X, t, X.reader[r].tables.rows[t], X.reader[r].tables.offset, q.ready)
      BY <2>2 DEF SummariesHold
    <3> QED BY <1>3, <2>2, <3>1 DEF RowSound
  <2> QED BY <2>1, <2>2
<1> QED BY <1>2, <1>4 DEF SummariesHold

\* Markers found ready are removed: nothing relies on them any more.
LEMMA ClearedKeeps ==
  ASSUME NEW P, NEW A, NEW B, NEW X, NEW Y, IndexShape(P, A, X), Numbers(A, X),
         NEW r \in Reader, NEW q, IndexTurns(P, A, X, Y, r, q), q.at \notin InTransaction, q.at # "clear",
         X.reader[r].at = "clear",
         B \in Archives, B.content = A.content, B.published = A.published, B.journal = A.journal,
         B.writer = A.writer, B.unmarked = A.unmarked,
         B.markers = A.markers \ X.reader[r].ready
  PROVE  /\ IndexShape(P, B, Y) /\ Numbers(B, Y)
         /\ \A a, offset, spent : Missed(A, X, a, offset, spent) => Missed(B, Y, a, offset, spent)
<1>1. /\ Y.reader[r] = q /\ \A v \in Reader : v # r => Y.reader[v] = X.reader[v]
  BY ReadersTurn
<1>2. IndexShape(P, A, Y) /\ Numbers(A, Y)
  BY ShapeTurns
<1>4. Len(A.journal) <= Len(B.journal)
  BY IndexTyped
<1>5. IndexShape(P, B, Y)
  BY <1>2, <1>4, ShapeGrows
<1>6. \A w \in Publisher : A.writer[w].at = "write" /\ A.writer[w].marked =>
        [file |-> A.writer[w].file, n |-> A.writer[w].says.n] \notin X.reader[r].ready
  BY DEF Numbers, Unused, HasReady
<1>7. Numbers(B, Y)
  <2>1. \A n : Unused(A, Y, n) => Unused(B, Y, n)
    BY DEF Unused
  <2>2. \A w \in Publisher : B.writer[w].at = "write" /\ B.writer[w].marked =>
          [file |-> B.writer[w].file, n |-> B.writer[w].says.n] \in B.markers
    BY <1>2, <1>6 DEF Numbers
  <2> QED BY <1>2, <2>1, <2>2 DEF Numbers
<1>8. ASSUME NEW a, NEW offset, NEW spent, Missed(A, X, a, offset, spent)
      PROVE  Missed(B, Y, a, offset, spent)
  <2>1. MarkOf(B, a) = MarkOf(A, a)
    BY DEF MarkOf
  <2>2. Removed(B, Y, a) => Removed(A, X, a)
    BY <1>1, <2>1 DEF Removed
  <2>3. ~Removed(A, X, a) => MarkOf(A, a) \notin X.reader[r].ready
    BY DEF Removed
  <2> QED BY <1>8, <2>1, <2>2, <2>3 DEF Missed, Ahead
<1> QED BY <1>5, <1>7, <1>8

-----------------------------------------------------------------------------
(***************************************************************************)
(* The candidate index and its pages.                                      *)
(***************************************************************************)
LEMMA LeastNat ==
  ASSUME NEW T \in SUBSET Nat, T # {}
  PROVE  \E n \in T : \A m \in T : n <= m
<1>1. PICK n \in T : \A m \in T : ~ (<<m, n>> \in OpToRel(<, Nat))
  BY NatLessThanWellFounded, WFMin
<1>2. \A m \in T : ~ (m < n)
  BY <1>1, Zenon DEF OpToRel
<1>3. \A m \in T : n <= m
  BY <1>2
<1> QED BY <1>3

LEMMA MaxOf ==
  ASSUME NEW S \in SUBSET Nat, S # {}, NEW bound \in Nat, \A n \in S : n <= bound
  PROVE  Max(S) \in S /\ \A n \in S : Max(S) >= n
<1> DEFINE T == {bound - n : n \in S}
<1>1. T \in SUBSET Nat /\ T # {}
  <2>1. \A n \in S : bound - n \in Nat
    <3> SUFFICES ASSUME NEW n \in S PROVE bound - n \in Nat
      OBVIOUS
    <3>1. n <= bound /\ n \in Nat
      OBVIOUS
    <3> QED BY <3>1
  <2> QED BY <2>1
<1>2. PICK m \in T : \A n \in T : m <= n
  <2> HIDE DEF T
  <2> QED BY <1>1, LeastNat
<1>3. PICK x \in S : m = bound - x
  OBVIOUS
<1>4. \A y \in S : bound - x <= bound - y
  BY <1>2, <1>3
<1>5. \A y \in S : x >= y
  <2> SUFFICES ASSUME NEW y \in S PROVE x >= y
    OBVIOUS
  <2>1. bound - x <= bound - y /\ x \in Nat /\ y \in Nat
    BY <1>4
  <2> QED BY <2>1
<1> QED BY <1>5 DEF Max

LEMMA ArtifactsFinite ==
  /\ Len(Artifact) \in Nat /\ DOMAIN Artifact = 1..Len(Artifact) /\ IsFiniteSet(DOMAIN Artifact)
  /\ IsFiniteSet(Artifacts) /\ \A i \in DOMAIN Artifact : Artifact[i] \in Artifacts
  /\ \A a \in Artifacts : \E i \in DOMAIN Artifact : Artifact[i] = a
<1>1. Artifact \in Seq(ToSet(Artifact))
  BY IndexConstants
<1>2. Len(Artifact) \in Nat /\ DOMAIN Artifact = 1..Len(Artifact)
  BY <1>1
<1>3. IsFiniteSet(DOMAIN Artifact)
  BY <1>2, FS_Interval
<1>4. Artifacts = {Artifact[i] : i \in DOMAIN Artifact}
  BY DEF Artifacts, ToSet
<1>5. Artifact \in [DOMAIN Artifact -> Artifacts]
  BY <1>1, <1>2 DEF Artifacts
<1>6. ExistsSurjection(1..Len(Artifact), Artifacts)
  BY <1>2, <1>4, <1>5 DEF ExistsSurjection, Surjection
<1>7. IsFiniteSet(Artifacts)
  BY <1>2, <1>6, FS_NatSurjection
<1> QED BY <1>2, <1>3, <1>4, <1>7

LEMMA RefreshEffect ==
  ASSUME NEW P, NEW X, IndexShape(P, archive, X), NEW T \in Tables, T.offset <= Len(archive.journal),
         \A a \in Artifacts : T.sequence[a] <= T.last
  PROVE  LET U == RefreshedCandidates(T)
         IN /\ U \in Tables /\ U.booted /\ U.offset = Len(archive.journal) /\ T.last <= U.last
            /\ \A a \in Artifacts :
                 /\ U.sequence[a] <= U.last
                 /\ \/ U.sequence[a] > T.last
                    \/ /\ U.sequence[a] = T.sequence[a] /\ ~Ahead(archive, a, T.offset)
                       /\ ~T.booted /\ T.sequence[a] = 0 => archive.content[a] = Absent
<1> DEFINE New(a) == T.sequence[a] = 0 /\ archive.content[a] # Absent
           scanned == IF T.booted THEN {} ELSE {i \in DOMAIN Artifact : New(Artifact[i])}
           read == (T.offset + 1)..Len(archive.journal)
           first(a) == {T.last + Cardinality({j \in scanned : j <= i}) :
                          i \in {j \in scanned : Artifact[j] = a}}
           later(a) == {T.last + Cardinality(scanned) + (i - T.offset) :
                          i \in {j \in read : archive.journal[j] = a}}
           given(a) == first(a) \cup later(a)
           last == T.last + Cardinality(scanned) + (Len(archive.journal) - T.offset)
           sequence == [a \in Artifacts |-> IF given(a) = {} THEN T.sequence[a] ELSE Max(given(a))]
           U == RefreshedCandidates(T)
<1>1. U = [T EXCEPT !.booted = TRUE, !.offset = Len(archive.journal), !.last = last,
                    !.sequence = sequence]
  BY Zenon DEF RefreshedCandidates
<1>2. /\ T.last \in Nat /\ T.offset \in Nat /\ Len(archive.journal) \in Nat
      /\ T.sequence \in [Artifacts -> Nat]
  BY IndexTyped DEF Tables
<1>3. IsFiniteSet(scanned) /\ scanned \subseteq DOMAIN Artifact
  BY ArtifactsFinite, FS_Subset, FS_EmptySet
<1> HIDE DEF scanned
<1>4. Cardinality(scanned) \in Nat
  BY <1>3, FS_CardinalityType
<1>5. last \in Nat /\ T.last <= last
  BY <1>2, <1>4
<1>6. ASSUME NEW i \in scanned
      PROVE  LET n == T.last + Cardinality({j \in scanned : j <= i})
             IN n \in Nat /\ n > T.last /\ n <= last
  <2> DEFINE s == {j \in scanned : j <= i}
  <2>1. IsFiniteSet(s) /\ Cardinality(s) <= Cardinality(scanned) /\ Cardinality(s) \in Nat
    BY <1>3, FS_Subset, FS_CardinalityType
  <2>2. i \in s
    BY <1>3, ArtifactsFinite
  <2> HIDE DEF s
  <2>3. Cardinality(s) # 0
    BY <2>1, <2>2, FS_EmptySet
  <2>4. /\ T.last + Cardinality(s) \in Nat /\ T.last + Cardinality(s) > T.last
        /\ T.last + Cardinality(s) <= last
    BY <1>2, <1>4, <2>1, <2>3
  <2> QED BY <2>4 DEF s
<1>7. ASSUME NEW i \in read
      PROVE  LET n == T.last + Cardinality(scanned) + (i - T.offset)
             IN n \in Nat /\ n > T.last /\ n <= last
  <2> DEFINE step == i - T.offset
  <2>1. step \in Nat \ {0} /\ step <= Len(archive.journal) - T.offset
    BY <1>2
  <2> HIDE DEF step
  <2>2. /\ T.last + Cardinality(scanned) + step \in Nat
        /\ T.last + Cardinality(scanned) + step > T.last
        /\ T.last + Cardinality(scanned) + step <= last
    BY <1>2, <1>4, <2>1
  <2> QED BY <2>2 DEF step
<1> HIDE DEF read, last
<1>8. ASSUME NEW a \in Artifacts
      PROVE  given(a) \in SUBSET Nat /\ \A n \in given(a) : n > T.last /\ n <= last
  BY <1>6, <1>7
<1>9. ASSUME NEW a \in Artifacts
      PROVE  /\ sequence[a] \in Nat /\ sequence[a] <= last
             /\ given(a) # {} => sequence[a] > T.last
             /\ given(a) = {} => sequence[a] = T.sequence[a]
  <2>0. sequence[a] = IF given(a) = {} THEN T.sequence[a] ELSE Max(given(a))
    OBVIOUS
  <2>1. CASE given(a) = {}
    <3>1. T.sequence[a] <= T.last /\ T.sequence[a] \in Nat
      BY <1>2
    <3>2. sequence[a] = T.sequence[a]
      BY <2>0, <2>1
    <3> HIDE DEF given, sequence
    <3> QED BY <1>2, <1>5, <2>1, <3>1, <3>2
  <2>2. CASE given(a) # {}
    <3>1. Max(given(a)) \in given(a)
      <4> HIDE DEF given
      <4> QED BY <1>5, <1>8, <2>2, MaxOf
    <3> HIDE DEF given
    <3> QED BY <1>8, <2>2, <3>1
  <2> QED BY <2>1, <2>2
<1>10. ASSUME NEW a \in Artifacts, given(a) = {}
       PROVE  /\ ~Ahead(archive, a, T.offset)
              /\ ~T.booted /\ T.sequence[a] = 0 => archive.content[a] = Absent
  <2>1. ~ \E i \in read : archive.journal[i] = a
    BY <1>10
  <2>2. ~ \E i \in scanned : Artifact[i] = a
    BY <1>10
  <2>3. ~Ahead(archive, a, T.offset)
    BY <2>1 DEF Ahead, read
  <2>4. ASSUME ~T.booted, T.sequence[a] = 0 PROVE archive.content[a] = Absent
    <3>1. PICK i \in DOMAIN Artifact : Artifact[i] = a
      BY ArtifactsFinite
    <3> QED BY <2>2, <2>4, <3>1 DEF scanned
  <2> QED BY <2>3, <2>4
<1>11. sequence \in [Artifacts -> Nat]
  BY <1>9
<1> HIDE DEF sequence, given
<1>12. /\ U \in Tables /\ U.booted /\ U.offset = Len(archive.journal) /\ U.last = last
       /\ U.sequence = sequence
  BY <1>1, <1>2, <1>5, <1>11 DEF Tables
<1> HIDE DEF U
<1>13. \A a \in Artifacts :
         /\ U.sequence[a] <= U.last
         /\ \/ U.sequence[a] > T.last
            \/ /\ U.sequence[a] = T.sequence[a] /\ ~Ahead(archive, a, T.offset)
               /\ ~T.booted /\ T.sequence[a] = 0 => archive.content[a] = Absent
  BY <1>9, <1>10, <1>12
<1> QED BY <1>5, <1>12, <1>13 DEF U

LEMMA PageEffect ==
  ASSUME NEW T \in Tables, NEW c \in Nat, c <= T.last, \A a \in Artifacts : T.sequence[a] <= T.last
  PROVE  LET page == CandidatePage(T, c)
         IN /\ page.files \in SUBSET Artifacts /\ page.next \in Nat /\ page.next <= T.last
            /\ \A a \in Artifacts : T.sequence[a] > c =>
                 a \in page.files \/ T.sequence[a] > page.next
<1> DEFINE Numbered == {0} \cup {T.sequence[a] : a \in Artifacts}
           Highest == Max(Numbered)
           from == IF c > Highest THEN 0 ELSE c
           rows == {a \in Artifacts : T.sequence[a] > from}
           before(a) == {b \in rows : T.sequence[b] < T.sequence[a]}
           selected == {a \in rows : Cardinality(before(a)) < Maximum}
           chosen == {T.sequence[a] : a \in selected}
           next == IF selected # rows THEN Max(chosen) ELSE Max({from, Highest})
           page == CandidatePage(T, c)
<1>1. page = [files |-> selected, next |-> next]
  BY DEF CandidatePage
<1>2. T.last \in Nat /\ T.sequence \in [Artifacts -> Nat]
  BY DEF Tables
<1>3. Numbered \in SUBSET Nat /\ Numbered # {} /\ \A n \in Numbered : n <= T.last
  BY <1>2
<1>4. /\ Highest \in Nat /\ Highest <= T.last /\ \A a \in Artifacts : T.sequence[a] <= Highest
  <2>1. Highest \in Numbered /\ \A n \in Numbered : Highest >= n
    <3> HIDE DEF Numbered
    <3> QED BY <1>2, <1>3, MaxOf
  <2>2. \A a \in Artifacts : T.sequence[a] \in Numbered /\ T.sequence[a] \in Nat
    BY <1>2
  <2>3. Highest \in Nat
    BY <1>3, <2>1
  <2>4. \A n \in Numbered : n <= Highest
    BY <1>3, <2>1, <2>3
  <2> HIDE DEF Highest
  <2> QED BY <1>3, <2>1, <2>2, <2>3, <2>4
<1> HIDE DEF Highest
<1>5. from \in Nat /\ from <= T.last /\ from <= c
  BY <1>2, <1>4
<1> HIDE DEF from
<1>6. IsFiniteSet(rows)
  BY ArtifactsFinite, FS_Subset
<1>7. \A a \in rows : IsFiniteSet(before(a)) /\ Cardinality(before(a)) \in Nat
  <2> HIDE DEF rows
  <2> QED BY <1>6, FS_Subset, FS_CardinalityType
<1>8. ASSUME NEW a \in rows, NEW b \in selected, T.sequence[a] <= T.sequence[b]
      PROVE  a \in selected
  <2>1. before(a) \subseteq before(b)
    BY <1>2, <1>8
  <2>2. Cardinality(before(a)) <= Cardinality(before(b))
    <3> HIDE DEF before
    <3> QED BY <1>7, <2>1, FS_Subset
  <2>3. Cardinality(before(b)) < Maximum /\ Maximum \in Nat
    BY IndexConstants
  <2>4. Cardinality(before(a)) \in Nat /\ Cardinality(before(b)) \in Nat
    BY <1>7
  <2>5. Cardinality(before(a)) < Maximum
    <3> HIDE DEF before, rows
    <3> QED BY <2>2, <2>3, <2>4
  <2> QED BY <2>5
<1>9. rows # {} => selected # {}
  <2> SUFFICES ASSUME rows # {} PROVE selected # {}
    OBVIOUS
  <2> DEFINE S == {T.sequence[a] : a \in rows}
  <2>1. S \in SUBSET Nat /\ S # {}
    BY <1>2
  <2>2. PICK n \in S : \A m \in S : n <= m
    <3> HIDE DEF S
    <3> QED BY <2>1, LeastNat
  <2>3. PICK a \in rows : n = T.sequence[a]
    OBVIOUS
  <2>4. before(a) = {}
    <3>1. \A b \in rows : T.sequence[a] <= T.sequence[b] /\ T.sequence[a] \in Nat /\ T.sequence[b] \in Nat
      BY <1>2, <2>2, <2>3
    <3> QED BY <3>1
  <2>5. Cardinality(before(a)) = 0
    BY <2>4, FS_EmptySet
  <2>6. a \in selected
    BY <2>5, IndexConstants
  <2> QED BY <2>6
<1>10. chosen \in SUBSET Nat /\ \A n \in chosen : n <= T.last
  BY <1>2
<1>11. ASSUME selected # rows
       PROVE  Max(chosen) \in chosen
  <2>1. chosen # {}
    BY <1>9, <1>11
  <2> HIDE DEF chosen
  <2> QED BY <1>2, <1>10, <2>1, MaxOf
<1>12. Max({from, Highest}) \in {from, Highest}
  <2>1. {from, Highest} \in SUBSET Nat /\ {from, Highest} # {} /\ \A n \in {from, Highest} : n <= T.last
    BY <1>4, <1>5
  <2> QED BY <1>2, <2>1, MaxOf
<1>13. next \in Nat /\ next <= T.last
  <2>1. CASE selected # rows
    <3>1. next = Max(chosen)
      BY <2>1
    <3> HIDE DEF next, chosen, selected, rows
    <3> QED BY <1>10, <1>11, <2>1, <3>1
  <2>2. CASE selected = rows
    <3>1. next = Max({from, Highest})
      BY <2>2
    <3> HIDE DEF next
    <3> QED BY <1>4, <1>5, <1>12, <3>1
  <2> QED BY <2>1, <2>2
<1>14. ASSUME NEW a \in Artifacts, T.sequence[a] > c, a \notin selected
       PROVE  T.sequence[a] > next
  <2>1. a \in rows
    BY <1>2, <1>5, <1>14
  <2>2. selected # rows /\ next = Max(chosen)
    BY <1>14, <2>1
  <2>3. PICK b \in selected : next = T.sequence[b]
    <3> HIDE DEF next
    <3> QED BY <1>11, <2>2
  <2>4. ~(T.sequence[a] <= T.sequence[b])
    <3> HIDE DEF selected, rows
    <3> QED BY <1>8, <1>14, <2>1
  <2> HIDE DEF next
  <2>5. b \in Artifacts
    OBVIOUS
  <2> QED BY <1>2, <2>3, <2>4, <2>5
<1> HIDE DEF selected, next
<1>15. page.files = selected /\ page.next = next
  BY <1>1
<1>16. selected \in SUBSET Artifacts
  BY DEF selected
<1> QED BY <1>13, <1>14, <1>15, <1>16 DEF page

LEMMA TablesTyped ==
  /\ Absent \in Cell /\ Unwritten \in Cell /\ EmptyTables \in Tables
  /\ \A T \in Tables : /\ T.booted \in BOOLEAN /\ T.offset \in Nat /\ T.last \in Nat
                       /\ T.rows \in [Tasks -> RowValue] /\ T.sequence \in [Artifacts -> Nat]
  /\ ~EmptyTables.booted /\ EmptyTables.offset = 0
  /\ \A a \in Artifacts : EmptyTables.sequence[a] = 0
<1>1. Absent \in Cell /\ Unwritten \in Cell
  BY DEF Absent, Unwritten, Cell
<1>2. EmptyTables \in Tables
  BY DEF EmptyTables, Tables, RowValue
<1> QED BY <1>1, <1>2 DEF EmptyTables, Tables

\* Whoever finds what was missed finds what a cursor passed over.
LEMMA CandidatesGo ==
  ASSUME NEW A, NEW B, NEW X, NEW Y, NEW r \in Reader, NEW q, CandidatesHold(A, X),
         Y.reader[r] = q, \A v \in Reader : v # r => Y.reader[v] = X.reader[v],
         \A a, offset, spent : Missed(A, X, a, offset, spent) => Missed(B, Y, a, offset, spent),
         B.content = A.content, Y.tables = X.tables, X.collected \subseteq Y.collected,
         CursorSound(A, X, Y.cursor, {}),
         q.at \in Collects =>
           \/ CursorSound(A, X, ReachedBy(q), InHand(q))
           \/ CursorSound(B, Y, ReachedBy(q), InHand(q))
  PROVE  CandidatesHold(B, Y)
<1>1. ASSUME NEW a, NEW cursor, PassedSound(A, X, a, cursor)
      PROVE  PassedSound(B, Y, a, cursor)
  <2>1. MarkOf(B, a) = MarkOf(A, a)
    BY DEF MarkOf
  <2> QED BY <1>1, <2>1 DEF PassedSound, Passed
<1>2. \A cursor, held : CursorSound(A, X, cursor, held) => CursorSound(B, Y, cursor, held)
  BY <1>1 DEF CursorSound
<1>3. ASSUME NEW v \in Reader, Y.reader[v].at \in Collects
      PROVE  CursorSound(B, Y, ReachedBy(Y.reader[v]), InHand(Y.reader[v]))
  <2>1. CASE v = r
    BY <1>2, <1>3, <2>1
  <2>2. CASE v # r
    <3>1. CursorSound(A, X, ReachedBy(X.reader[v]), InHand(X.reader[v]))
      BY <1>3, <2>2 DEF CandidatesHold
    <3> QED BY <1>2, <2>2, <3>1
  <2> QED BY <2>1, <2>2
<1> QED BY <1>2, <1>3 DEF CandidatesHold

LEMMA SummariesGo ==
  ASSUME NEW A, NEW B, NEW X, NEW Y, NEW r \in Reader, SummariesHold(A, X),
         Y.reader[r] = Away, \A v \in Reader : v # r => Y.reader[v] = X.reader[v],
         \A a, offset, spent : Missed(A, X, a, offset, spent) => Missed(B, Y, a, offset, spent),
         B.content = A.content, Y.tables = X.tables
  PROVE  SummariesHold(B, Y)
<1>1. \A t : SummaryOf(B, t) = SummaryOf(A, t)
  BY DEF SummaryOf
<1>2. \A t, row, offset, spent :
        RowSound(A, X, t, row, offset, spent) => RowSound(B, Y, t, row, offset, spent)
  BY <1>1 DEF RowSound
<1>3. Y.reader[r].at \notin {"journal", "refresh"}
  BY DEF Away
<1>4. ASSUME NEW v \in Reader, Y.reader[v].at \in {"journal", "refresh"}, NEW t \in Tasks
      PROVE  \/ Y.reader[v].at = "refresh" /\ t \in Y.reader[v].outdated
             \/ RowSound(B, Y, t, Y.reader[v].tables.rows[t], Y.reader[v].tables.offset,
                         Y.reader[v].ready)
  <2>1. Y.reader[v] = X.reader[v]
    BY <1>3, <1>4
  <2> QED BY <1>2, <1>4, <2>1 DEF SummariesHold
<1>5. Y.tables.booted =>
        \A t \in Tasks : RowSound(B, Y, t, Y.tables.rows[t], Y.tables.offset, {})
  BY <1>2 DEF SummariesHold
<1> QED BY <1>4, <1>5 DEF SummariesHold

\* What a refresh starts from.
LEMMA WarmTyped ==
  ASSUME NEW P, IndexShape(P, archive, index), CandidatesHold(archive, index), NEW R
  PROVE  LET T == Warm(R)
         IN /\ T \in Tables /\ T.last = index.tables.last /\ T.offset <= Len(archive.journal)
            /\ \A a \in Artifacts : T.sequence[a] <= T.last
            /\ IF R = {} THEN T = index.tables
               ELSE ~T.booted /\ \A a \in Artifacts : T.sequence[a] = 0
<1> DEFINE T == Warm(R)
<1>1. index.tables \in Tables
  BY IndexTyped
<1>2. CASE R = {}
  BY <1>1, <1>2 DEF Warm, CandidatesHold, IndexShape
<1>3. CASE R # {}
  <2>1. T = [EmptyTables EXCEPT !.last = index.tables.last]
    BY <1>3 DEF Warm
  <2>2. /\ EmptyTables \in Tables /\ ~EmptyTables.booted /\ EmptyTables.offset = 0
        /\ \A a \in Artifacts : EmptyTables.sequence[a] = 0
        /\ index.tables.last \in Nat /\ Len(archive.journal) \in Nat
    BY <1>1, TablesTyped, IndexTyped
  <2>3. /\ T \in Tables /\ ~T.booted /\ T.offset = 0 /\ T.sequence = EmptyTables.sequence
        /\ T.last = index.tables.last
    BY <2>1, <2>2 DEF Tables
  <2> HIDE DEF T
  <2>4. \A a \in Artifacts : T.sequence[a] = 0 /\ T.sequence[a] <= T.last
    BY <2>2, <2>3
  <2> QED BY <1>3, <2>2, <2>3, <2>4 DEF T
<1> QED BY <1>2, <1>3

\* A page: the index names what the journal does, and after a recovery everything.
LEMMA PageTurns ==
  ASSUME NEW P, NEW Y, IndexShape(P, archive, index), CandidatesHold(archive, index),
         NEW r \in Reader, index.reader[r].at = "page", NEW q, q.at = "clear",
         q.ready = index.reader[r].ready, q.files \in SUBSET Artifacts,
         Y.reader[r] = q, \A v \in Reader : v # r => Y.reader[v] = index.reader[v],
         Y.cursor = index.cursor, Y.collected = index.collected,
         Y.tables = RefreshedCandidates(Warm(q.ready)),
         q.next \in Nat, q.next <= Y.tables.last,
         \A a \in Artifacts : Y.tables.sequence[a] > index.reader[r].cursor =>
           a \in q.files \/ Y.tables.sequence[a] > q.next
  PROVE  CandidatesHold(archive, Y)
<1> DEFINE T == Warm(q.ready)
           U == RefreshedCandidates(T)
<1>0. /\ index.tables \in Tables /\ index.cursor \in Nat
      /\ \A v \in Reader : index.reader[v] \in Reading(P)
  BY IndexTyped
<1>1. /\ T \in Tables /\ T.last = index.tables.last /\ T.offset <= Len(archive.journal)
      /\ \A a \in Artifacts : T.sequence[a] <= T.last
      /\ IF q.ready = {} THEN T = index.tables
         ELSE ~T.booted /\ \A a \in Artifacts : T.sequence[a] = 0
  BY WarmTyped
<1> HIDE DEF T
<1>2. /\ U \in Tables /\ U.booted /\ U.offset = Len(archive.journal) /\ T.last <= U.last
      /\ \A a \in Artifacts :
           /\ U.sequence[a] <= U.last
           /\ \/ U.sequence[a] > T.last
              \/ /\ U.sequence[a] = T.sequence[a] /\ ~Ahead(archive, a, T.offset)
                 /\ ~T.booted /\ T.sequence[a] = 0 => archive.content[a] = Absent
  BY <1>1, RefreshEffect
<1>3. Y.tables = U
  BY DEF T
<1> HIDE DEF U
<1>4. /\ T.last \in Nat /\ U.last \in Nat /\ T.sequence \in [Artifacts -> Nat]
      /\ U.sequence \in [Artifacts -> Nat]
  BY <1>1, <1>2, TablesTyped
<1>5. q.ready = {} => \A a : Removed(archive, Y, a) => Removed(archive, index, a)
  BY DEF Removed
<1>6. ASSUME NEW a \in Artifacts, NEW c \in Nat, c <= index.tables.last,
             index.tables.booted => PassedSound(archive, index, a, c)
      PROVE  PassedSound(archive, Y, a, c)
  <2>1. CASE U.sequence[a] > T.last
    <3>1. U.sequence[a] \in Nat /\ U.sequence[a] > c
      BY <1>1, <1>4, <1>6, <2>1
    <3> QED BY <1>3, <3>1 DEF PassedSound, Passed
  <2>2. CASE archive.content[a] = Absent
    BY <2>2 DEF PassedSound, Passed
  <2>3. CASE /\ U.sequence[a] = T.sequence[a] /\ ~Ahead(archive, a, T.offset)
             /\ T.booted \/ T.sequence[a] # 0
    <3>1. q.ready = {} /\ T = index.tables /\ index.tables.booted
      BY <1>1, <2>3 DEF CandidatesHold
    <3>2. CASE Passed(archive, index, a, c)
      BY <1>3, <2>3, <3>1, <3>2 DEF Passed, PassedSound
    <3>3. CASE Missed(archive, index, a, index.tables.offset, {})
      <4>1. Missed(archive, Y, a, Y.tables.offset, {})
        BY <1>5, <2>3, <3>1, <3>3 DEF Missed
      <4> QED BY <4>1 DEF PassedSound
    <3> QED BY <1>6, <3>1, <3>2, <3>3 DEF PassedSound
  <2> QED BY <1>2, <2>1, <2>2, <2>3
<1>7. ASSUME NEW c \in Nat, NEW held, CursorSound(archive, index, c, held)
      PROVE  CursorSound(archive, Y, c, held)
  <2>1. c <= U.last
    BY <1>1, <1>2, <1>4, <1>7 DEF CursorSound
  <2>2. \A a \in Artifacts : a \in held \/ PassedSound(archive, Y, a, c)
    BY <1>6, <1>7 DEF CursorSound
  <2> QED BY <1>3, <2>1, <2>2 DEF CursorSound
<1>8. CursorSound(archive, Y, Y.cursor, {})
  BY <1>0, <1>7 DEF CandidatesHold
<1>9. P = {"candidates"}
  BY <1>0, ReadingTyped
<1>10. \A v \in Reader : index.reader[v].at \in Collects =>
         /\ ReachedBy(index.reader[v]) \in Nat
         /\ CursorSound(archive, index, ReachedBy(index.reader[v]), InHand(index.reader[v]))
  BY <1>0, <1>9, ReadingTyped DEF CandidatesHold
<1>11. CursorSound(archive, Y, q.next, q.files)
  <2>1. /\ index.reader[r].cursor \in Nat
        /\ CursorSound(archive, index, index.reader[r].cursor, {})
    BY <1>10 DEF Collects, ReachedBy, InHand
  <2>2. CursorSound(archive, Y, index.reader[r].cursor, {})
    BY <1>7, <2>1
  <2>3. ASSUME NEW a \in Artifacts, a \notin q.files PROVE PassedSound(archive, Y, a, q.next)
    <3>1. PassedSound(archive, Y, a, index.reader[r].cursor)
      BY <1>2, <1>3, <2>2 DEF CursorSound
    <3> QED BY <2>3, <3>1 DEF PassedSound, Passed
  <2> QED BY <2>3 DEF CursorSound
<1>12. \A v \in Reader : Y.reader[v].at \in Collects =>
         CursorSound(archive, Y, ReachedBy(Y.reader[v]), InHand(Y.reader[v]))
  <2>1. ReachedBy(q) = q.next /\ InHand(q) = q.files
    BY DEF ReachedBy, InHand
  <2> QED BY <1>7, <1>10, <1>11, <2>1
<1> QED BY <1>2, <1>3, <1>8, <1>12 DEF CandidatesHold

-----------------------------------------------------------------------------
(***************************************************************************)
(* The steps.  First those of the publishers.                              *)
(***************************************************************************)
IndexSound == IndexKept(play, archive, index)
OnlyArchive == play' = play /\ index' = index
OnlyIndex == play' = play /\ archive' = archive

\* A record of the archive, field by field.
LEMMA ArchiveFields ==
  ASSUME IndexSound
  PROVE  /\ archive.content \in [Artifacts -> Cell] /\ archive.published \in Nat
         /\ archive.journal \in Seq(Artifacts) /\ archive.markers \in SUBSET Mark
         /\ archive.writer \in [Publisher -> Writing] /\ archive.unmarked \in SUBSET Artifacts
         /\ archive = [content |-> archive.content, published |-> archive.published,
                       journal |-> archive.journal, markers |-> archive.markers,
                       writer |-> archive.writer, unmarked |-> archive.unmarked]
         /\ \A w \in Publisher : archive.writer[w] \in Writing
BY IndexTyped DEF IndexSound, IndexKept, IndexShape, Archives

LEMMA PublisherSteps ==
  ASSUME IndexSound, OnlyArchive, IndexFollows(play, archive, archive', index)
  PROVE  IndexSound'
<1>1. IndexShape(play, archive, index) /\ Announces(archive, archive', index)
  BY DEF IndexSound, IndexKept, IndexFollows
<1>2. IndexShape(play, archive', index) /\ Numbers(archive', index) /\ archive' \in Archives
  BY DEF IndexFollows, IndexShape
<1>3. play = {"summaries"} => SummariesHold(archive', index)
  BY <1>1, <1>2, RowsAnnounced DEF IndexSound, IndexKept
<1>4. play = {"candidates"} => CandidatesHold(archive', index)
  BY <1>1, <1>2, CandidatesAnnounced DEF IndexSound, IndexKept
<1>5. IndexKept(play, archive', index)
  BY <1>2, <1>3, <1>4 DEF IndexKept
<1> QED BY <1>5 DEF IndexSound, OnlyArchive

LEMMA SayingTyped ==
  ASSUME IndexSound, NEW a, NEW s \in Saying(a)
  PROVE  s \in Said /\ s.n = archive.published + 1
<1> DEFINE may == IF a \in Descriptor /\ play = {"summaries"} THEN BOOLEAN ELSE {FALSE}
<1>1. s \in [n : {archive.published + 1}, runs : may]
  BY DEF Saying
<1>2. may \subseteq BOOLEAN
  OBVIOUS
<1> HIDE DEF may
<1>3. archive.published + 1 \in Nat \ {0}
  BY ArchiveFields
<1> QED BY <1>1, <1>2, <1>3 DEF Said

LEMMA ClaimArtifactKeeps ==
  ASSUME IndexSound, NEW w \in Publisher, NEW a \in Artifacts, ClaimArtifact(w, a)
  PROVE  IndexSound'
<1>1. PICK s \in Saying(a) :
         archive' = [archive EXCEPT !.content[a] = Unwritten, !.published = @ + 1,
                                    !.writer[w] = Underway(w, a, s, "prepare", FALSE)]
  BY DEF ClaimArtifact
<1>2. archive.writer[w].at = "idle" /\ OnlyArchive
  BY DEF ClaimArtifact, WriterAt, OnlyArchive, index_unchanged
<1>3. s \in Said /\ s.n = archive.published + 1
  BY SayingTyped
<1>4. IndexShape(play, archive, index) /\ Numbers(archive, index)
  BY DEF IndexSound, IndexKept
<1> DEFINE x == Underway(w, a, s, "prepare", FALSE)
<1>5. x \in Writing
  BY <1>3 DEF Underway, Writing
<1> HIDE DEF x
<1>6. /\ archive'.content = [archive.content EXCEPT ![a] = Unwritten]
      /\ archive'.published = archive.published + 1
      /\ archive'.writer = [archive.writer EXCEPT ![w] = x]
      /\ archive'.journal = archive.journal /\ archive'.markers = archive.markers
      /\ archive'.unmarked = archive.unmarked
  BY <1>1, ArchiveFields DEF x
<1>7. archive' \in Archives
  <2>1. archive'.content \in [Artifacts -> Cell]
    BY <1>6, ArchiveFields, TablesTyped
  <2>2. archive'.writer \in [Publisher -> Writing] /\ archive'.published \in Nat
    BY <1>5, <1>6, ArchiveFields
  <2>3. archive' = [content |-> archive'.content, published |-> archive'.published,
                    journal |-> archive'.journal, markers |-> archive'.markers,
                    writer |-> archive'.writer, unmarked |-> archive'.unmarked]
    BY <1>1, ArchiveFields
  <2> QED BY <1>6, <2>1, <2>2, <2>3, ArchiveFields DEF Archives
<1>8. IndexFollows(play, archive, archive', index)
  <2>1. archive'.writer = [archive.writer EXCEPT ![w] = Underway(w, a, s, "prepare", FALSE)]
    BY <1>6 DEF x
  <2> QED BY <1>2, <1>3, <1>4, <1>6, <1>7, <2>1, ClaimFollows
<1> QED BY <1>2, <1>8, PublisherSteps

LEMMA PreparedKeeps ==
  ASSUME IndexSound, NEW w \in Publisher, NEW a \in Artifacts, NEW s \in Said,
         \/ archive.writer[w].at = "idle" /\ s.n = archive.published + 1
         \/ archive.writer[w].at = "prepare" /\ s = archive.writer[w].says,
         Prepared(w, a, s), OnlyArchive
  PROVE  IndexSound'
<1> DEFINE m == [file |-> a, n |-> s.n]
           published == IF archive.writer[w].at = "idle" THEN archive.published + 1
                        ELSE archive.published
<1>1. PICK marked \in BOOLEAN :
         archive' = [archive EXCEPT
           !.markers = IF marked THEN archive.markers \cup {m} ELSE archive.markers,
           !.published = published, !.writer[w] = Underway(w, a, s, "write", marked)]
  <2>1. CASE archive' = [archive EXCEPT !.markers = @ \cup {[file |-> a, n |-> s.n]},
                         !.published = IF WriterAt(w, "idle") THEN @ + 1 ELSE @,
                         !.writer[w] = Underway(w, a, s, "write", TRUE)]
    <3>1. archive' = [archive EXCEPT
           !.markers = IF TRUE THEN archive.markers \cup {m} ELSE archive.markers,
           !.published = published, !.writer[w] = Underway(w, a, s, "write", TRUE)]
      BY <2>1, ArchiveFields DEF WriterAt
    <3> QED BY <3>1
  <2>2. CASE archive' = [archive EXCEPT
                         !.published = IF WriterAt(w, "idle") THEN @ + 1 ELSE @,
                         !.writer[w] = Underway(w, a, s, "write", FALSE)]
    <3>1. archive' = [archive EXCEPT
           !.markers = IF FALSE THEN archive.markers \cup {m} ELSE archive.markers,
           !.published = published, !.writer[w] = Underway(w, a, s, "write", FALSE)]
      BY <2>2, ArchiveFields DEF WriterAt
    <3> QED BY <3>1
  <2> QED BY <2>1, <2>2 DEF Prepared
<1> DEFINE x == Underway(w, a, s, "write", marked)
<1>2. x \in Writing /\ m \in Mark
  BY DEF Underway, Writing, Mark, Said
<1>3. published \in Nat
  BY ArchiveFields
<1> HIDE DEF m, x, published
<1>4. /\ archive'.content = archive.content /\ archive'.journal = archive.journal
      /\ archive'.unmarked = archive.unmarked /\ archive'.published = published
      /\ archive'.writer = [archive.writer EXCEPT ![w] = x]
      /\ archive'.markers = IF marked THEN archive.markers \cup {m} ELSE archive.markers
      /\ archive' = [content |-> archive'.content, published |-> archive'.published,
                     journal |-> archive'.journal, markers |-> archive'.markers,
                     writer |-> archive'.writer, unmarked |-> archive'.unmarked]
  BY <1>1, ArchiveFields DEF x
<1>5. archive'.writer \in [Publisher -> Writing] /\ archive'.markers \in SUBSET Mark
  BY <1>2, <1>4, ArchiveFields
<1>6. archive' \in Archives
  BY <1>3, <1>4, <1>5, ArchiveFields DEF Archives
<1>7. /\ archive.markers \subseteq archive'.markers
      /\ marked => [file |-> a, n |-> s.n] \in archive'.markers
  BY <1>4 DEF m
<1>8. IndexShape(play, archive, index) /\ Numbers(archive, index)
  BY DEF IndexSound, IndexKept
<1>9. IndexFollows(play, archive, archive', index)
  BY <1>4, <1>6, <1>7, <1>8, PreparedFollows DEF x, published
<1> QED BY <1>9, PublisherSteps

LEMMA ReplaceArtifactKeeps ==
  ASSUME IndexSound, NEW w \in Publisher, NEW a \in Artifacts, ReplaceArtifact(w, a)
  PROVE  IndexSound'
<1>1. PICK s \in Saying(a) : Prepared(w, a, s)
  BY DEF ReplaceArtifact
<1>2. archive.writer[w].at = "idle" /\ OnlyArchive
  BY DEF ReplaceArtifact, WriterAt, OnlyArchive, index_unchanged
<1>3. s \in Said /\ s.n = archive.published + 1
  BY SayingTyped
<1> QED BY <1>1, <1>2, <1>3, PreparedKeeps

LEMMA PrepareMarkerKeeps ==
  ASSUME IndexSound, NEW w \in Publisher, PrepareMarker(w)
  PROVE  IndexSound'
<1>1. /\ archive.writer[w].at = "prepare" /\ OnlyArchive
      /\ Prepared(w, archive.writer[w].file, archive.writer[w].says)
  BY DEF PrepareMarker, WriterAt, OnlyArchive, index_unchanged
<1>2. archive.writer[w].file \in Artifacts /\ archive.writer[w].says \in Said
  BY <1>1, ArchiveFields, WritingTyped
<1> QED BY <1>1, <1>2, PreparedKeeps

LEMMA WriteArtifactKeeps ==
  ASSUME IndexSound, NEW w \in Publisher, WriteArtifact(w)
  PROVE  IndexSound'
<1> DEFINE x == archive.writer[w]
           y == [x EXCEPT !.at = "append"]
<1>1. x.at = "write" /\ OnlyArchive
  BY DEF WriteArtifact, WriterAt, OnlyArchive, index_unchanged
<1>2. archive' = [archive EXCEPT !.content[x.file] = x.says, !.writer[w].at = "append",
                     !.unmarked = IF x.marked THEN @ ELSE @ \cup {x.file}]
  BY DEF WriteArtifact
<1>3. x.file \in Artifacts /\ x.says \in Cell
  BY <1>1, ArchiveFields, WritingTyped
<1>4. y \in Writing
  <2>1. x \in Writing
    BY ArchiveFields
  <2> QED BY <1>1, <2>1 DEF Writing, Resting
<1>5. /\ archive'.content = [archive.content EXCEPT ![x.file] = x.says]
      /\ archive'.writer = [archive.writer EXCEPT ![w] = y]
      /\ archive'.unmarked = IF x.marked THEN archive.unmarked ELSE archive.unmarked \cup {x.file}
      /\ archive'.journal = archive.journal /\ archive'.markers = archive.markers
      /\ archive'.published = archive.published
      /\ archive' = [content |-> archive'.content, published |-> archive'.published,
                     journal |-> archive'.journal, markers |-> archive'.markers,
                     writer |-> archive'.writer, unmarked |-> archive'.unmarked]
  BY <1>2, ArchiveFields
<1>6. archive' \in Archives
  <2> HIDE DEF y
  <2>1. /\ archive'.content \in [Artifacts -> Cell] /\ archive'.writer \in [Publisher -> Writing]
        /\ archive'.unmarked \in SUBSET Artifacts
    <3> HIDE DEF x
    <3> QED BY <1>3, <1>4, <1>5, ArchiveFields
  <2> QED BY <1>5, <2>1, ArchiveFields DEF Archives
<1>7. IndexShape(play, archive, index) /\ Numbers(archive, index)
  BY DEF IndexSound, IndexKept
<1>8. IndexFollows(play, archive, archive', index)
  BY <1>1, <1>5, <1>6, <1>7, WriteFollows
<1> QED BY <1>1, <1>8, PublisherSteps

LEMMA RestingKeeps ==
  ASSUME IndexSound, OnlyArchive, NEW w \in Publisher, archive.writer[w].at # "idle",
         NEW M, archive' = [archive EXCEPT !.markers = M, !.writer[w] = Resting],
         \/ M = archive.markers
         \/ /\ archive.writer[w].at = "clear"
            /\ M = archive.markers \ {[file |-> archive.writer[w].file,
                                       n |-> archive.writer[w].says.n]}
  PROVE  IndexSound'
<1>1. /\ archive'.content = archive.content /\ archive'.unmarked = archive.unmarked
      /\ archive'.writer = [archive.writer EXCEPT ![w] = Resting]
      /\ archive'.journal = archive.journal /\ archive'.markers = M
      /\ archive'.published = archive.published
      /\ archive' = [content |-> archive'.content, published |-> archive'.published,
                     journal |-> archive'.journal, markers |-> archive'.markers,
                     writer |-> archive'.writer, unmarked |-> archive'.unmarked]
  BY ArchiveFields
<1>2. archive' \in Archives
  <2>1. Resting \in Writing
    BY DEF Writing
  <2>2. archive'.writer \in [Publisher -> Writing] /\ archive'.markers \in SUBSET Mark
    BY <1>1, <2>1, ArchiveFields
  <2> QED BY <1>1, <2>2, ArchiveFields DEF Archives
<1>3. IndexShape(play, archive, index) /\ Numbers(archive, index)
  BY DEF IndexSound, IndexKept
<1>4. IndexFollows(play, archive, archive', index)
  BY <1>1, <1>2, <1>3, RestFollows
<1> QED BY <1>4, PublisherSteps

LEMMA AppendJournalKeeps ==
  ASSUME IndexSound, NEW w \in Publisher, AppendJournal(w)
  PROVE  IndexSound'
<1> DEFINE x == archive.writer[w]
           y == [x EXCEPT !.at = "clear"]
<1>1. x.at = "append" /\ OnlyArchive
  BY DEF AppendJournal, WriterAt, OnlyArchive, index_unchanged
<1>2. CASE archive' = [archive EXCEPT !.writer[w] = Resting]
  <2>1. archive' = [archive EXCEPT !.markers = archive.markers, !.writer[w] = Resting]
    BY <1>2, ArchiveFields
  <2> QED BY <1>1, <2>1, RestingKeeps
<1>3. CASE archive' = [archive EXCEPT !.journal = Append(@, Marker(w).file),
                          !.unmarked = @ \ {Marker(w).file}, !.writer[w].at = "clear"]
  <2>1. x.file \in Artifacts /\ Marker(w).file = x.file
    BY <1>1, ArchiveFields, WritingTyped DEF Marker
  <2>2. y \in Writing
    <3>1. x \in Writing
      BY ArchiveFields
    <3> QED BY <1>1, <3>1 DEF Writing, Resting
  <2>3. /\ archive'.content = archive.content /\ archive'.markers = archive.markers
        /\ archive'.writer = [archive.writer EXCEPT ![w] = y]
        /\ archive'.unmarked = archive.unmarked \ {x.file}
        /\ archive'.journal = Append(archive.journal, x.file)
        /\ archive'.published = archive.published
        /\ archive' = [content |-> archive'.content, published |-> archive'.published,
                       journal |-> archive'.journal, markers |-> archive'.markers,
                       writer |-> archive'.writer, unmarked |-> archive'.unmarked]
    BY <1>3, <2>1, ArchiveFields
  <2>4. archive' \in Archives
    <3> HIDE DEF y, x
    <3>1. /\ archive'.writer \in [Publisher -> Writing] /\ archive'.journal \in Seq(Artifacts)
          /\ archive'.unmarked \in SUBSET Artifacts
      BY <2>1, <2>2, <2>3, ArchiveFields
    <3> QED BY <2>3, <3>1, ArchiveFields DEF Archives
  <2>5. IndexShape(play, archive, index) /\ Numbers(archive, index)
    BY DEF IndexSound, IndexKept
  <2>6. IndexFollows(play, archive, archive', index)
    BY <1>1, <2>3, <2>4, <2>5, AppendFollows
  <2> QED BY <1>1, <2>6, PublisherSteps
<1> QED BY <1>2, <1>3 DEF AppendJournal

LEMMA ClearMarkerKeeps ==
  ASSUME IndexSound, NEW w \in Publisher, ClearMarker(w)
  PROVE  IndexSound'
<1> DEFINE M == archive.markers \ {[file |-> archive.writer[w].file, n |-> archive.writer[w].says.n]}
<1>1. archive.writer[w].at = "clear" /\ OnlyArchive
  BY DEF ClearMarker, WriterAt, OnlyArchive, index_unchanged
<1>2. archive' = [archive EXCEPT !.markers = M, !.writer[w] = Resting]
  BY ArchiveFields DEF ClearMarker, Marker
<1> QED BY <1>1, <1>2, RestingKeeps

LEMMA PublisherDiesKeeps ==
  ASSUME IndexSound, NEW w \in Publisher, PublisherDies(w)
  PROVE  IndexSound'
<1>1. archive.writer[w].at # "idle" /\ OnlyArchive
  BY DEF PublisherDies, WriterAt, OnlyArchive, index_unchanged
<1>2. archive' = [archive EXCEPT !.markers = archive.markers, !.writer[w] = Resting]
  BY ArchiveFields DEF PublisherDies
<1> QED BY <1>1, <1>2, RestingKeeps

-----------------------------------------------------------------------------
(***************************************************************************)
(* The steps of the readers.                                               *)
(***************************************************************************)
\* A record of the index, field by field.
LEMMA IndexFields ==
  ASSUME IndexSound
  PROVE  /\ index.tables \in Tables /\ index.cursor \in Nat /\ index.collected \in SUBSET Mark
         /\ index.reader \in [Reader -> Reading(play)]
         /\ index = [tables |-> index.tables, cursor |-> index.cursor,
                     collected |-> index.collected, reader |-> index.reader]
         /\ \A r \in Reader : index.reader[r] \in Reading(play)
         /\ IndexShape(play, archive, index) /\ Numbers(archive, index)
         /\ archive.journal \in Seq(Artifacts) /\ Len(archive.journal) \in Nat
<1>1. IndexShape(play, archive, index) /\ Numbers(archive, index)
  BY DEF IndexSound, IndexKept
<1>2. index \in IndexFiles(play)
  BY <1>1 DEF IndexShape
<1>3. index = [tables |-> index.tables, cursor |-> index.cursor,
               collected |-> index.collected, reader |-> index.reader]
  BY <1>2 DEF IndexFiles
<1> QED BY <1>1, <1>3, IndexTyped

\* Building the index that a step leaves behind.
LEMMA IndexTyping ==
  ASSUME NEW P, NEW T \in Tables, NEW c \in Nat, NEW C \in SUBSET Mark,
         NEW R \in [Reader -> Reading(P)], NEW q \in Reading(P), NEW r \in Reader
  PROVE  [tables |-> T, cursor |-> c, collected |-> C, reader |-> [R EXCEPT ![r] = q]]
           \in IndexFiles(P)
BY DEF IndexFiles

LEMMA ReaderSteps ==
  ASSUME IndexSound, OnlyIndex, NEW r \in Reader, NEW q, IndexTurns(play, archive, index, index', r, q),
         play = {"summaries"} => SummariesHold(archive, index'),
         play = {"candidates"} => CandidatesHold(archive, index')
  PROVE  IndexSound'
<1>1. IndexShape(play, archive, index) /\ Numbers(archive, index)
  BY IndexFields
<1>2. IndexShape(play, archive, index') /\ Numbers(archive, index')
  BY <1>1, ShapeTurns
<1>3. IndexKept(play, archive, index')
  BY <1>2 DEF IndexKept
<1> QED BY <1>3 DEF IndexSound, OnlyIndex

\* One reader changes, and nothing else.
LEMMA ReaderChanges ==
  ASSUME IndexSound, NEW r \in Reader, NEW q \in Reading(play),
         index' = [index EXCEPT !.reader[r] = q],
         q.at \in InTransaction =>
           \/ index.reader[r].at \in InTransaction
           \/ \A v \in Reader : index.reader[v].at \notin InTransaction,
         q.at \in {"scan", "journal", "refresh"} => q.tables.offset <= Len(archive.journal),
         q.at \in {"journal", "refresh"} => q.tables.booted,
         q.at \in HasReady =>
           \/ index.reader[r].at \in HasReady /\ q.ready = index.reader[r].ready
           \/ q.ready \subseteq ReadyOf(archive)
  PROVE  /\ IndexTurns(play, archive, index, index', r, q)
         /\ index'.tables = index.tables /\ index'.collected = index.collected
         /\ index'.cursor = index.cursor /\ index'.reader[r] = q
         /\ \A v \in Reader : v # r => index'.reader[v] = index.reader[v]
<1>1. /\ index'.tables = index.tables /\ index'.collected = index.collected
      /\ index'.cursor = index.cursor /\ index'.reader = [index.reader EXCEPT ![r] = q]
      /\ index' = [tables |-> index.tables, cursor |-> index.cursor,
                   collected |-> index.collected, reader |-> [index.reader EXCEPT ![r] = q]]
  BY IndexFields
<1>2. index' \in IndexFiles(play)
  <2>1. [tables |-> index.tables, cursor |-> index.cursor, collected |-> index.collected,
         reader |-> [index.reader EXCEPT ![r] = q]] \in IndexFiles(play)
    BY IndexFields, IndexTyping
  <2> QED BY <1>1, <2>1
<1>3. index.tables.offset <= Len(archive.journal)
  BY IndexFields DEF IndexShape
<1>4. index'.reader[r] = q /\ \A v \in Reader : v # r => index'.reader[v] = index.reader[v]
  BY <1>1, IndexFields
<1> QED BY <1>1, <1>2, <1>3, <1>4 DEF IndexTurns

LEMMA ReadyTyped ==
  ASSUME IndexSound
  PROVE  ReadyMarkers = ReadyOf(archive) /\ ReadyMarkers \in SUBSET Mark
BY ArchiveFields DEF ReadyMarkers, ReadyOf

\* BEGIN IMMEDIATE
LEMMA ExclusivelyAlone ==
  ASSUME Exclusively
  PROVE  \A v \in Reader : index.reader[v].at \notin InTransaction
BY DEF Exclusively, InTransaction

LEMMA BeginSummariesKeeps ==
  ASSUME IndexSound, NEW r \in Reader, BeginSummaries(r)
  PROVE  IndexSound'
<1> DEFINE T == Warm(ReadyMarkers)
           p == [at |-> "journal", ready |-> ReadyMarkers, tables |-> T]
           s == [at |-> "scan", ready |-> ReadyMarkers,
                 tables |-> [T EXCEPT !.offset = Len(archive.journal)]]
           q == IF T.booted THEN p ELSE s
<1>1. play = {"summaries"} /\ OnlyIndex /\ index' = [index EXCEPT !.reader[r] = q]
  BY DEF BeginSummaries, OnlyIndex, index_unchanged
<1>2. \A v \in Reader : index.reader[v].at \notin InTransaction
  BY ExclusivelyAlone DEF BeginSummaries
<1>3. /\ T \in Tables /\ T.offset <= Len(archive.journal)
      /\ T.booted => T = index.tables /\ ReadyMarkers = {}
  <2>1. CASE ReadyMarkers = {}
    BY <2>1, IndexFields DEF Warm, IndexShape
  <2>2. CASE ReadyMarkers # {}
    <3>1. T = [EmptyTables EXCEPT !.last = index.tables.last]
      BY <2>2 DEF Warm
    <3>2. index.tables.last \in Nat /\ EmptyTables \in Tables
      BY IndexFields, TablesTyped
    <3>3. T \in Tables /\ T.booted = FALSE /\ T.offset = 0
      BY <3>1, <3>2 DEF Tables, EmptyTables
    <3> QED BY <3>3, IndexFields
  <2> QED BY <2>1, <2>2
<1> HIDE DEF T
<1>4. q \in Summarizing
  <2>1. [T EXCEPT !.offset = Len(archive.journal)] \in Tables
    BY <1>3, IndexFields DEF Tables
  <2> QED BY <1>3, <2>1, ReadyTyped DEF Summarizing
<1>5. q \in Reading(play)
  BY <1>1, <1>4 DEF Reading
<1>6. /\ q.at \in {"journal", "scan"} /\ q.ready = ReadyMarkers
      /\ q.tables.offset <= Len(archive.journal)
      /\ q.at = "journal" => q = p /\ T.booted
  <2>1. CASE T.booted
    BY <1>3, <2>1
  <2>2. CASE ~T.booted
    <3>1. q = s /\ s.tables.offset = Len(archive.journal)
      BY <1>3, <2>2 DEF Tables
    <3> QED BY <3>1, IndexFields
  <2> QED BY <2>1, <2>2
<1>7. RowsSound(archive, index, q)
  <2>1. SUFFICES ASSUME q.at = "journal"
                 PROVE  \A t \in Tasks :
                          RowSound(archive, index, t, q.tables.rows[t], q.tables.offset, q.ready)
    BY <1>6 DEF RowsSound
  <2>2. q.tables = index.tables /\ q.ready = {} /\ index.tables.booted
    BY <1>3, <1>6, <2>1
  <2>3. SummariesHold(archive, index)
    BY <1>1 DEF IndexSound, IndexKept
  <2> HIDE DEF q
  <2> QED BY <2>2, <2>3 DEF SummariesHold
<1>8. q.at = "journal" => q.tables.booted
  BY <1>6
<1> HIDE DEF q
<1>9. IndexTurns(play, archive, index, index', r, q) /\ index'.tables = index.tables
  BY <1>1, <1>2, <1>5, <1>6, <1>8, ReadyTyped, ReaderChanges
<1>10. SummariesHold(archive, index')
  BY <1>1, <1>6, <1>7, <1>9, IndexFields, SummariesTurn DEF IndexSound, IndexKept
<1>11. play # {"candidates"}
  BY <1>1
<1> QED BY <1>1, <1>9, <1>10, <1>11, ReaderSteps

LEMMA SummaryTyped ==
  ASSUME IndexSound, NEW t \in Tasks
  PROVE  Summary(t) = SummaryOf(archive, t) /\ Summary(t) \in RowValue
<1>1. Summary(t) = SummaryOf(archive, t)
  BY DEF Summary, SummaryOf, Exists
<1>2. FilesOf(t) \subseteq Artifacts
  BY DEF FilesOf
<1>3. [a \in FilesOf(t) |-> archive.content[a]] \in [FilesOf(t) -> Cell]
  BY <1>2, ArchiveFields
<1>4. Summary(t) \in {None} \cup [FilesOf(t) -> Cell]
  BY <1>3 DEF Summary
<1> QED BY <1>1, <1>4 DEF RowValue

LEMMA ScanTasksKeeps ==
  ASSUME IndexSound, NEW r \in Reader, ScanTasks(r)
  PROVE  IndexSound'
<1> DEFINE x == index.reader[r]
           rows == [t \in Tasks |-> Summary(t)]
           T == [x.tables EXCEPT !.rows = rows, !.booted = TRUE]
           q == [at |-> "journal", ready |-> x.ready, tables |-> T]
<1>1. x.at = "scan" /\ OnlyIndex
  BY DEF ScanTasks, ReaderAt, OnlyIndex, index_unchanged
<1>2. /\ play = {"summaries"} /\ x \in Summarizing /\ x.tables \in Tables
      /\ x.ready \in SUBSET Mark /\ x = [at |-> "scan", ready |-> x.ready, tables |-> x.tables]
  <2>1. x \in Reading(play)
    BY IndexFields
  <2>2. /\ play = {"summaries"} /\ x \in Summarizing /\ x.tables \in Tables
        /\ x.ready \in SUBSET Mark
    BY <1>1, <2>1, ReadingTyped DEF HasReady, InTransaction
  <2>3. x = [at |-> "scan", ready |-> x.ready, tables |-> x.tables]
    BY <1>1, <2>2 DEF Summarizing
  <2> QED BY <2>2, <2>3
<1>3. index' = [index EXCEPT !.reader[r] = q]
  BY IndexFields DEF ScanTasks
<1>5. rows \in [Tasks -> RowValue]
  BY SummaryTyped
<1>6. T \in Tables /\ T.offset = x.tables.offset /\ T.booted = TRUE /\ T.rows = rows
  <2> HIDE DEF rows, x
  <2> QED BY <1>2, <1>5 DEF Tables
<1>7. x.tables.offset <= Len(archive.journal)
  BY <1>1, IndexFields DEF IndexShape
<1>8. RowsSound(archive, index, q)
  <2>1. \A t \in Tasks : q.tables.rows[t] = SummaryOf(archive, t)
    BY <1>6, SummaryTyped
  <2> QED BY <2>1 DEF RowsSound, RowSound
<1> HIDE DEF T
<1>9. q \in Reading(play)
  BY <1>2, <1>6 DEF Reading, Summarizing
<1>10. q.at = "journal" /\ q.ready = x.ready /\ q.tables = T
  OBVIOUS
<1> HIDE DEF q
<1>11. IndexTurns(play, archive, index, index', r, q) /\ index'.tables = index.tables
  BY <1>1, <1>3, <1>6, <1>7, <1>9, <1>10, ReaderChanges DEF HasReady, InTransaction
<1>12. SummariesHold(archive, index')
  BY <1>2, <1>8, <1>10, <1>11, IndexFields, SummariesTurn DEF IndexSound, IndexKept
<1>13. play # {"candidates"}
  BY <1>2
<1> QED BY <1>1, <1>11, <1>12, <1>13, ReaderSteps

LEMMA ReadJournalKeeps ==
  ASSUME IndexSound, NEW r \in Reader, ReadJournal(r)
  PROVE  IndexSound'
<1> DEFINE x == index.reader[r]
           T == [x.tables EXCEPT !.offset = Len(archive.journal)]
           q == [at |-> "refresh", ready |-> x.ready, outdated |-> Outdated(x.tables), tables |-> T]
<1>1. x.at = "journal" /\ OnlyIndex
  BY DEF ReadJournal, ReaderAt, OnlyIndex, index_unchanged
<1>2. /\ play = {"summaries"} /\ x.tables \in Tables /\ x.ready \in SUBSET Mark
  BY <1>1, IndexFields, ReadingTyped DEF HasReady, InTransaction
<1>3. index' = [index EXCEPT !.reader[r] = q]
  BY IndexFields DEF ReadJournal
<1>4. /\ x.tables.offset \in Nat /\ x.tables.booted /\ x.tables.offset <= Len(archive.journal)
  BY <1>1, <1>2, IndexFields DEF IndexShape, Tables
<1>5. T \in Tables /\ T.offset = Len(archive.journal) /\ T.booted /\ T.rows = x.tables.rows
  <2> HIDE DEF x
  <2> QED BY <1>2, <1>4, IndexFields DEF Tables
<1>6. \A i \in (x.tables.offset + 1)..Len(archive.journal) :
        archive.journal[i] \in Artifacts /\ TaskOf[archive.journal[i]] \in Outdated(x.tables)
  <2>1. \A i \in (x.tables.offset + 1)..Len(archive.journal) : i \in 1..Len(archive.journal)
    BY <1>4, IndexFields
  <2> QED BY <2>1, IndexFields DEF Outdated
<1>7. Outdated(x.tables) \in SUBSET Tasks
  BY <1>6 DEF Outdated, Tasks
<1>8. RowsSound(archive, index, q)
  <2> SUFFICES ASSUME NEW t \in Tasks, t \notin Outdated(x.tables)
               PROVE  RowSound(archive, index, t, x.tables.rows[t], T.offset, x.ready)
    BY <1>5 DEF RowsSound
  <2>1. RowSound(archive, index, t, x.tables.rows[t], x.tables.offset, x.ready)
    BY <1>1, <1>2 DEF IndexSound, IndexKept, SummariesHold
  <2>2. \A a \in FilesOf(t) : ~Ahead(archive, a, x.tables.offset)
    BY <1>6 DEF FilesOf, Ahead
  <2>3. \A a \in FilesOf(t) :
          Missed(archive, index, a, x.tables.offset, x.ready) =>
            Missed(archive, index, a, T.offset, x.ready)
    BY <2>2 DEF Missed
  <2> QED BY <2>1, <2>3 DEF RowSound
<1> HIDE DEF T
<1>9. q \in Reading(play)
  BY <1>2, <1>5, <1>7 DEF Reading, Summarizing
<1>10. q.at = "refresh" /\ q.ready = x.ready /\ q.tables = T
  OBVIOUS
<1> HIDE DEF q
<1>11. IndexTurns(play, archive, index, index', r, q) /\ index'.tables = index.tables
  BY <1>1, <1>3, <1>5, <1>9, <1>10, IndexFields, ReaderChanges DEF HasReady, InTransaction
<1>12. SummariesHold(archive, index')
  BY <1>2, <1>8, <1>10, <1>11, IndexFields, SummariesTurn DEF IndexSound, IndexKept
<1>13. play # {"candidates"}
  BY <1>2
<1> QED BY <1>1, <1>11, <1>12, <1>13, ReaderSteps

LEMMA CommitSummariesKeeps ==
  ASSUME IndexSound, NEW r \in Reader, CommitSummaries(r)
  PROVE  IndexSound'
<1> DEFINE x == index.reader[r]
           Fresh(t) == IF t \in x.outdated THEN Summary(t) ELSE x.tables.rows[t]
           rows == [t \in Tasks |-> Fresh(t)]
           T == [x.tables EXCEPT !.rows = rows]
           q == [at |-> "clear", ready |-> x.ready]
<1>1. x.at = "refresh" /\ OnlyIndex
  BY DEF CommitSummaries, ReaderAt, OnlyIndex, index_unchanged
<1>2. /\ play = {"summaries"} /\ x.tables \in Tables /\ x.ready \in SUBSET Mark
  BY <1>1, IndexFields, ReadingTyped DEF HasReady, InTransaction
<1>3. index' = [index EXCEPT !.tables = T, !.reader[r] = q]
  BY IndexFields DEF CommitSummaries
<1>4. rows \in [Tasks -> RowValue]
  BY <1>2, SummaryTyped, TablesTyped
<1>5. T \in Tables /\ T.offset = x.tables.offset /\ T.rows = rows
  <2> HIDE DEF rows, x
  <2> QED BY <1>2, <1>4 DEF Tables
<1>6. q \in Reading(play)
  BY <1>2 DEF Reading, Summarizing
<1>7. x.tables.offset <= Len(archive.journal)
  BY <1>1, IndexFields DEF IndexShape
<1>8. /\ index'.tables = T /\ index'.reader = [index.reader EXCEPT ![r] = q]
      /\ index' = [tables |-> T, cursor |-> index.cursor, collected |-> index.collected,
                   reader |-> [index.reader EXCEPT ![r] = q]]
  <2> HIDE DEF T, q
  <2> QED BY <1>3, IndexFields
<1>9. \A t \in Tasks :
        T.rows[t] = IF t \in x.outdated THEN SummaryOf(archive, t) ELSE x.tables.rows[t]
  BY <1>5, SummaryTyped
<1>10. q.at = "clear" /\ q.ready = x.ready
  OBVIOUS
<1> HIDE DEF T, q
<1>11. index' \in IndexFiles(play)
  BY <1>5, <1>6, <1>8, IndexFields, IndexTyping
<1>12. IndexTurns(play, archive, index, index', r, q)
  BY <1>1, <1>5, <1>6, <1>7, <1>8, <1>10, <1>11 DEF IndexTurns, HasReady, InTransaction
<1>13. SummariesHold(archive, index')
  <2>1. SummariesHold(archive, index)
    BY <1>2 DEF IndexSound, IndexKept
  <2> HIDE DEF rows
  <2> QED BY <1>1, <1>5, <1>8, <1>9, <1>10, <1>12, <2>1, IndexFields, CommitHolds
<1>14. play # {"candidates"}
  BY <1>2
<1> QED BY <1>1, <1>12, <1>13, <1>14, ReaderSteps

LEMMA DeleteIndexKeeps ==
  ASSUME IndexSound, DeleteIndex
  PROVE  IndexSound'
<1>1. /\ play = {"summaries"} /\ OnlyIndex /\ index' = [index EXCEPT !.tables = EmptyTables]
      /\ \A v \in Reader : index.reader[v].at \notin InTransaction
  BY ExclusivelyAlone DEF DeleteIndex, OnlyIndex, index_unchanged
<1>2. /\ index'.tables = EmptyTables /\ index'.reader = index.reader
      /\ index' = [tables |-> EmptyTables, cursor |-> index.cursor,
                   collected |-> index.collected, reader |-> index.reader]
  BY <1>1, IndexFields
<1>3. index' \in IndexFiles(play)
  BY <1>2, IndexFields, TablesTyped DEF IndexFiles
<1>4. IndexShape(play, archive, index')
  <2>1. index'.tables.offset <= Len(archive.journal)
    BY <1>2, IndexFields, TablesTyped
  <2> QED BY <1>2, <1>3, <2>1, IndexFields DEF IndexShape
<1>5. Numbers(archive, index')
  <2>1. \A n : Unused(archive, index, n) => Unused(archive, index', n)
    BY <1>2 DEF Unused
  <2>2. Numbers(archive, index)
    BY IndexFields
  <2> QED BY <1>2, <2>1, <2>2 DEF Numbers
<1>6. SummariesHold(archive, index')
  BY <1>1, <1>2, TablesTyped DEF SummariesHold, InTransaction
<1>7. play # {"candidates"}
  BY <1>1
<1>8. IndexKept(play, archive, index')
  BY <1>4, <1>5, <1>6, <1>7 DEF IndexKept
<1> QED BY <1>1, <1>8 DEF IndexSound, OnlyIndex

LEMMA BeginCollectKeeps ==
  ASSUME IndexSound, NEW r \in Reader, BeginCollect(r)
  PROVE  IndexSound'
<1> DEFINE q == [at |-> "page", cursor |-> index.cursor, ready |-> ReadyMarkers]
<1>1. play = {"candidates"} /\ OnlyIndex /\ index' = [index EXCEPT !.reader[r] = q]
  BY DEF BeginCollect, OnlyIndex, index_unchanged
<1>2. \A v \in Reader : index.reader[v].at \notin InTransaction
  BY ExclusivelyAlone DEF BeginCollect
<1>3. q \in Reading(play)
  BY <1>1, IndexFields, ReadyTyped DEF Reading, Collecting
<1>4. /\ q.at = "page" /\ q.ready = ReadyMarkers
      /\ ReachedBy(q) = index.cursor /\ InHand(q) = {}
  BY DEF ReachedBy, InHand
<1> HIDE DEF q
<1>5. /\ IndexTurns(play, archive, index, index', r, q) /\ index'.tables = index.tables
      /\ index'.collected = index.collected /\ index'.cursor = index.cursor
      /\ index'.reader[r] = q /\ \A v \in Reader : v # r => index'.reader[v] = index.reader[v]
  BY <1>1, <1>2, <1>3, <1>4, ReadyTyped, ReaderChanges
<1>6. \A a, offset, spent : Missed(archive, index, a, offset, spent) =>
                              Missed(archive, index', a, offset, spent)
  BY <1>4, <1>5, IndexFields, MissedTurns
<1>7. CandidatesHold(archive, index) /\ CursorSound(archive, index, index.cursor, {})
  BY <1>1 DEF IndexSound, IndexKept, CandidatesHold
<1>8. CandidatesHold(archive, index')
  BY <1>4, <1>5, <1>6, <1>7, CandidatesGo
<1>9. play # {"summaries"}
  BY <1>1
<1> QED BY <1>1, <1>5, <1>8, <1>9, ReaderSteps

LEMMA PageCandidatesKeeps ==
  ASSUME IndexSound, NEW r \in Reader, PageCandidates(r)
  PROVE  IndexSound'
<1> DEFINE x == index.reader[r]
           T == RefreshedCandidates(Warm(x.ready))
           page == CandidatePage(T, x.cursor)
           q == [at |-> "clear", ready |-> x.ready, files |-> page.files, next |-> page.next]
<1>1. /\ x.at = "page" /\ OnlyIndex /\ index' = [index EXCEPT !.tables = T, !.reader[r] = q]
  BY DEF PageCandidates, ReaderAt, OnlyIndex, index_unchanged
<1>2. /\ play = {"candidates"} /\ x.ready \in SUBSET Mark /\ x.cursor \in Nat
      /\ x.cursor <= index.tables.last
  <2>1. x \in Reading(play)
    BY IndexFields
  <2>2. /\ play = {"candidates"} /\ x.ready \in SUBSET Mark /\ ReachedBy(x) \in Nat
    BY <1>1, <2>1, ReadingTyped DEF HasReady, InTransaction, Collects
  <2>3. ReachedBy(x) = x.cursor
    BY <1>1 DEF ReachedBy
  <2>4. CursorSound(archive, index, ReachedBy(x), InHand(x))
    BY <1>1, <2>2 DEF IndexSound, IndexKept, CandidatesHold, Collects
  <2> QED BY <2>2, <2>3, <2>4 DEF CursorSound
<1>3. CandidatesHold(archive, index)
  BY <1>2 DEF IndexSound, IndexKept
<1>4. /\ T \in Tables /\ T.offset = Len(archive.journal) /\ index.tables.last <= T.last
      /\ \A a \in Artifacts : T.sequence[a] <= T.last
  BY <1>3, IndexFields, WarmTyped, RefreshEffect
<1>5. T.last \in Nat /\ index.tables.last \in Nat
  BY <1>4, IndexFields, TablesTyped
<1> HIDE DEF T
<1>6. x.cursor <= T.last
  <2> HIDE DEF x
  <2> QED BY <1>2, <1>4, <1>5
<1>7. /\ page.files \in SUBSET Artifacts /\ page.next \in Nat /\ page.next <= T.last
      /\ \A a \in Artifacts : T.sequence[a] > x.cursor => a \in page.files \/ T.sequence[a] > page.next
  BY <1>2, <1>4, <1>6, PageEffect
<1> HIDE DEF page
<1>8. q \in Reading(play)
  BY <1>2, <1>7 DEF Reading, Collecting
<1>9. q.at = "clear" /\ q.ready = x.ready /\ q.files = page.files /\ q.next = page.next
  OBVIOUS
<1> HIDE DEF q
<1>10. /\ index'.tables = T /\ index'.reader = [index.reader EXCEPT ![r] = q]
       /\ index'.cursor = index.cursor /\ index'.collected = index.collected
       /\ index' = [tables |-> T, cursor |-> index.cursor, collected |-> index.collected,
                    reader |-> [index.reader EXCEPT ![r] = q]]
  BY <1>1, IndexFields
<1>11. index' \in IndexFiles(play)
  BY <1>4, <1>8, <1>10, IndexFields, IndexTyping
<1>12. IndexTurns(play, archive, index, index', r, q)
  BY <1>1, <1>4, <1>5, <1>8, <1>9, <1>10, <1>11, IndexFields DEF IndexTurns, HasReady, InTransaction
<1>13. index'.reader[r] = q /\ \A v \in Reader : v # r => index'.reader[v] = index.reader[v]
  BY <1>10, IndexFields
<1>14. CandidatesHold(archive, index')
  <2>1. /\ q.at = "clear" /\ q.ready = index.reader[r].ready /\ q.files \in SUBSET Artifacts
        /\ q.next \in Nat /\ q.next <= index'.tables.last
    BY <1>7, <1>9, <1>10
  <2>2. \A a \in Artifacts : index'.tables.sequence[a] > index.reader[r].cursor =>
          a \in q.files \/ index'.tables.sequence[a] > q.next
    BY <1>7, <1>9, <1>10
  <2>3. index'.tables = RefreshedCandidates(Warm(q.ready))
    BY <1>9, <1>10 DEF T
  <2>4. index.reader[r].at = "page" /\ IndexShape(play, archive, index)
    BY <1>1, IndexFields
  <2> HIDE DEF x
  <2> QED BY <1>3, <1>10, <1>13, <2>1, <2>2, <2>3, <2>4, PageTurns
<1>15. play # {"summaries"}
  BY <1>2
<1> QED BY <1>1, <1>12, <1>14, <1>15, ReaderSteps

LEMMA IngestKeeps ==
  ASSUME IndexSound, NEW r \in Reader, Ingest(r)
  PROVE  IndexSound'
<1> DEFINE x == index.reader[r]
           q == [at |-> "advance", next |-> x.next]
<1>1. /\ x.at = "ingest" /\ OnlyIndex
      /\ index' = [index EXCEPT !.collected = @ \cup Loaded(r), !.reader[r] = q]
  BY IndexFields DEF Ingest, ReaderAt, OnlyIndex, index_unchanged
<1>2. /\ play = {"candidates"} /\ x.next \in Nat /\ x.files \in SUBSET Artifacts
      /\ ReachedBy(x) = x.next /\ InHand(x) = x.files /\ x.at \in Collects
  <2>1. x \in Reading(play)
    BY IndexFields
  <2>2. ReachedBy(x) = x.next /\ InHand(x) = x.files /\ x.at \in Collects
    BY <1>1 DEF ReachedBy, InHand, Collects
  <2> QED BY <1>1, <2>1, <2>2, ReadingTyped
<1>3. CandidatesHold(archive, index) /\ CursorSound(archive, index, x.next, x.files)
  BY <1>2 DEF IndexSound, IndexKept, CandidatesHold
<1>4. Loaded(r) \in SUBSET Mark
  <2>1. \A a \in x.files : [file |-> a, n |-> archive.content[a].n] \in Mark
    BY <1>2, ArchiveFields DEF Mark, Cell
  <2> QED BY <2>1 DEF Loaded
<1>5. q \in Reading(play)
  BY <1>2 DEF Reading, Collecting
<1>6. q.at = "advance" /\ ReachedBy(q) = x.next /\ InHand(q) = {}
  BY DEF ReachedBy, InHand
<1> HIDE DEF q
<1>7. /\ index'.tables = index.tables /\ index'.reader = [index.reader EXCEPT ![r] = q]
      /\ index'.cursor = index.cursor /\ index'.collected = index.collected \cup Loaded(r)
      /\ index' = [tables |-> index.tables, cursor |-> index.cursor,
                   collected |-> index.collected \cup Loaded(r),
                   reader |-> [index.reader EXCEPT ![r] = q]]
  BY <1>1, IndexFields
<1>8. index.collected \cup Loaded(r) \in SUBSET Mark
  BY <1>4, IndexFields
<1>9. index' \in IndexFiles(play)
  BY <1>5, <1>7, <1>8, IndexFields, IndexTyping
<1>10. index.tables.offset <= Len(archive.journal)
  BY IndexFields DEF IndexShape
<1>11. IndexTurns(play, archive, index, index', r, q)
  BY <1>5, <1>6, <1>7, <1>9, <1>10 DEF IndexTurns, HasReady, InTransaction
<1>12. index'.reader[r] = q /\ \A v \in Reader : v # r => index'.reader[v] = index.reader[v]
  BY <1>7, IndexFields
<1>13. \A a, offset, spent : Missed(archive, index, a, offset, spent) =>
                               Missed(archive, index', a, offset, spent)
  BY <1>6, <1>11, IndexFields, MissedTurns
<1>14. CursorSound(archive, index', x.next, {})
  <2> SUFFICES ASSUME index'.tables.booted, NEW a \in Artifacts
               PROVE  PassedSound(archive, index', a, x.next)
    BY <1>3, <1>7 DEF CursorSound
  <2>1. CASE a \in x.files /\ archive.content[a] = Unwritten
    BY <2>1 DEF PassedSound, Missed
  <2>2. CASE a \in x.files /\ archive.content[a] # Unwritten
    <3>1. MarkOf(archive, a) \in Loaded(r)
      BY <2>2 DEF Loaded, MarkOf
    <3> QED BY <1>7, <3>1 DEF PassedSound, Passed
  <2>3. CASE a \notin x.files
    <3>1. PassedSound(archive, index, a, x.next)
      BY <1>3, <1>7, <2>3 DEF CursorSound
    <3> QED BY <1>7, <1>13, <3>1 DEF PassedSound, Passed
  <2> QED BY <2>1, <2>2, <2>3
<1>15. CandidatesHold(archive, index')
  <2>1. CursorSound(archive, index, index'.cursor, {})
    BY <1>3, <1>7 DEF CandidatesHold
  <2>2. index.collected \subseteq index'.collected /\ index'.tables = index.tables
    BY <1>7
  <2>3. CursorSound(archive, index', ReachedBy(q), InHand(q))
    BY <1>6, <1>14
  <2> HIDE DEF x
  <2> QED BY <1>3, <1>12, <1>13, <2>1, <2>2, <2>3, CandidatesGo
<1>16. play # {"summaries"}
  BY <1>2
<1> QED BY <1>1, <1>11, <1>15, <1>16, ReaderSteps

LEMMA AwayTyped ==
  /\ Away \in Reading(play) /\ Away.at = "idle" /\ Away.at \notin Collects
  /\ Away.at \notin HasReady /\ Away.at \notin InTransaction
BY DEF Reading, Away, HasReady, InTransaction, Collects

LEMMA AdvanceCursorKeeps ==
  ASSUME IndexSound, NEW r \in Reader, AdvanceCursor(r)
  PROVE  IndexSound'
<1> DEFINE x == index.reader[r]
<1>1. /\ x.at = "advance" /\ OnlyIndex
      /\ index' = [index EXCEPT !.cursor = x.next, !.reader[r] = Away]
  BY IndexFields DEF AdvanceCursor, ReaderAt, OnlyIndex, index_unchanged
<1>2. /\ play = {"candidates"} /\ x.next \in Nat
      /\ ReachedBy(x) = x.next /\ InHand(x) = {} /\ x.at \in Collects
  <2>1. x \in Reading(play)
    BY IndexFields
  <2>2. ReachedBy(x) = x.next /\ InHand(x) = {} /\ x.at \in Collects
    BY <1>1 DEF ReachedBy, InHand, Collects
  <2> QED BY <1>1, <2>1, <2>2, ReadingTyped
<1>3. CandidatesHold(archive, index) /\ CursorSound(archive, index, x.next, {})
  BY <1>2 DEF IndexSound, IndexKept, CandidatesHold
<1>4. /\ index'.tables = index.tables /\ index'.reader = [index.reader EXCEPT ![r] = Away]
      /\ index'.cursor = x.next /\ index'.collected = index.collected
      /\ index' = [tables |-> index.tables, cursor |-> x.next,
                   collected |-> index.collected, reader |-> [index.reader EXCEPT ![r] = Away]]
  BY <1>1, IndexFields
<1>5. index' \in IndexFiles(play)
  <2> HIDE DEF x
  <2> QED BY <1>2, <1>4, AwayTyped, IndexFields, IndexTyping
<1>6. index.tables.offset <= Len(archive.journal)
  BY IndexFields DEF IndexShape
<1>7. IndexTurns(play, archive, index, index', r, Away)
  BY <1>4, <1>5, <1>6, AwayTyped DEF IndexTurns, HasReady, InTransaction
<1>8. index'.reader[r] = Away /\ \A v \in Reader : v # r => index'.reader[v] = index.reader[v]
  BY <1>4, IndexFields
<1>9. \A a, offset, spent : Missed(archive, index, a, offset, spent) =>
                              Missed(archive, index', a, offset, spent)
  BY <1>7, AwayTyped, IndexFields, MissedTurns
<1>10. CandidatesHold(archive, index')
  <2>1. CursorSound(archive, index, index'.cursor, {})
    BY <1>3, <1>4
  <2>2. index.collected \subseteq index'.collected /\ index'.tables = index.tables
    BY <1>4
  <2> HIDE DEF x
  <2> QED BY <1>3, <1>8, <1>9, <2>1, <2>2, AwayTyped, CandidatesGo
<1>11. play # {"summaries"}
  BY <1>2
<1> QED BY <1>1, <1>7, <1>10, <1>11, ReaderSteps

LEMMA ReaderDiesKeeps ==
  ASSUME IndexSound, NEW r \in Reader, ReaderDies(r)
  PROVE  IndexSound'
<1>1. OnlyIndex /\ index' = [index EXCEPT !.reader[r] = Away]
  BY DEF ReaderDies, OnlyIndex, index_unchanged
<1>2. /\ IndexTurns(play, archive, index, index', r, Away) /\ index'.tables = index.tables
      /\ index'.collected = index.collected /\ index'.cursor = index.cursor
      /\ index'.reader[r] = Away /\ \A v \in Reader : v # r => index'.reader[v] = index.reader[v]
  BY <1>1, AwayTyped, ReaderChanges
<1>3. \A a, offset, spent : Missed(archive, index, a, offset, spent) =>
                              Missed(archive, index', a, offset, spent)
  BY <1>2, AwayTyped, IndexFields, MissedTurns
<1>4. play = {"summaries"} => SummariesHold(archive, index')
  BY <1>2, <1>3, SummariesGo DEF IndexSound, IndexKept
<1>5. play = {"candidates"} => CandidatesHold(archive, index')
  <2> SUFFICES ASSUME play = {"candidates"} PROVE CandidatesHold(archive, index')
    OBVIOUS
  <2>1. CandidatesHold(archive, index)
    BY DEF IndexSound, IndexKept
  <2>2. CursorSound(archive, index, index'.cursor, {}) /\ index.collected \subseteq index'.collected
    BY <1>2, <2>1 DEF CandidatesHold
  <2> QED BY <1>2, <1>3, <2>1, <2>2, AwayTyped, CandidatesGo
<1> QED BY <1>1, <1>2, <1>4, <1>5, ReaderSteps

LEMMA ClearRecoveredKeeps ==
  ASSUME IndexSound, NEW r \in Reader, ClearRecovered(r)
  PROVE  IndexSound'
<1> DEFINE x == index.reader[r]
           q == IF "summaries" \in play THEN Away ELSE [x EXCEPT !.at = "ingest"]
<1>1. /\ x.at = "clear" /\ play' = play
      /\ archive' = [archive EXCEPT !.markers = archive.markers \ x.ready]
      /\ index' = [index EXCEPT !.reader[r] = q]
  BY IndexFields DEF ClearRecovered, Cleared, ReaderAt, index_unchanged
<1>2. /\ q \in Reading(play)
      /\ play = {"summaries"} => q = Away
      /\ play = {"candidates"} => /\ q.at = "ingest" /\ ReachedBy(q) = ReachedBy(x)
                                  /\ InHand(q) = InHand(x) /\ x.at \in Collects
      /\ q.at \notin HasReady
  <2>1. x \in Reading(play)
    BY IndexFields
  <2>2. CASE play = {"summaries"}
    <3>1. q = Away /\ play # {"candidates"}
      BY <2>2
    <3> QED BY <3>1, AwayTyped
  <2>3. CASE play = {"candidates"}
    <3>1. x \in Collecting
      BY <1>1, <2>1, <2>3, ReadingTyped DEF Collects
    <3>2. q = [x EXCEPT !.at = "ingest"] /\ play # {"summaries"}
      BY <2>3
    <3>3. /\ q \in Collecting /\ q.at = "ingest" /\ ReachedBy(q) = ReachedBy(x)
          /\ InHand(q) = InHand(x) /\ x.at \in Collects
      BY <1>1, <3>1, <3>2 DEF Collecting, ReachedBy, InHand, Collects
    <3> QED BY <2>3, <3>2, <3>3 DEF Reading, HasReady, InTransaction
  <2>4. CASE play # {"summaries"} /\ play # {"candidates"}
    BY <1>1, <2>1, <2>4 DEF Reading, Away
  <2> QED BY <2>2, <2>3, <2>4
<1> HIDE DEF q
<1>3. /\ index'.tables = index.tables
      /\ index'.collected = index.collected /\ index'.cursor = index.cursor
      /\ index'.reader[r] = q /\ \A v \in Reader : v # r => index'.reader[v] = index.reader[v]
      /\ IndexTurns(play, archive, index, index', r, q)
  BY <1>1, <1>2, ReaderChanges DEF HasReady, InTransaction
<1>4. /\ archive'.content = archive.content /\ archive'.published = archive.published
      /\ archive'.journal = archive.journal /\ archive'.writer = archive.writer
      /\ archive'.unmarked = archive.unmarked /\ archive'.markers = archive.markers \ x.ready
      /\ archive' \in Archives
  <2> DEFINE M == archive.markers \ x.ready
  <2>1. M \in SUBSET Mark
    BY ArchiveFields
  <2> HIDE DEF M
  <2>2. archive' = [content |-> archive.content, published |-> archive.published,
                    journal |-> archive.journal, markers |-> M,
                    writer |-> archive.writer, unmarked |-> archive.unmarked]
    BY <1>1, ArchiveFields DEF M
  <2> QED BY <2>1, <2>2, ArchiveFields DEF Archives, M
<1>5. /\ IndexShape(play, archive', index') /\ Numbers(archive', index')
      /\ \A a, offset, spent : Missed(archive, index, a, offset, spent) =>
                                 Missed(archive', index', a, offset, spent)
  <2>1. q.at \notin InTransaction /\ q.at # "clear"
    BY <1>2 DEF HasReady
  <2>2. IndexShape(play, archive, index) /\ Numbers(archive, index)
    BY IndexFields
  <2>3. index.reader[r].at = "clear"
    BY <1>1
  <2>4. archive'.markers = archive.markers \ index.reader[r].ready
    BY <1>4
  <2> HIDE DEF x
  <2> QED BY <1>3, <1>4, <2>1, <2>2, <2>3, <2>4, ClearedKeeps
<1>6. play = {"summaries"} => SummariesHold(archive', index')
  BY <1>2, <1>3, <1>5, <1>4, SummariesGo DEF IndexSound, IndexKept
<1>7. play = {"candidates"} => CandidatesHold(archive', index')
  <2> SUFFICES ASSUME play = {"candidates"} PROVE CandidatesHold(archive', index')
    OBVIOUS
  <2>1. CandidatesHold(archive, index)
    BY DEF IndexSound, IndexKept
  <2>2. CursorSound(archive, index, index'.cursor, {}) /\ index.collected \subseteq index'.collected
    BY <1>3, <2>1 DEF CandidatesHold
  <2>3. CursorSound(archive, index, ReachedBy(q), InHand(q))
    BY <1>2, <2>1 DEF CandidatesHold
  <2> QED BY <1>3, <1>5, <1>4, <2>1, <2>2, <2>3, CandidatesGo
<1>8. IndexKept(play, archive', index')
  BY <1>5, <1>6, <1>7 DEF IndexKept
<1> QED BY <1>1, <1>8 DEF IndexSound

-----------------------------------------------------------------------------
(***************************************************************************)
(* All steps, and the indexes.                                             *)
(***************************************************************************)
LEMMA IndexStepKeeps ==
  ASSUME IndexSound, IndexStep
  PROVE  IndexSound'
<1>1. ASSUME NEW w \in Publisher,
             \/ PrepareMarker(w) \/ WriteArtifact(w) \/ AppendJournal(w) \/ ClearMarker(w)
             \/ PublisherDies(w) \/ \E a \in Artifacts : ClaimArtifact(w, a) \/ ReplaceArtifact(w, a)
      PROVE  IndexSound'
  BY <1>1, PrepareMarkerKeeps, WriteArtifactKeeps, AppendJournalKeeps, ClearMarkerKeeps,
     PublisherDiesKeeps, ClaimArtifactKeeps, ReplaceArtifactKeeps
<1>2. ASSUME NEW r \in Reader,
             \/ BeginSummaries(r) \/ ScanTasks(r) \/ ReadJournal(r) \/ CommitSummaries(r)
             \/ ClearRecovered(r) \/ BeginCollect(r) \/ PageCandidates(r) \/ Ingest(r)
             \/ AdvanceCursor(r) \/ ReaderDies(r)
      PROVE  IndexSound'
  BY <1>2, BeginSummariesKeeps, ScanTasksKeeps, ReadJournalKeeps, CommitSummariesKeeps,
     ClearRecoveredKeeps, BeginCollectKeeps, PageCandidatesKeeps, IngestKeeps,
     AdvanceCursorKeeps, ReaderDiesKeeps
<1> QED BY <1>1, <1>2, DeleteIndexKeeps DEF IndexStep

LEMMA IndexBegins ==
  ASSUME archive = NoArchive, index = NoIndex
  PROVE  IndexSound
<1>1. /\ archive.content = [a \in Artifacts |-> Absent] /\ archive.published = 0
      /\ archive.journal = <<>> /\ archive.markers = {} /\ archive.unmarked = {}
      /\ archive.writer = [w \in Publisher |-> Resting]
      /\ index.tables = EmptyTables /\ index.cursor = 0 /\ index.collected = {}
      /\ index.reader = [r \in Reader |-> Away]
  BY DEF NoArchive, NoIndex
<1>2. /\ \A w \in Publisher : archive.writer[w].at = "idle"
      /\ \A r \in Reader : index.reader[r].at = "idle"
      /\ \A a \in Artifacts : archive.content[a] = Absent /\ archive.content[a].n = 0
  BY <1>1 DEF Resting, Away, Absent
<1>3. archive \in Archives
  BY TablesTyped DEF NoArchive, Archives, Writing
<1>4. index \in IndexFiles(play)
  BY TablesTyped DEF NoIndex, IndexFiles, Reading
<1>5. Len(archive.journal) = 0 /\ index.tables.offset = 0
  BY <1>1, TablesTyped
<1>6. IndexShape(play, archive, index)
  BY <1>2, <1>3, <1>4, <1>5 DEF IndexShape, InTransaction
<1>7. Numbers(archive, index)
  BY <1>1, <1>2 DEF Numbers, HasReady, InTransaction
<1>8. SummariesHold(archive, index)
  BY <1>1, <1>2, TablesTyped DEF SummariesHold
<1>9. CandidatesHold(archive, index)
  <2>1. index.tables.last = 0 /\ ~index.tables.booted /\ \A a \in Artifacts : index.tables.sequence[a] = 0
    BY <1>1, TablesTyped DEF EmptyTables
  <2> QED BY <1>1, <1>2, <2>1 DEF CandidatesHold, CursorSound, Collects
<1> QED BY <1>6, <1>7, <1>8, <1>9 DEF IndexSound, IndexKept

\* What is missed is found, or excepted.
LEMMA MissedFound ==
  ASSUME NEW a, Missed(archive, index, a, index.tables.offset, {})
  PROVE  Found(a) \/ ~Known(a)
<1>1. CASE Ahead(archive, a, index.tables.offset)
  BY <1>1 DEF Ahead, Found, Unread
<1>2. CASE a \in archive.unmarked \/ archive.content[a] = Unwritten
  BY <1>2 DEF Known
<1>3. CASE MarkOf(archive, a) \in archive.markers
  BY <1>3 DEF MarkOf, Found
<1> QED BY <1>1, <1>2, <1>3 DEF Missed

LEMMA IndexesTell ==
  ASSUME IndexSound
  PROVE  IndexTruthful
<1>1. ASSUME play = {"summaries"}
      PROVE  SummariesRecoverable
  <2>1. SUFFICES ASSUME index.tables.booted, NEW t \in Tasks
                 PROVE  \/ index.tables.rows[t] = Summary(t)
                        \/ \E a \in FilesOf(t) : Found(a) \/ ~Known(a)
    BY DEF SummariesRecoverable
  <2>2. RowSound(archive, index, t, index.tables.rows[t], index.tables.offset, {})
    BY <1>1, <2>1 DEF IndexSound, IndexKept, SummariesHold
  <2>3. Summary(t) = SummaryOf(archive, t)
    BY SummaryTyped
  <2> QED BY <2>2, <2>3, MissedFound DEF RowSound
<1>2. ASSUME play = {"candidates"}
      PROVE  CollectionComplete
  <2>1. SUFFICES ASSUME index.tables.booted, NEW a \in Artifacts
                 PROVE  \/ archive.content[a] = Absent
                        \/ [file |-> a, n |-> archive.content[a].n] \in index.collected
                        \/ index.tables.sequence[a] > index.cursor
                        \/ Found(a) \/ ~Known(a)
    BY DEF CollectionComplete
  <2>2. CandidatesHold(archive, index)
    BY <1>2 DEF IndexSound, IndexKept
  <2>3. PassedSound(archive, index, a, index.cursor)
    BY <2>1, <2>2 DEF CandidatesHold, CursorSound
  <2> QED BY <2>3, MissedFound DEF PassedSound, Passed, MarkOf
<1> QED BY <1>1, <1>2 DEF IndexTruthful

-----------------------------------------------------------------------------
(***************************************************************************)
(* The theorems.                                                           *)
(***************************************************************************)
StreamKept == Sound(stream)

LEMMA BothStart ==
  ASSUME Init
  PROVE  Rows /\ StreamKept
BY RowsStart, SoundStart DEF Init, StreamKept

LEMMA BothStep ==
  ASSUME Rows, StreamKept, [Next]_vars
  PROVE  Rows' /\ StreamKept'
<1>1. Rows'
  BY RowsStep
<1>2. stream' = stream => Sound(stream')
  BY DEF StreamKept
<1>3. Sound(stream')
  <2>1. CASE Next
    BY <1>2, <2>1, StreamAlone, StreamSteps DEF StreamKept
  <2>2. CASE UNCHANGED vars
    BY <1>2, <2>2 DEF vars
  <2> QED BY <2>1, <2>2
<1> QED BY <1>1, <1>3 DEF StreamKept

\* What is proved below follows from this: in every state the rows of all
\* operations are in order, no two active ones own the same thing and the
\* workstream follows its files (finalize_monitor, the supervisors, the
\* reapers and checkpoint_workstream, at every step of each).
THEOREM InOrder == Spec => [](Rows /\ StreamKept)
<1>1. Rows /\ StreamKept /\ [Next]_vars => (Rows /\ StreamKept)'
  BY BothStep
<1>2. Init => Rows /\ StreamKept
  BY BothStart
<1> QED BY <1>1, <1>2, PTL DEF Spec

LEMMA PublicationTold ==
  ASSUME Rows, StreamKept
  PROVE  PublicationSound
<1>1. TypeOK
  BY Typed DEF StreamKept
<1>2. OutcomeAgrees
  BY FinishedTold DEF OutcomeAgrees
<1>3. SignalAgrees
  BY FinishedTold DEF SignalAgrees
<1> QED BY <1>1, <1>2, <1>3 DEF PublicationSound

\* A finished operation has one outcome in its descriptor, event, result and
\* evidence, and its chat was woken exactly when the policy asks for that
\* outcome, whoever of starter, supervisor and reaper published each file and
\* wherever one of them died (finalize_monitor, supervise_check,
\* recover_completed_monitor and recover_completed_check).
THEOREM PublicationIsSound == Spec => []PublicationSound
BY InOrder, PublicationTold, PTL

\* A detached check is never finished while its command runs, though its
\* supervisor may have died between any two of its writes (supervise_check,
\* recover_completed_check and reap_checks).
THEOREM NoOrphanIsLeft == Spec => []NoOrphanCommand
BY InOrder, NoOrphan, PTL

\* Two active monitors never share a run, a discovery or a pull request, also
\* when a run is discovered after another monitor claimed it (the duplicate
\* tests of the starts and claim_discovered_run).
THEOREM OwnersAreApart == Spec => []OneOwner
BY InOrder, Apartness, PTL

\* "ready" is published of exactly those snapshots the contract calls ready
\* (run_view of a pull request's snapshot).
THEOREM ReadinessIsSound == Spec => []ReadinessSound
BY InOrder, Readiness, PTL

LEMMA StreamTold ==
  ASSUME Rows, StreamKept
  PROVE  StreamSound
BY StreamIsSound DEF StreamKept

\* A workstream follows its checkpoint files at most one behind, counts what
\* they consumed, stays within the limit of an unchanged policy and writes
\* nothing after a completion, for every number of checkpoints, whatever
\* crashes between a checkpoint and its application.
THEOREM StreamStaysSound == Spec => []StreamSound
BY InOrder, StreamTold, PTL

LEMMA DecisionsKept ==
  ASSUME Rows, StreamKept, [Next]_vars
  PROVE  /\ [\A op \in Op : Terminal(op) /\ Clean(op) => desc'[op].status = desc[op].status]_desc
         /\ [\A i \in stream'.delivered \ stream.delivered :
                /\ i = Len(stream.files) /\ stream.files[i] = "continue"
                /\ stream'.status = "active" /\ ~stream.expired]_stream
<1>1. CASE Next
  BY <1>1, VerdictsStand, DeliveryAuthorised DEF StreamKept
<1>2. CASE UNCHANGED vars
  BY <1>2 DEF vars
<1> QED BY <1>1, <1>2

\* No step of anyone takes the status of a finished operation back, and a
\* continuation is delivered only while it is the last decision of a
\* workstream that is active and not expired (finalize_monitor's early
\* returns, continuation_delivery_guard).
THEOREM DecisionsAreKept == Spec => DecisionsStand
<1>1. Rows /\ StreamKept /\ [Next]_vars =>
        [\A op \in Op : Terminal(op) /\ Clean(op) => desc'[op].status = desc[op].status]_desc
  BY DecisionsKept
<1>2. Rows /\ StreamKept /\ [Next]_vars =>
        [\A i \in stream'.delivered \ stream.delivered :
            /\ i = Len(stream.files) /\ stream.files[i] = "continue"
            /\ stream'.status = "active" /\ ~stream.expired]_stream
  BY DecisionsKept
<1> QED BY <1>1, <1>2, InOrder, PTL DEF Spec, DecisionsStand, VerdictFinal, OnlyAuthorised

\* Every behaviour of checks and monitors is one of the simple promise of
\* DetachedOutcome: an admitted operation gets one outcome, it is announced
\* only after it is retained, and neither is taken back.
THEOREM OutcomeIsRefined == Spec => RefinesOutcome
<1>1. Init => Promise!Init
  BY PromiseStart
<1>2. Rows /\ StreamKept /\ [Next]_vars => [Promise!Next]_(Promise!vars)
  BY PromiseKept
<1> QED BY <1>1, <1>2, InOrder, PTL DEF Spec, RefinesOutcome, Promise!Spec

LEMMA IndexesStep ==
  ASSUME IndexSound, [Next]_vars
  PROVE  IndexSound'
<1>1. UNCHANGED <<play, archive, index>> => IndexSound'
  BY DEF IndexSound
<1>2. CASE Next
  BY <1>1, <1>2, IndexAlone, IndexStepKeeps
<1>3. CASE UNCHANGED vars
  BY <1>1, <1>3 DEF vars
<1> QED BY <1>2, <1>3

\* In every state, whatever an index has not taken up of a published artifact
\* is announced by its journal or by a marker that nobody is about to remove,
\* for every number of publishers, readers and publications, wherever one of
\* them dies (atomic_json, claim_json, clear_index_recovery_markers,
\* _refresh_task_index and _refresh_candidate_index).
THEOREM IndexesInOrder == Spec => []IndexSound
<1>1. IndexSound /\ [Next]_vars => IndexSound'
  BY IndexesStep
<1>2. Init => IndexSound
  BY IndexBegins DEF Init
<1> QED BY <1>1, <1>2, PTL DEF Spec

LEMMA ReportsTold ==
  ASSUME Rows, IndexSound
  PROVE  ReportsTrue
BY WaitsTold, IndexesTell DEF ReportsTrue

\* What is reported is true: a wait that ends tells what the retained events
\* of the finished operations say, the wakeups it does not announce do not
\* come (operation_snapshot, operation_wait_snapshot), and neither the task
\* summaries nor the collected candidates miss a publication for good
\* (_diagnose_tasks_indexed, collect_orchestrator_engine).
THEOREM ReportsStayTrue == Spec => []ReportsTrue
BY InOrder, IndexesInOrder, ReportsTold, PTL
=============================================================================
