------------------------------ MODULE Workstream ------------------------------
(* A workstream (workstreams.py): an operator's checkpoints decide whether *)
(* the chat is woken once more to continue.  A checkpoint is a file, its   *)
(* application to the descriptor and, for a continuation, a signal, written*)
(* in that order under the workstream's lock; every other operation first  *)
(* reconciles what a crash left undone.  The state is the record stream:   *)
(*   status, used, active, limit, revision  the descriptor: its status, the*)
(*             continuations used, the authorised one, the policy          *)
(*   applied   the checkpoints applied (checkpoint_count)                  *)
(*   files     the effective decisions of the checkpoint files, in order   *)
(*   signals, seen, delivered   the checkpoints with a signal in the inbox,*)
(*             with one the watcher is done with, with one it delivered    *)
(*   writing   a checkpoint command is between its writes                  *)
(*   expired   the wall-clock limit has passed                             *)
EXTENDS DetachedOperations

CONSTANTS
    Decision,           \* the decisions an operator takes
    MaxCheckpoints,     \* bound on the checkpoints
    Limit,              \* the continuations first allowed, or None
    NewLimit            \* limits that an operator may set later

ASSUME LimitAssumption == MaxCheckpoints \in Nat /\ Limit \in Nat \cup {None}

AUTOMATIC_DECISIONS == {"continue", "waiting_external"}

NoStream == [status |-> "absent", used |-> 0, active |-> 0, limit |-> Limit, revision |-> 0,
             applied |-> 0, files |-> <<>>, signals |-> {}, seen |-> {}, delivered |-> {},
             writing |-> FALSE, expired |-> FALSE]

(* _apply_checkpoint, for the checkpoint after those applied.              *)
Applied(s) ==
    LET i == s.applied + 1
        d == s.files[i]
    IN IF i > Len(s.files) \/ s.status = "complete" THEN s
       ELSE [s EXCEPT !.status = IF d = "continue" THEN "active" ELSE d,
                      !.applied = i,
                      !.used = IF d \in AUTOMATIC_DECISIONS THEN @ + 1 ELSE @,
                      !.active = IF d = "continue" THEN i ELSE 0]

(* Variant: a signal that is missing is not looked for.                   *)
Published_Never(s) == s

(* _ensure_checkpoint_event, for every applied continuation without a      *)
(* signal, however old it is.                                              *)
Published(s) ==
    [s EXCEPT !.signals = @ \cup {i \in 1..s.applied : s.files[i] = "continue"}]

Expired(s) ==
    IF s.expired /\ s.status \in {"active", "waiting_external"}
    THEN [s EXCEPT !.status = "needs_user", !.active = 0] ELSE s

(* _reconcile_locked                                                       *)
Reconciled(s) == Expired(Published(Applied(s)))

(* Variant: one continuation too many.                                     *)
limit_reason_OffByOne(s) == (s.limit # None /\ s.used > s.limit) \/ s.expired

limit_reason(s) == (s.limit # None /\ s.used >= s.limit) \/ s.expired

-----------------------------------------------------------------------------
stream_unchanged == <<play, desc, launch, files, processes, cancel, archive, index>>
Free == "stream" \in play /\ stream.status # "absent" /\ ~stream.writing

StartStream ==
    /\ "stream" \in play
    /\ stream.status = "absent"
    /\ stream' = [stream EXCEPT !.status = "active"]
    /\ UNCHANGED <<stream_unchanged, faults>>

(* Variant: without the reconciliation.                                    *)
Checkpoint_Raw ==
    /\ Free
    /\ Len(stream.files) < MaxCheckpoints
    /\ LET s == stream
       IN /\ s.status # "complete"
          /\ \E d \in Decision :
               /\ d = "continue" => s.status = "active"
               /\ LET effective == IF d \in AUTOMATIC_DECISIONS /\ limit_reason(s)
                                   THEN "needs_user" ELSE d
                  IN stream' = [s EXCEPT !.files = Append(@, effective), !.writing = TRUE]
    /\ UNCHANGED <<stream_unchanged, faults>>

(* checkpoint_workstream up to the checkpoint file.  Past a limit an       *)
(* automatic decision becomes a question to the user.                      *)
Checkpoint ==
    /\ Free
    /\ Len(stream.files) < MaxCheckpoints
    /\ LET s == Reconciled(stream)
       IN /\ s.status # "complete"
          /\ \E d \in Decision :
               /\ d = "continue" => s.status = "active"
               /\ LET effective == IF d \in AUTOMATIC_DECISIONS /\ limit_reason(s)
                                   THEN "needs_user" ELSE d
                  IN stream' = [s EXCEPT !.files = Append(@, effective), !.writing = TRUE]
    /\ UNCHANGED <<stream_unchanged, faults>>

ApplyCheckpoint ==
    /\ stream.writing
    /\ stream.applied < Len(stream.files)
    /\ stream' = [Applied(stream) EXCEPT !.writing = stream.files[stream.applied + 1] = "continue"]
    /\ UNCHANGED <<stream_unchanged, faults>>

PublishCheckpoint ==
    /\ stream.writing
    /\ stream.applied = Len(stream.files)
    /\ stream' = [stream EXCEPT !.signals = @ \cup {stream.applied}, !.writing = FALSE]
    /\ UNCHANGED <<stream_unchanged, faults>>

(* The command dies between two of its writes.                             *)
CheckpointDies ==
    /\ stream.writing
    /\ Fails("checkpoint")
    /\ stream' = [stream EXCEPT !.writing = FALSE]
    /\ UNCHANGED stream_unchanged

(* The watcher's reconcile_workstreams, a repeated checkpoint, or any      *)
(* command that is refused after it reconciled.                            *)
ReconcileStream ==
    /\ Free
    /\ stream' = Reconciled(stream)
    /\ UNCHANGED <<stream_unchanged, faults>>

(* The process that reconciles dies between two of its writes.             *)
ReconcileDies ==
    /\ Free
    /\ Fails("checkpoint")
    /\ stream' \in {Applied(stream), Published(Applied(stream))}
    /\ UNCHANGED stream_unchanged

(* set_workstream_policy reconciles nothing.                               *)
SetPolicy ==
    /\ Free
    /\ stream.revision = 0
    /\ \E l \in NewLimit \ {stream.limit} :
         stream' = [stream EXCEPT !.limit = l, !.revision = 1]
    /\ UNCHANGED <<stream_unchanged, faults>>

(* resume_workstream                                                       *)
ResumeStream ==
    /\ Free
    /\ LET s == Reconciled(stream)
       IN /\ s.status \notin {"complete", "active"}
          /\ stream' = [s EXCEPT !.status = "active", !.active = 0]
    /\ UNCHANGED <<stream_unchanged, faults>>

(* Variant: the guard reads the descriptor as it is.                       *)
DeliverContinuation_Raw(i) ==
    /\ Free
    /\ i \in stream.signals \ stream.seen
    /\ LET s == stream
       IN IF s.status # "active" \/ s.active # i
          THEN stream' = [s EXCEPT !.seen = @ \cup {i}]
          ELSE stream' = [s EXCEPT !.seen = @ \cup {i}, !.delivered = @ \cup {i}]
    /\ UNCHANGED <<stream_unchanged, faults>>

(* continuation_delivery_guard: under the lock and after a reconciliation  *)
(* only the authorised continuation of an active workstream is delivered;  *)
(* any other signal is marked seen.  A delivery may fail and is then tried *)
(* again.                                                                  *)
DeliverContinuation(i) ==
    /\ Free
    /\ i \in stream.signals \ stream.seen
    /\ LET s == Reconciled(stream)
       IN IF s.status # "active" \/ s.active # i
          THEN stream' = [s EXCEPT !.seen = @ \cup {i}]
          ELSE stream' = [s EXCEPT !.seen = @ \cup {i}, !.delivered = @ \cup {i}]
    /\ UNCHANGED <<stream_unchanged, faults>>

(* A file error within the guard counts as an invalid state: the signal is *)
(* suppressed for good.                                                    *)
GuardRaises(i) ==
    /\ Free
    /\ i \in stream.signals \ stream.seen
    /\ Fails("guard")
    /\ stream' = [stream EXCEPT !.seen = @ \cup {i}]
    /\ UNCHANGED stream_unchanged

WallClockPasses ==
    /\ "stream" \in play
    /\ stream.status # "absent" /\ ~stream.expired
    /\ stream' = [stream EXCEPT !.expired = TRUE]
    /\ UNCHANGED <<stream_unchanged, faults>>
=============================================================================
