---------------------------- MODULE RequestLifecycle ----------------------------
(***************************************************************************)
(* What continuity promises about a request between two chats, whatever    *)
(* happens to the messages about it: it is owed once it is sent, only the  *)
(* current holder of the debt answers it, it is answered once, and only    *)
(* the holder of the reply handles it.  A holder may lose its hold (a new  *)
(* endpoint, a checkpoint) and must then take it again; an informational   *)
(* request is over when it is read.                                        *)
(***************************************************************************)
CONSTANTS
    Request,       \* the requests
    Informational  \* those that call for no reply

VARIABLES
    phase,         \* unsent, owed, answered, handled or read
    holder         \* whether somebody holds the debt or the reply

lifecycle == <<phase, holder>>

Init ==
    /\ phase = [r \in Request |-> "unsent"]
    /\ holder = [r \in Request |-> FALSE]

Step(r, from, to, held, holds) ==
    /\ phase[r] = from /\ holder[r] = held
    /\ phase' = [phase EXCEPT ![r] = to]
    /\ holder' = [holder EXCEPT ![r] = holds]

Send(r) == Step(r, "unsent", "owed", FALSE, FALSE)
Read(r) == r \in Informational /\ Step(r, "owed", "read", FALSE, FALSE)
Answer(r) == r \notin Informational /\ Step(r, "owed", "answered", TRUE, FALSE)
Handle(r) == r \notin Informational /\ Step(r, "answered", "handled", TRUE, FALSE)

Take(r) == /\ r \notin Informational
           /\ \E at \in {"owed", "answered"} : Step(r, at, at, FALSE, TRUE)

(* A new endpoint or a checkpoint ends the holds of several requests.      *)
Lose(S) ==
    /\ S # {} /\ \A r \in S : holder[r]
    /\ holder' = [r \in Request |-> holder[r] /\ r \notin S]
    /\ UNCHANGED phase

Next ==
    \/ \E r \in Request : Send(r) \/ Read(r) \/ Take(r) \/ Answer(r) \/ Handle(r)
    \/ \E S \in SUBSET Request : Lose(S)

Spec == Init /\ [][Next]_lifecycle

TypeOK ==
    /\ phase \in [Request -> {"unsent", "owed", "answered", "handled", "read"}]
    /\ holder \in [Request -> BOOLEAN]

(* A debt is held only while it is due: never before it is sent, never     *)
(* after it is over, never by the reader of an informational request.      *)
HeldIsDue ==
    \A r \in Request : holder[r] => phase[r] \in {"owed", "answered"} /\ r \notin Informational

(* No request goes back: one that is over stays over, an answered one is   *)
(* never owed again, and an answer is given only by the holder.            *)
Progress ==
    \A r \in Request :
        /\ phase[r] \in {"handled", "read"} => phase'[r] = phase[r]
        /\ phase[r] = "answered" => phase'[r] \in {"answered", "handled"}
        /\ phase'[r] \notin {"unsent", "owed"} /\ phase[r] \in {"unsent", "owed"}
                => phase[r] = "owed" /\ (holder[r] \/ r \in Informational)

NeverBack == [][Progress]_lifecycle
=============================================================================
