------------------------------ MODULE MCContinuity ------------------------------
(* A small instance of Continuity: one work of two actors; the plain       *)
(* obligations o1 and o2; the requests r1 and r2 with the reply            *)
(* obligations q1 and q2; the informational request n1; the external       *)
(* source s1.  Those with an odd number have a reminder.                   *)
EXTENDS ContinuityViews, TLC

CONSTANTS alice, bob, w1, o1, o2, q1, q2, r1, r2, n1, s1

MCIds == <<n1, o1, o2, q1, q2, r1, r2, s1>>
MCWorkOf == [x \in {o1, o2, q1, q2, r1, r2, n1} |-> w1]
MCAssignee == [x \in {o1, o2, q1, q2, r1, r2, n1} |-> bob]
MCReturnActor == [x \in {r1, r2, n1} |-> alice]
MCDebtOf == (r1 :> q1) @@ (r2 :> q2) @@ (n1 :> None)
MCReminders == (o1 :> 1) @@ (o2 :> 0) @@ (q1 :> 1) @@ (q2 :> 0)

Agenda(uses, modes, assignments, recovery, bounds) ==
    [uses |-> uses, modes |-> modes, assignments |-> assignments, recovery |-> recovery,
     publishes |-> FALSE, rows |-> bounds[1], revisions |-> bounds[2],
     generations |-> bounds[3], disruptions |-> bounds[4]]

MCAgendas ==
    {Agenda({r2}, {"waiting", "complete"}, {}, "adopt", <<4, 3, 2, 1>>),
     Agenda({r2}, {"waiting"}, {}, "none", <<4, 2, 3, 2>>),
     Agenda({r2}, {"complete"}, {"continue", "waiting", "paused"}, "default", <<4, 2, 2, 1>>),
     Agenda({r1}, {"paused"}, {"continue"}, "adopt", <<4, 2, 2, 1>>),
     Agenda({n1, r2}, {}, {}, "none", <<3, 2, 2, 2>>),
     Agenda({o2}, {"waiting", "paused"}, {}, "adopt", <<4, 3, 2, 1>>),
     Agenda({o2}, {"complete"}, {"continue"}, "adopt", <<3, 2, 2, 1>>),
     Agenda({o1}, {"continue", "complete"}, {}, "none", <<4, 2, 2, 2>>),
     Agenda({o2, r2}, {"waiting"}, {"waiting"}, "none", <<5, 2, 2, 0>>),
     Agenda({o2, s1}, {"waiting"}, {"waiting"}, "none", <<4, 2, 2, 0>>),
     Agenda({o2, s1}, {}, {"waiting"}, "none", <<3, 2, 3, 1>>),
     Agenda({s1}, {"waiting"}, {}, "none", <<4, 4, 2, 1>>),
     [Agenda({n1}, {"continue"}, {}, "none", <<2, 2, 2, 1>>) EXCEPT !.publishes = TRUE],
     [Agenda({o2}, {"waiting"}, {}, "none", <<2, 2, 2, 1>>) EXCEPT !.publishes = TRUE]}
=============================================================================
