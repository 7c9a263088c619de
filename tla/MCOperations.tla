----------------------------- MODULE MCOperations -----------------------------
(* Small instances of Operations: checks c1 (auto, two commands, the       *)
(* second optional), c2 (foreground) and c3 (detached); monitors of one    *)
(* run or one commit that discovers it: a1 (of the run), a2 (of the        *)
(* commit), a3 (of the commit and a workflow), a4 (retries a2),            *)
(* a5 (of another run); the first four only settle on success.  Monitors   *)
(* of one pull request: p1, p2 (retries p1) and p3, which sees every       *)
(* snapshot and asks for an approval.  Artifacts d1 (replaced) and f1      *)
(* (published once) of two tasks.                                          *)
EXTENDS OperationWait, TLC

CONSTANTS c1, c2, c3, a1, a2, a3, a4, a5, p1, p2, p3, r1, r2, sha, workflow, pr,
    t1, t2, d1, f1, x

MCSorted == <<c1, c2, c3, a1, a2, a3, a4, a5, p1, p2, p3>>
MCMaxFaults ==
    ({c1} :> 3) @@ ({c2} :> 2) @@ ({c3} :> 3) @@ ({a1} :> 2) @@ ({a5} :> 2) @@
    ({a1, a2} :> 0) @@ ({a2, a3} :> 0) @@ ({a2, a4} :> 1) @@
    ({p1, p2} :> 1) @@ ({p3} :> 0) @@ ({"stream"} :> 1) @@
    ({"summaries"} :> 1) @@ ({"candidates"} :> 1)
MCPlays == DOMAIN MCMaxFaults

MCWakePolicy ==
    (c1 :> "auto") @@ (c2 :> "on-failure") @@ (c3 :> "never") @@
    (a1 :> "on-failure") @@ (a2 :> "always") @@ (a3 :> "action-required") @@ (a4 :> "always") @@
    (a5 :> "on-failure") @@
    (p1 :> "on-failure") @@ (p2 :> "on-failure") @@ (p3 :> "action-required")

MCExecution == (c1 :> "auto") @@ (c2 :> "foreground") @@ (c3 :> "detached")
MCLevel == (c1 :> "fast") @@ (c2 :> "full") @@ (c3 :> "full")
MCExpected == (c1 :> 1) @@ (c2 :> None) @@ (c3 :> None)
MCMedians == {None, 5}
MCSuite == (c1 :> <<TRUE, FALSE>>) @@ (c2 :> <<TRUE>>) @@ (c3 :> <<TRUE>>)

MCRequested == (a1 :> r1) @@ (a2 :> None) @@ (a3 :> None) @@ (a4 :> None) @@
    (a5 :> None)
MCDiscoveryKey == (a1 :> None) @@ (a2 :> sha) @@ (a3 :> workflow) @@ (a4 :> sha) @@
    (a5 :> sha)
MCMatches == (sha :> {r1, r2}) @@ (workflow :> {r1})
MCRetryOf == (a1 :> None) @@ (a2 :> None) @@ (a3 :> None) @@ (a4 :> a2) @@
    (a5 :> None)
MCViews ==
    LET Success == Observed("completed", "success")
        Plain == (a1 :> {Success}) @@ (a2 :> {Success}) @@ (a3 :> {Success}) @@ (a4 :> {Success})
    IN Plain @@ (a5 :> {Success, Observed("completed", "timed_out"), Seen("unavailable"),
                        Seen("ambiguous")})

MCPullKey == (p1 :> pr) @@ (p2 :> pr) @@ (p3 :> pr)
MCPullRetryOf == (p1 :> None) @@ (p2 :> p1) @@ (p3 :> None)

MCChecks ==
    LET Succeeded == CheckItem("CheckRun", "COMPLETED", "SUCCESS")
    IN {{}, {Succeeded, CheckItem("CheckRun", "COMPLETED", "STALE")},
        {CheckItem("CheckRun", "IN_PROGRESS", "")}, {CheckItem("StatusContext", "ERROR", "")},
        {Succeeded, CheckItem("StatusContext", "EXPECTED", "")}, {Succeeded},
        {CheckItem("Check", "", "")}}
MCSamples ==
    LET Plain == {s \in Snapshots({{}}) : s.identity /\ ~s.draft /\ s.mergeable = "MERGEABLE"
                                            /\ s.review = "" /\ s.state # "MERGED"}
        Wrong == {s \in Snapshots({{}}) : ~(s.identity /\ s.head) /\ ~s.draft}
    IN (p1 :> Plain) @@ (p2 :> Plain) @@
       (p3 :> Wrong \cup {s \in Snapshots(MCChecks) : s.identity /\ s.head})
MCApproval == {p3}

MCFaultKind ==
    [p \in MCPlays |->
        IF p \in {{a1, a2}, {a2, a3}, {a2, a4}} THEN {"supervisor"}
        ELSE {"spawn", "probe", "supervisor", "starter", "reaper", "files", "suite", "binding",
              "command", "checkpoint", "guard", "marker", "journal", "publisher", "reader", "deleted"}]
MCDecision == {"continue", "waiting_external", "paused", "complete"}
MCNewLimit == {None, 3}

MCArtifact == <<d1, f1>>
MCTaskOf == (d1 :> t1) @@ (f1 :> t2)
=============================================================================
