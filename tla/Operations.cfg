SPECIFICATION Spec
CONSTANTS
    None = None
    c1 = c1
    c2 = c2
    c3 = c3
    a1 = a1
    a2 = a2
    a3 = a3
    a4 = a4
    a5 = a5
    p1 = p1
    p2 = p2
    p3 = p3
    r1 = r1
    r2 = r2
    sha = sha
    workflow = workflow
    pr = pr
    t1 = t1
    t2 = t2
    d1 = d1
    f1 = f1
    x = x
    Check = {c1, c2, c3}
    Actions = {a1, a2, a3, a4, a5}
    Pull = {p1, p2, p3}
    WakePolicy <- MCWakePolicy
    Plays <- MCPlays
    Sorted <- MCSorted
    FaultKind <- MCFaultKind
    MaxFaults <- MCMaxFaults
    Execution <- MCExecution
    Level <- MCLevel
    Expected <- MCExpected
    Medians <- MCMedians
    Threshold = 2
    Suite <- MCSuite
    Requested <- MCRequested
    DiscoveryKey <- MCDiscoveryKey
    Matches <- MCMatches
    RetryOf <- MCRetryOf
    Timed = {a3, a4, a5}
    Views <- MCViews
    PullKey <- MCPullKey
    PullRetryOf <- MCPullRetryOf
    Samples <- MCSamples
    Approval <- MCApproval
    Decision <- MCDecision
    MaxCheckpoints = 4
    Limit = 2
    NewLimit <- MCNewLimit
    Artifact <- MCArtifact
    Exclusive = {f1}
    Descriptor = {d1}
    TaskOf <- MCTaskOf
    Publisher = {x}
    Reader = {x}
    MaxPublications = 2
    Maximum = 1
CHECK_DEADLOCK FALSE
INVARIANTS
    PublicationSound
    NoOrphanCommand
    OneOwner
    ReadinessSound
    StreamSound
    ReportsTrue
PROPERTIES
    DecisionsStand
    RefinesOutcome
    Progress
