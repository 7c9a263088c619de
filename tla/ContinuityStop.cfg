CONSTANTS
    None = none
    alice = alice
    bob = bob
    w1 = w1
    o1 = o1
    o2 = o2
    q1 = q1
    q2 = q2
    r1 = r1
    r2 = r2
    n1 = n1
    s1 = s1
    Actor = {alice, bob}
    Work = {w1}
    Obligation = {o1, o2, q1, q2}
    Request = {r1, r2, n1}
    External = {s1}
    WorkOf <- MCWorkOf
    Assignee <- MCAssignee
    ReturnActor <- MCReturnActor
    DebtOf <- MCDebtOf
    Required = {q1, o2}
    Reminders <- MCReminders
    Controller = {alice}
    Founder = {alice}
    Agendas <- MCAgendas
    WaitModes = {TRUE, FALSE}
    Ids <- MCIds
    EntryLimit = 1
    PageLimit = 1
    Nodes = {o1, q1, q2}
SPECIFICATION Spec
CHECK_DEADLOCK FALSE
INVARIANT StopSuppresses
