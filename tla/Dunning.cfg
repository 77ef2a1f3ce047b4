SPECIFICATION DunningSpec

CONSTANTS
    job = job
    o1 = o1
    w1 = w1
    Month = 2
    GracePeriod = 2
    NoOrder = NoOrder
    Orders = {o1}
    PaidReports = {"success"}
    Sums = {TRUE, FALSE}
    MaxEvents = 1
    Workers = {w1, job}
    LegacyOrders = {o1}
    RolloutWindow = 0
    Stamped = FALSE
    MaxAttempts = 3
    MaxTime = 6
    AdminOperations = {"GRANT", "REVOKE", "CLOSE", "RESTORE"}
    Job = job
    ReconciliationGrace = 1
    WindowStaleDays = 1
    TransitionWindow = 2

PROPERTY AccessEndsOnlyAtItsDeadline
PROPERTY ArrearsNeedAReason
PROPERTY JobLeavesExemptAlone

CHECK_DEADLOCK FALSE
