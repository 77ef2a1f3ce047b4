SPECIFICATION FairDunningSpec

CONSTANTS
    job = job
    o1 = o1
    w1 = w1
    Month = 2
    GracePeriod = 1
    NoOrder = NoOrder
    Orders = {o1}
    PaidReports = {"success"}
    Sums = {TRUE}
    MaxEvents = 1
    Workers = {w1, job}
    LegacyOrders = {o1}
    RolloutWindow = 2
    Stamped = FALSE
    MaxAttempts = 3
    MaxTime = 5
    AdminOperations = {}
    Job = job
    ReconciliationGrace = 1
    WindowStaleDays = 1
    TransitionWindow = 2

PROPERTY QueuedOrderIsStopped
PROPERTY SilenceIsNoticed
PROPERTY OverdueIsClosed
PROPERTY StaleWindowIsNotSpent

CHECK_DEADLOCK FALSE
