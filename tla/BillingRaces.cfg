SPECIFICATION Spec

CONSTANTS
    o1 = o1
    o2 = o2
    w1 = w1
    w2 = w2
    Month = 3
    GracePeriod = 2
    NoOrder = NoOrder
    Orders = {o1, o2}
    PaidReports = {"success"}
    Sums = {TRUE}
    MaxEvents = 2
    Workers = {w1, w2}
    LegacyOrders = {o1}
    RolloutWindow = 0
    Stamped = FALSE
    MaxAttempts = 3
    MaxTime = 1

SYMMETRY WorkerSymmetry

INVARIANT RenewingOrderIsNotStopped
INVARIANT SupersededOrderIsQueued
INVARIANT ChargingOrderIsTracked
INVARIANT CanceledOrderIsQueued
PROPERTY ImplementsLedger
PROPERTY EveryCreditAddsAMonth

CHECK_DEADLOCK FALSE
