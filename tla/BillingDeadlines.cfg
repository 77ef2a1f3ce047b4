SPECIFICATION Spec

CONSTANTS
    o1 = o1
    w1 = w1
    Month = 2
    GracePeriod = 2
    NoOrder = NoOrder
    Orders = {o1}
    PaidReports = {"success", "subscribed"}
    Sums = {TRUE}
    MaxEvents = 3
    Workers = {w1}
    LegacyOrders = {}
    RolloutWindow = 0
    Stamped = TRUE
    MaxAttempts = 3
    MaxTime = 4

INVARIANT PaymentIsCreditedOnce
PROPERTY AccessReturnsOnlyWhenPaid
 

CHECK_DEADLOCK FALSE
