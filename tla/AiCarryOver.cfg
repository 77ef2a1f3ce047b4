SPECIFICATION AllowanceSpec

CONSTANTS
    k1 = k1
    k2 = k2
    r1 = r1
    r2 = r2
    r3 = r3
    MonthLengths <- ShortMonth
    Requests = {r1, r2, r3}
    Messages = {k1, k2}
    NoMessage = NoMessage
    Limit = 1
    FirstMoment = 5
    LastMoment = 7
    Renewals = 1

SYMMETRY ChatSymmetry

INVARIANT CountersMatchRequests
INVARIANT MessageIsAnsweredOnce
INVARIANT AllowanceIsKept
INVARIANT HeldActionsAreCounted

CHECK_DEADLOCK FALSE
