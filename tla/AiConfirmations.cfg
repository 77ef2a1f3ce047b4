SPECIFICATION ConversationSpec

CONSTANTS
    k1 = k1
    p1 = p1
    r1 = r1
    r2 = r2
    r3 = r3
    MonthLengths <- ShortMonth
    Requests = {r1, r2, r3}
    Messages = {k1}
    NoMessage = NoMessage
    Limit = 1
    FirstMoment = 2
    LastMoment = 2
    Renewals = 0
    Proposals = {p1}
    NoRequest = NoRequest
    MaxConfirmations = 1

SYMMETRY RequestSymmetry

INVARIANT MutationRunsOnce
INVARIANT RejectedNeverRuns
 
 
PROPERTY DecisionIsFinal

CHECK_DEADLOCK FALSE
