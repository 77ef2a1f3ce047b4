SPECIFICATION FairClaimSpec

CONSTANTS
    c1 = c1
    u2 = u2
    w1 = w1
    w2 = w2
    m1 = m1
    m2 = m2
    u1 = u1
    Workers = {w1, w2}
    Users = {u1, u2}
    NoUser = NoUser
    Members = {m1, m2}
    Claims = {c1}
    NoRow = NoRow
    Roles = {}
    Operations = {"remove"}
    InitialMembers <- OwnerAndMember
    AgedSnapshots = FALSE

PROPERTY RequestsEnd

CHECK_DEADLOCK FALSE
