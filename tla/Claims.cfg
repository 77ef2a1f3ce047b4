SPECIFICATION ClaimSpec

CONSTANTS
    c1 = c1
    c2 = c2
    u2 = u2
    u3 = u3
    w1 = w1
    w2 = w2
    m1 = m1
    m2 = m2
    u1 = u1
    Workers = {w1, w2}
    Users = {u1, u2, u3}
    NoUser = NoUser
    Members = {m1, m2}
    Claims = {c1, c2}
    NoRow = NoRow
    Roles = {"OWNER"}
    Operations = {"archive", "restore", "updateRole"}
    InitialMembers <- OwnerAndMember
    AgedSnapshots = FALSE

SYMMETRY ClaimSymmetry

 
PROPERTY LinkIsStable
PROPERTY LinkedMemberIsActive
PROPERTY ClaimantIsStable

CHECK_DEADLOCK FALSE
