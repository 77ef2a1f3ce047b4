SPECIFICATION InvitationSpec

CONSTANTS
    i1 = i1
    i2 = i2
    u3 = u3
    w1 = w1
    w2 = w2
    m1 = m1
    m2 = m2
    m3 = m3
    u1 = u1
    u2 = u2
    Workers = {w1, w2}
    Users = {u1, u2, u3}
    NoUser = NoUser
    Members = {m1, m2, m3}
    Claims = {}
    NoRow = NoRow
    Roles = {"MEMBER"}
    Operations = {"remove", "restore", "archive"}
    InitialMembers <- ArchivedOwner
    AgedSnapshots = FALSE
    Invitations = {i1, i2}
    Anyone = Anyone

SYMMETRY InvitationSymmetry

PROPERTY InvitationIsSingleUse
PROPERTY JoinsByUsableInvitation

CHECK_DEADLOCK FALSE
