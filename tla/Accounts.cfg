SPECIFICATION RequestsSpec

CONSTANTS
    k1 = k1
    q1 = q1
    q2 = q2
    t1 = t1
    u2 = u2
    w1 = w1
    w2 = w2
    u1 = u1
    a1 = a1
    Workers = {w1, w2}
    Users = {u1, u2}
    NoUser = NoUser
    Addresses = {a1}
    NoAddress = NoAddress
    Tokens = {t1}
    NoToken = NoToken
    Passkeys = {k1}
    NoPasskey = NoPasskey
    TelegramUsers = {}
    InitialUsers <- OneUser
    InitialMail <- OneMail
    MaxAttempts = 1
    OrganizationRequests = {q1, q2}
    NoRequest = NoRequest

SYMMETRY RequestSymmetry

INVARIANT TokenIsUsedOnce
INVARIANT VerifiedAddressIsOwned
INVARIANT SignInMethodRemains
PROPERTY RequestIsDecidedOnce

CHECK_DEADLOCK FALSE
