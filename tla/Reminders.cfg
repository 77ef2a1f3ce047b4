SPECIFICATION ReminderSpec

CONSTANTS
    a1 = a1
    r1 = r1
    r2 = r2
    r3 = r3
    Runs = {r1, r2, r3}
    Ttl = 2
    Skew = 0
    MaxTime = 4
    o1 = o1
    Occurrences = {o1}
    DueAt <- DueAtOnce
    Window = 1
    Recipients = {a1}
    Preferences = {{}, {"service"}}

SYMMETRY ReminderSymmetry

INVARIANT LeaseIsExclusive
INVARIANT RemindedOnce
PROPERTY SkipHasAReason
PROPERTY ImplementsLease

CHECK_DEADLOCK FALSE
