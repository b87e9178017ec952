\* One scheduler loop, one caller who rotates by hand, one lease with one
\* dynamic credential (not both in one behaviour), two faults, a workspace that
\* may hibernate and wake at any time.
SPECIFICATION MCFairSpec
CONSTANTS
    s1 = s1
    m1 = m1
    l1 = l1
    c1 = c1
    Schedulers = {s1}
    Callers = {m1}
    Leases = {l1}
    Creds = {c1}
    MaxManual = 1
    MaxFaults = 2
CHECK_DEADLOCK FALSE
INVARIANTS
    LockoutCauses
    RolesAccounted
PROPERTIES
    CheckinSettles
    RolesReaped
