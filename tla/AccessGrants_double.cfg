\* The smallest instance in which two deliveries of a joiner event overlap.
SPECIFICATION Spec
CONSTANTS
    e1 = e1
    Requests = {r1, r2}
    NoRequest = NoRequest
    Grants = {g1, g2}
    NoGrant = NoGrant
    Entitlements = {e1}
    EntOf <- SameEntitlement
    Callers = {p1, p2}
    Enforcers = {x1}
    MaxFaults = 0
SYMMETRY Interchange
CHECK_DEADLOCK FALSE
INVARIANTS
    NoDoubleGrant
