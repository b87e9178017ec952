\* Two requests for one entitlement, two callers that provision and revoke, a
\* fair expiry enforcer, one crash or failed provider call.
SPECIFICATION FairSpec
CONSTANTS
    e1 = e1
    Requests = {r1, r2}
    NoRequest = NoRequest
    Grants = {g1, g2}
    NoGrant = NoGrant
    Entitlements = {e1}
    EntOf <- SameEntitlement
    Callers = {p1, p2}
    Enforcers = {x1}
    MaxFaults = 1
CHECK_DEADLOCK FALSE
INVARIANTS
    OneGrantPerRequest
    GrantMatchesRequest
    AccessAccounted
PROPERTIES
    LapsedGrantEnds
