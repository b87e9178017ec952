\* One lease, two tokens on it, two connections of one gateway, the gateway's
\* sweep against one API process, one crash or failed query.
SPECIFICATION Spec
CONSTANTS
    l1 = l1
    t1 = t1
    t2 = t2
    c1 = c1
    c2 = c2
    g1 = g1
    a1 = a1
    Leases = {l1}
    NoLease = NoLease
    Tokens = {t1, t2}
    NoToken = NoToken
    Conns = {c1, c2}
    Gateways = {g1}
    Apis = {a1}
    GatewayOf <- OneGateway
    Durations = {3}
    TargetTTL = 0
    DefaultTTL = 1
    DefaultTokenTTL = 2
    MaxLeaseTTL = 2
    RequireMFA = FALSE
    MaxTime = 2
    MaxFaults = 1
SYMMETRY Interchange
CHECK_DEADLOCK FALSE
INVARIANTS
    OneSessionPerToken
    AuditMatchesRows
    OrphanCauses
PROPERTIES
    RevokeWins
    ImplementsLeaseFSM
