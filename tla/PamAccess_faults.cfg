\* One lease, one token two connections compete for, one crash or failed
\* teardown query; fair sweeps, reconcilers and handlers.
SPECIFICATION FairSpec
CONSTANTS
    l1 = l1
    t1 = t1
    t2 = t2
    c1 = c1
    c2 = c2
    g1 = g1
    a1 = a1
    Leases = {l1}
    NoLease = NoLease
    Tokens = {t1}
    NoToken = NoToken
    Conns = {c1, c2}
    Gateways = {g1}
    Apis = {a1}
    GatewayOf <- OneGateway
    Durations = {3}
    TargetTTL = 0
    DefaultTTL = 1
    DefaultTokenTTL = 1
    MaxLeaseTTL = 2
    RequireMFA = FALSE
    MaxTime = 2
    MaxFaults = 1
CHECK_DEADLOCK FALSE
PROPERTIES
    RowEndSevers
    LapsedLeaseSwept
    TeardownFinishes
