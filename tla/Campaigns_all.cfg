\* Two grants, a campaign of either service over them, two concurrent
\* requests, two faults and clients that leave at any time.
SPECIFICATION FairSpec
CONSTANTS
    g1 = g1
    g2 = g2
    k1 = k1
    c1 = c1
    c2 = c2
    Grants = {g1, g2}
    Campaigns = {k1}
    Callers = {c1, c2}
    MaxFaults = 2
CHECK_DEADLOCK FALSE
INVARIANTS
    DecidedOnce
    StampedIsGone
    OverdueOnce
PROPERTIES
    ClosedDecisionsFinal
    RevocationsLand
