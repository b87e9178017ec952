\* One request, two approvers, two jobs of either kind, two attempts each, two faults.
SPECIFICATION Spec
CONSTANTS
    r1 = r1
    a1 = a1
    a2 = a2
    j1 = j1
    j2 = j2
    Requests = {r1}
    NoRequest = NoRequest
    Approvers = {a1, a2}
    Jobs = {j1, j2}
    MaxAttempts = 2
    MaxFaults = 2
SYMMETRY Symmetry
CHECK_DEADLOCK FALSE
INVARIANTS
    ChainNeverStalls
    FourEyes
    ReleasedIsDriven
    LeaverComplete
