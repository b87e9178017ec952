\* Two policies with a grant and a wildcard deny that contradict each other, one
\* standing anomaly, two concurrent transactions, up to four audit rows.
SPECIFICATION Spec
CONSTANTS
    p1 = p1
    p2 = p2
    f1 = f1
    c1 = c1
    c2 = c2
    alice = alice
    db = db
    Star = star
    Policies = {p1, p2}
    Defs <- TwoDefs
    Anomalies = {f1}
    Callers = {c1, c2}
    MaxEvents = 4
SYMMETRY Symmetry
CHECK_DEADLOCK FALSE
INVARIANTS
    VerifierNeverAlarms
    ConflictsOverridden
    ImpactFresh
    AnomalyEvidencedOnce
    NoLockCycle
PROPERTIES
    ImplementsLog
