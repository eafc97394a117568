\* Two overlapping runs, a withdrawal, halts and SIGTERM; no crash.
CONSTANTS
    NULL = NULL
    Gone = Gone
    m1 = m1
    m2 = m2
    d1 = d1
    d2 = d2
    Rows = {m1, m2}
    Releases = {m1}
    Runs = {d1, d2}
    BatchSize = 2
    MaxAttempts = 2
    FailureLimit = 1
    DailyLimit = 1
    MaxLost = 0
    MaxPauses = 1
SPECIFICATION Spec
INVARIANTS
    ClaimsAreDisjoint
    SentOnce
PROPERTY
    OutcomeStands
