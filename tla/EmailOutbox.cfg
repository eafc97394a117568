\* One process that dies and restarts, two rows: delivery and its limits.
CONSTANTS
    NULL = NULL
    Gone = Gone
    m1 = m1
    m2 = m2
    d1 = d1
    d2 = d2
    Rows = {m1, m2}
    Releases = {}
    Runs = {d1}
    BatchSize = 2
    MaxAttempts = 2
    FailureLimit = 1
    DailyLimit = 1
    MaxLost = 1
    MaxPauses = 0
SPECIFICATION FairSpec
INVARIANTS
    RetryBudget
PROPERTIES
    EventuallySettled
