\* A reviewer, two admins and the requester; any two requests overlap.
CONSTANTS
    NULL = NULL
    r1 = r1
    r2 = r2
    a1 = a1
    a2 = a2
    owner = owner
    g1 = g1
    Groups = {g1}
    Amounts = {0}
    Reviewers = {r1}
    Admins = {a1, a2}
    Requester = owner
    GroupMoves = {"APPROVE", "NEEDS_INFO"}
    AdminMoves = {"APPROVE"}
    MaxInFlight = 2
SPECIFICATION Spec
SYMMETRY AdminSymmetry
INVARIANTS
    LockedReadIsCurrent
PROPERTIES
    VerdictNotOverwritten
    FinalizeOutsideSessions
