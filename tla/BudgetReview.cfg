\* Two lines, one group, two amounts; a super admin and a reviewer.
CONSTANTS
    NULL = NULL
    super = super
    budget = budget
    r1 = r1
    g1 = g1
    l1 = l1
    l2 = l2
    Groups = {g1}
    Amounts = {0, 1}
    Lines = {l1, l2}
    Users = {super, r1}
    BudgetAdmins <- MCBudgetAdmins
    SuperAdmins = {super}
    GroupsOf <- MCGroupsOf
    Suggested <- MCSuggested
SPECIFICATION Spec
SYMMETRY MCSymmetry
INVARIANTS
    AdminDecisionStands
    NoLineIsForgotten
    ShownStatusIsActionable
    ReportsAgree
PROPERTIES
    FinalizeDecidesEveryLine
    DecidedLineIsFrozen
