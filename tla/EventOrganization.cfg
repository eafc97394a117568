SPECIFICATION OrgSpec
CONSTANTS
    Events = {this_event, last_event}
    MemberEvents = {this_event}
    Divisions = {d1}
    Departments = {p1}
    WorkTypes = {budget, supply}
    Grants <- MCGrants
    NoDivision = NoDivision
    NotMember = NotMember
INVARIANTS
    QueriesAgree
    HomeAndMailMatchAccess
PROPERTIES
    GrantsSurviveArchiving
