CONSTANTS
    NULL = NULL
    local = local
    techops = techops
    Ids = {local, uuid}
    Managed = {uuid}
    Emails = {org, personal}
    OrgEmails = {org}
    BootstrapAdmins = {org}
    Subjects = {s1, s2}
    LocalId <- MCLocalId
    WorkTypes = {techops}
    Groups = {g1}
    TypeOf <- MCTypeOf
    ViewerTypes = {techops}
    GroupFinalTypes = {techops}
SPECIFICATION Spec
INVARIANTS
    
    MenusOpenPages
    MailReachesWhoCanAct
