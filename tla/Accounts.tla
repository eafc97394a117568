------------------------------ MODULE Accounts ------------------------------
(***************************************************************************)
(* Who has an account, and which roles it holds.                           *)
(*                                                                         *)
(* Accounts are written by four hands that identify a person differently:  *)
(* the sign-in callback by provider subject, then by e-mail                *)
(* (routes/auth.py); the user upload by e-mail, then by an id made of the  *)
(* e-mail's local part (routes/admin/data_upload.py); the user form by id  *)
(* (routes/admin/users.py); and the bootstrap of a deployment by e-mail    *)
(* (app/__init__.py).  Roles are written by the form, which clears and     *)
(* rewrites all of a user's rows, by the role upload, which only adds, and *)
(* by the bootstrap.  The form and the upload leave an audit entry of      *)
(* readable codes; the menus and the pages read the rows each on its own.  *)
(*                                                                         *)
(* Every handler is one transaction and one action.  The database refuses  *)
(* a second account with an e-mail or a subject; such a request ends in an *)
(* error page and changes nothing.  E-mails are lower-case, and an account *)
(* linked to a "dev:" subject counts as unlinked.  A group stands for its  *)
(* code: renames are left out, and no two groups share a code, as in the   *)
(* seed data.                                                              *)
(***************************************************************************)
CONSTANTS Ids,             \* account ids; all but LocalId's are uuids
          Emails, Subjects,
          OrgEmails,       \* e-mails of the organization's domains
          LocalId,         \* the id the upload makes of an e-mail
          BootstrapAdmins, \* BOOTSTRAP_ADMINS
          Managed,         \* bound: accounts whose roles are edited
          WorkTypes, Groups,
          TypeOf,          \* approval_group.work_type_id
          ViewerTypes,     \* VIEWER_ROLE_WORK_TYPES
          GroupFinalTypes, \* work types without an admin-final stage
          NULL

Account == [email : Emails, subject : Subjects \cup {NULL}, active : BOOLEAN]

ASSUME AccountsAssumption ==
    /\ OrgEmails \subseteq Emails /\ BootstrapAdmins \subseteq Emails
    /\ LocalId \in [Emails -> Ids]
    /\ Managed \subseteq Ids
    /\ TypeOf \in [Groups -> WorkTypes]
    /\ ViewerTypes \subseteq WorkTypes /\ GroupFinalTypes \subseteq WorkTypes
    /\ NULL \notin Ids \cup Emails \cup Subjects \cup WorkTypes \cup Groups
    /\ NULL \notin Account \cup {"none"}

VARIABLES account,      \* [Ids -> Account \cup {NULL}]
          roles,        \* [Ids -> SUBSET RoleRow]
          trail,        \* what the audit entries add up to, per account
          typeActive,   \* [WorkTypes -> BOOLEAN]
          groupActive   \* [Groups -> BOOLEAN]

people == <<account, roles, trail>>
vars   == <<people, typeActive, groupActive>>

RoleCodes == {"SUPER_ADMIN", "SPACE_ADMIN", "WORKTYPE_ADMIN", "WORKTYPE_VIEWER", "APPROVER"}
RoleRow == [code : RoleCodes, type : WorkTypes \cup {NULL}, group : Groups \cup {NULL}]

Row(code, type, group) == [code |-> code, type |-> type, group |-> group]

Present == {u \in Ids : account[u] # NULL}
ByEmail(e) == {u \in Present : account[u].email = e}
BySubject(s) == {u \in Present : account[u].subject = s}
Fresh == Ids \ (Present \cup {LocalId[e] : e \in Emails})

\* _role_code: the work type names the scope, else the group.
Code(r) == <<r.code, IF r.type # NULL THEN r.type ELSE r.group>>
Codes(S) == {Code(r) : r \in S}

TypeOK ==
    /\ account \in [Ids -> Account \cup {NULL}]
    /\ roles \in [Ids -> SUBSET RoleRow]
    /\ trail \in [Ids -> SUBSET Codes(RoleRow)]
    /\ typeActive \in [WorkTypes -> BOOLEAN]
    /\ groupActive \in [Groups -> BOOLEAN]
    /\ \A u, v \in Present :
          \/ u = v
          \/ /\ account[u].email # account[v].email
             /\ account[u].subject \notin {account[v].subject} \ {NULL}

-----------------------------------------------------------------------------
(* Signing in.                                                             *)

\* _complete_login: by subject, else by e-mail.
Found(e, s) == IF BySubject(s) # {} THEN BySubject(s) ELSE ByEmail(e)

\* Only an account without a subject is linked.
Backfilled(u, e, s) ==
    IF account[u].subject = NULL THEN [account[u] EXCEPT !.subject = s] ELSE account[u]

\* An organization address replaces the stored one; a personal one does not.
SignedIn(u, e, s) ==
    [Backfilled(u, e, s) EXCEPT !.email = IF e \in OrgEmails THEN e ELSE @]

\* An inactive account is turned away after these writes, which are committed
\* with the failure's audit entry.
SignIn(e, s) ==
    /\ \E u \in Found(e, s) :
          /\ ByEmail(SignedIn(u, e, s).email) \subseteq {u}
          /\ account' = [account EXCEPT ![u] = SignedIn(u, e, s)]
    /\ UNCHANGED <<roles, trail, typeActive, groupActive>>

NewAccount(e, s, active) == [email |-> e, subject |-> s, active |-> active]

\* A first sign-in makes an account without roles.
FirstSignIn(e, s) ==
    /\ Found(e, s) = {}
    /\ \E u \in Fresh : account' = [account EXCEPT ![u] = NewAccount(e, s, TRUE)]
    /\ UNCHANGED <<roles, trail, typeActive, groupActive>>

-----------------------------------------------------------------------------
(* Roles.                                                                  *)

\* _update_user_roles reads a box per unscoped role, active work type and
\* active group.
FormRows ==
    {Row("SUPER_ADMIN", NULL, NULL), Row("SPACE_ADMIN", NULL, NULL)}
    \cup {Row("WORKTYPE_ADMIN", w, NULL) : w \in {x \in WorkTypes : typeActive[x]}}
    \cup {Row("WORKTYPE_VIEWER", w, NULL) : w \in {x \in ViewerTypes : typeActive[x]}}
    \cup {Row("APPROVER", NULL, g) : g \in {x \in Groups : groupActive[x]}}

\* Seeded fault: the collection loaded before the rewrite is read again after
\* it, empty since clear().
AuditedAsLoaded(u, before, after) == trail[u] \ Codes(before)

\* The entry's granted and revoked, added to what the entries said so far.
Audited(u, before, after) ==
    (trail[u] \cup (Codes(after) \ Codes(before))) \ (Codes(before) \ Codes(after))

SetRoles(u, boxes) ==
    /\ roles' = [roles EXCEPT ![u] = boxes]
    /\ trail' = [trail EXCEPT ![u] = Audited(u, roles[u], boxes)]

Boxes(u) == IF u \in Managed THEN SUBSET FormRows ELSE {roles[u]}

\* create_user.
CreateUser(e, active) ==
    /\ ByEmail(e) = {}
    /\ \E u \in Fresh :
          /\ account' = [account EXCEPT ![u] = NewAccount(e, NULL, active)]
          /\ \E boxes \in Boxes(u) : SetRoles(u, boxes)
    /\ UNCHANGED <<typeActive, groupActive>>

\* update_user.
UpdateUser(u, e, active) ==
    /\ ByEmail(e) \subseteq {u}
    /\ account' = [account EXCEPT ![u] = [@ EXCEPT !.email = e, !.active = active]]
    /\ \E boxes \in Boxes(u) : SetRoles(u, boxes)
    /\ UNCHANGED <<typeActive, groupActive>>

\* archive_user and restore_user.
ToggleUser(u) ==
    /\ account' = [account EXCEPT ![u].active = ~@]
    /\ UNCHANGED <<roles, trail, typeActive, groupActive>>

\* One row of users_upload.
UploadUser(e) ==
    LET known == IF ByEmail(e) # {} THEN ByEmail(e) ELSE Present \cap {LocalId[e]}
    IN  /\ account' = IF known = {}
                      THEN [account EXCEPT ![LocalId[e]] = NewAccount(e, NULL, TRUE)]
                      ELSE [u \in Ids |-> IF u \in known
                                          THEN [account[u] EXCEPT !.email = e]
                                          ELSE account[u]]
        /\ UNCHANGED <<roles, trail, typeActive, groupActive>>

\* VALID_ROLE_CODES, and the group an approver needs.
UploadAccepts(code, group) == code = "APPROVER" => group # NULL

\* The rows "existing" is looked for in: with a group by group, without one
\* among those that have none, whatever their work type.
UploadFinds(u, code, group) == {r \in roles[u] : r.code = code /\ r.group = group}

\* One row of user_roles_upload: it never sets a work type.  The group column
\* is kept whatever the role.
UploadRole(u, code, group) ==
    /\ UploadAccepts(code, group)
    /\ UploadFinds(u, code, group) = {}
    /\ SetRoles(u, roles[u] \cup {Row(code, NULL, group)})
    /\ UNCHANGED <<account, typeActive, groupActive>>

\* ensure_bootstrap_admins, for one entry: no audit entry, but the setting is
\* on record, so the trail's reader knows.
Bootstrap(e) ==
    \E u \in IF ByEmail(e) # {} THEN ByEmail(e) ELSE Fresh :
        /\ account' = IF account[u] = NULL
                      THEN [account EXCEPT ![u] = NewAccount(e, NULL, TRUE)]
                      ELSE account
        /\ \A r \in roles[u] : r.code # "SUPER_ADMIN"
        /\ roles' = [roles EXCEPT ![u] = @ \cup {Row("SUPER_ADMIN", NULL, NULL)}]
        /\ trail' = [trail EXCEPT ![u] = @ \cup {<<"SUPER_ADMIN", NULL>>}]
        /\ UNCHANGED <<typeActive, groupActive>>

-----------------------------------------------------------------------------
(* Groups and work types come and go; the roles on them stay.              *)

\* archive_approval_group, restore_approval_group, update_approval_group.
ToggleGroup(g) ==
    /\ groupActive' = [groupActive EXCEPT ![g] = ~@]
    /\ UNCHANGED <<people, typeActive>>

\* deactivate_work_type and activate_work_type.
ToggleType(w) ==
    /\ typeActive' = [typeActive EXCEPT ![w] = ~@]
    /\ UNCHANGED <<people, groupActive>>

Init ==
    /\ account = [u \in Ids |-> NULL]
    /\ roles = [u \in Ids |-> {}]
    /\ trail = [u \in Ids |-> {}]
    /\ typeActive = [w \in WorkTypes |-> TRUE]
    /\ groupActive = [g \in Groups |-> TRUE]

UploadedCodes == {"SUPER_ADMIN", "APPROVER", "WORKTYPE_ADMIN"}

Next ==
    \/ \E e \in Emails, s \in Subjects : SignIn(e, s) \/ FirstSignIn(e, s)
    \/ \E e \in Emails, active \in BOOLEAN :
          CreateUser(e, active) \/ \E u \in Present : UpdateUser(u, e, active)
    \/ \E u \in Present : ToggleUser(u)
    \/ \E e \in Emails : UploadUser(e)
    \/ \E u \in Present \cap Managed, c \in UploadedCodes, g \in Groups \cup {NULL} :
          UploadRole(u, c, g)
    \/ \E e \in BootstrapAdmins : Bootstrap(e)
    \/ \E g \in Groups : ToggleGroup(g)
    \/ \E w \in WorkTypes : ToggleType(w)

Spec == Init /\ [][Next]_vars

-----------------------------------------------------------------------------
(* What the menus and the pages make of the rows.  o is the role override a *)
(* super admin may have in the session while testing: NULL, "none", or the  *)
(* group to act for.                                                       *)

Overrides == {NULL, "none"} \cup Groups

Holds(u, code) == \E r \in roles[u] : r.code = code
Scopes(u, code) == {r.type : r \in {x \in roles[u] : x.code = code}} \ {NULL}

Override(u, o) == IF Holds(u, "SUPER_ADMIN") THEN o ELSE NULL

IsSuperAdmin(u, o) == Holds(u, "SUPER_ADMIN") /\ Override(u, o) = NULL

\* active_user_approval_group_ids.
ApprovalGroupIds(u, o) ==
    IF Override(u, o) = "none" THEN {}
    ELSE IF Override(u, o) # NULL THEN {Override(u, o)}
    ELSE {r.group : r \in {x \in roles[u] : x.code = "APPROVER"}} \ {NULL}

IsWorktypeAdmin(u, o, w) == IsSuperAdmin(u, o) \/ w \in Scopes(u, "WORKTYPE_ADMIN")

\* is_reviewer_for_line, for a line routed to g.
IsReviewer(u, o, g) ==
    \/ IsSuperAdmin(u, o)
    \/ g \in ApprovalGroupIds(u, o)
    \/ TypeOf[g] \in GroupFinalTypes /\ IsWorktypeAdmin(u, o, TypeOf[g])

ActiveGroups == {g \in Groups : groupActive[g]}

\* Seeded fault: only the groups one reviews for.
ReviewableGroupsOwn(u, o) ==
    IF IsSuperAdmin(u, o) THEN ActiveGroups ELSE ActiveGroups \cap ApprovalGroupIds(u, o)

\* get_reviewable_groups: the queues the user may open.
ReviewableGroups(u, o) ==
    {g \in ActiveGroups :
        \/ IsSuperAdmin(u, o)
        \/ g \in ApprovalGroupIds(u, o)
        \/ TypeOf[g] \in Scopes(u, "WORKTYPE_ADMIN") \cup Scopes(u, "WORKTYPE_VIEWER")}

\* inject_active_user: the work types and queues of the menus.
MenuTypes(u, o) ==
    IF IsSuperAdmin(u, o) THEN {w \in WorkTypes : typeActive[w]}
    ELSE Scopes(u, "WORKTYPE_ADMIN")
MenuGroups(u, o) == ActiveGroups \cap ApprovalGroupIds(u, o)
MenuViews(u) == Scopes(u, "WORKTYPE_VIEWER")

\* _require_techops_staffer: the team's home and worklist want one of these.
StaffGroups(u, o, w) == {g \in ReviewableGroups(u, o) : TypeOf[g] = w}

\* _require_techops_staff: the list of all requests, in both team menus.
ListsRequests(u, o, w) == IsWorktypeAdmin(u, o, w) \/ w \in MenuViews(u)

-----------------------------------------------------------------------------
(* Who is written to about a request (services/notifications.py).          *)

\* Seeded fault: whoever has a row on the group is taken for an approver.
ApproverEmailsByGroup(G) ==
    {account[u].email : u \in {v \in Present :
        account[v].active /\ \E r \in roles[v] : r.group \in G}}

\* _get_approval_group_emails.
ApproverEmails(G) ==
    {account[u].email : u \in {v \in Present :
        account[v].active /\ \E r \in roles[v] : r.code = "APPROVER" /\ r.group \in G}}

\* _get_worktype_admin_emails: an admin row without a work type counts for all.
AdminEmails(w) ==
    {account[u].email : u \in {v \in Present :
        /\ account[v].active
        /\ \/ Holds(v, "SUPER_ADMIN")
           \/ \E r \in roles[v] : r.code = "WORKTYPE_ADMIN" /\ r.type \in {w, NULL}}}

\* _get_submit_recipients, for a request of work type w with lines routed to G:
\* with dispatch the admins, without it the groups.
SubmitRecipients(w, usesDispatch, G) ==
    IF usesDispatch THEN AdminEmails(w) ELSE ApproverEmails(G)

-----------------------------------------------------------------------------
(* What accounts and roles promise.                                        *)

\* The audit log accounts for every role: replaying the entries of an account
\* from the first one, with the bootstrap setting, gives exactly the codes it
\* holds, whichever of the three writers wrote and however scopes were archived
\* in between (_update_user_roles logs a difference of two snapshots around a
\* rewrite, user_roles_upload what it added).
TrailReplays == \A u \in Ids : Codes(roles[u]) = trail[u]

\* Every role row is one the partial unique indexes tell apart: it has a work
\* type or a group but not both, only work-type roles have a work type, and an
\* approver has a group, so no reader that asks for a scope that is not NULL
\* drops an approver.
RolesAreScoped ==
    \A u \in Ids : \A r \in roles[u] :
        /\ r.type = NULL \/ r.group = NULL
        /\ r.type # NULL => r.code \in {"WORKTYPE_ADMIN", "WORKTYPE_VIEWER"}
        /\ r.code = "APPROVER" => r.group # NULL

\* Menus, queues and decisions agree for every user and override: what a menu
\* offers opens, also the pages every staffer of a team shares, as long as the
\* team has an active group; and whoever may decide a line of an active group
\* may open the queue the line waits in.
MenusOpenPages ==
    \A u \in Ids, o \in Overrides :
        /\ MenuGroups(u, o) \subseteq ReviewableGroups(u, o)
        /\ \A w \in MenuTypes(u, o) : IsWorktypeAdmin(u, o, w)
        /\ \A w \in MenuTypes(u, o) \cup MenuViews(u) :
              /\ ListsRequests(u, o, w)
              /\ StaffGroups(u, o, w) = {g \in ActiveGroups : TypeOf[g] = w}
        /\ \A g \in ActiveGroups : IsReviewer(u, o, g) => g \in ReviewableGroups(u, o)

\* A request that is submitted reaches somebody who can act on it and nobody who
\* cannot: an approver written to may decide the lines of the groups written
\* for; every active account that may dispatch is written to about a request to
\* dispatch, and whoever is written to without being able to dispatch holds an
\* admin row without a work type, which only the upload writes.
MailReachesWhoCanAct ==
    /\ \A g \in Groups : \A e \in SubmitRecipients(TypeOf[g], FALSE, {g}) :
          \A u \in ByEmail(e) : IsReviewer(u, NULL, g)
    /\ \A w \in WorkTypes : \A u \in Present :
          LET told == account[u].email \in SubmitRecipients(w, TRUE, {})
          IN  /\ account[u].active /\ IsWorktypeAdmin(u, NULL, w) => told
              /\ told => \/ IsWorktypeAdmin(u, NULL, w)
                         \/ \E r \in roles[u] : r.code = "WORKTYPE_ADMIN" /\ r.type = NULL

\* A linked account stays linked: no form, upload, bootstrap or sign-in by
\* e-mail moves an account from the provider subject it is linked to.
LinkIsPermanent ==
    [][\A u \in Present :
          account[u].subject # NULL =>
              account'[u] # NULL /\ account'[u].subject = account[u].subject]_vars

-----------------------------------------------------------------------------
(* What the repository says and the code does not do.                      *)

\* _complete_login's docstring: the subject is the stable identifier looked up
\* first, so a person with a linked account can sign in with any address.
LinkedCanSignIn ==
    \A s \in Subjects, e \in Emails : \A u \in BySubject(s) :
        ByEmail(SignedIn(u, e, s).email) \subseteq {u}
=============================================================================
