-------------------------- MODULE EventOrganization --------------------------
(***************************************************************************)
(* Who takes part in an event, and who may see it.                         *)
(*                                                                         *)
(* Super admins switch divisions and departments on and off per event      *)
(* (routes/admin/event_cycles.py over routes/work/helpers/                 *)
(* event_enablement.py), archive and restore them, and move departments    *)
(* between divisions (routes/admin/divisions.py, departments.py).  A       *)
(* missing enablement record means enabled; a division that is off takes   *)
(* its departments with it.  Department and division memberships carry one *)
(* access row per work type; the command mirror-work-type-access copies    *)
(* rows from one type to others.  Departments and memberships also come in *)
(* by file (routes/admin/data_upload.py), whose rules differ from those of *)
(* the forms: a file names columns, not boxes.                             *)
(*                                                                         *)
(* Three readers answer "is this department in this event?" with three     *)
(* different queries, and three pages answer "what may this user open?":   *)
(* the home page, the division page and the portfolio itself.              *)
(*                                                                         *)
(* One user is modelled, neither super admin nor work-type admin.  Every   *)
(* administrative handler is one transaction over rows it reads itself, so *)
(* each is one action; some super admin may always take it.                *)
(***************************************************************************)
EXTENDS FiniteSets

CONSTANTS Events, Divisions, Departments, WorkTypes,
          MemberEvents,    \* bound: events the user is given memberships in
          Grants,          \* bound: the access rows a form may post
          NoDivision,      \* department.division_id is NULL
          NotMember        \* the user has no membership row

Rights == {"view", "edit"}

ASSUME OrganizationAssumption ==
    /\ MemberEvents \subseteq Events
    /\ Grants \subseteq SUBSET Rights /\ {} \in Grants
    /\ NoDivision \notin Divisions

VARIABLES divisionActive,     \* [Divisions -> BOOLEAN]
          departmentActive,   \* [Departments -> BOOLEAN]
          home,               \* [Departments -> division_id]
          divisionRecord,     \* [Events -> [Divisions -> Record]]
          departmentRecord,   \* [Events -> [Departments -> Record]]
          typeActive,         \* [WorkTypes -> BOOLEAN]
          divisionMember,     \* [MemberEvents -> [Divisions -> Membership]]
          departmentMember    \* [MemberEvents -> [Departments -> Membership]]

enablement == <<divisionRecord, departmentRecord>>
structure  == <<divisionActive, departmentActive, home, typeActive>>
access     == <<divisionMember, departmentMember>>
orgVars    == <<enablement, structure, access>>

\* EventCycleDivision / EventCycleDepartment: no row, is_enabled, not is_enabled.
Record == {"none", "on", "off"}

\* A membership's access rows; a work type without a row maps to {}.
Membership == {NotMember} \cup [WorkTypes -> SUBSET Rights]

OrgTypeOK ==
    /\ divisionActive \in [Divisions -> BOOLEAN]
    /\ departmentActive \in [Departments -> BOOLEAN]
    /\ home \in [Departments -> Divisions \cup {NoDivision}]
    /\ divisionRecord \in [Events -> [Divisions -> Record]]
    /\ departmentRecord \in [Events -> [Departments -> Record]]
    /\ typeActive \in [WorkTypes -> BOOLEAN]
    /\ divisionMember \in [MemberEvents -> [Divisions -> Membership]]
    /\ departmentMember \in [MemberEvents -> [Departments -> Membership]]

-----------------------------------------------------------------------------
(* The three queries of event_enablement.py.                               *)

DivisionEnabled(e, d) == divisionRecord[e][d] # "off"

\* is_department_enabled_for_event: one department, by outer joins.
DepartmentEnabled(e, p) ==
    /\ home[p] # NoDivision => DivisionEnabled(e, home[p])
    /\ departmentRecord[e][p] # "off"

\* Seeded fault: NOT IN alone, which is unknown for a NULL.
OutsideDisabledByNotIn(p, off) == home[p] # NoDivision /\ home[p] \notin off

\* The WHERE clause on division_id.  A NULL is not NOT IN anything, so the
\* query names it on its own.
OutsideDisabled(p, off) == home[p] = NoDivision \/ home[p] \notin off

\* get_enabled_department_ids_for_event and get_enabled_departments_for_event.
EnabledDepartments(e) ==
    LET off == {d \in Divisions : divisionRecord[e][d] = "off"}
    IN  {p \in Departments : /\ departmentActive[p]
                             /\ OutsideDisabled(p, off)
                             /\ departmentRecord[e][p] # "off"}

\* get_all_department_enabled_status over the organization page's departments.
EnabledOnTheOrganizationPage(e) ==
    {p \in Departments :
        /\ departmentActive[p]
        /\ ~ (home[p] # NoDivision /\ divisionRecord[e][home[p]] = "off")
        /\ departmentRecord[e][p] \in {"none", "on"}}

-----------------------------------------------------------------------------
(* What the pages show the user.                                           *)

RowsOf(membership, w) == IF membership = NotMember THEN {} ELSE membership[w]

DirectlyListed(e) ==
    {p \in Departments : departmentActive[p] /\ departmentMember[e][p] # NotMember}

ListedByDivision(e) ==
    {p \in Departments \ DirectlyListed(e) :
        /\ departmentActive[p]
        /\ home[p] # NoDivision
        /\ divisionActive[home[p]]
        /\ divisionMember[e][home[p]] # NotMember}

\* dept_work_type_access of the home page: a direct membership is looked at
\* first, and its department is then never looked at again.
HomeAccess(e, p, w) ==
    IF p \in DirectlyListed(e) THEN RowsOf(departmentMember[e][p], w)
    ELSE IF p \in ListedByDivision(e) THEN RowsOf(divisionMember[e][home[p]], w)
    ELSE {}

\* Seeded fault: the home page looks only at the department's own record.
HomeFilterOwnRecord(e, p) == departmentActive[p] /\ departmentRecord[e][p] # "off"

\* accessible_depts with the work types shown for each.
HomeFilter(e, p) == p \in EnabledDepartments(e)

HomeEntries(e) ==
    {entry \in Departments \X WorkTypes :
        /\ typeActive[entry[2]]
        /\ HomeAccess(e, entry[1], entry[2]) # {}
        /\ HomeFilter(e, entry[1])}

\* division_home lists the division's departments to any of its members.
DivisionPage(e, d) ==
    {p \in EnabledDepartments(e) : home[p] = d /\ departmentActive[p]}

\* build_portfolio_perms behind get_portfolio_context.
PortfolioRights(e, p, w) ==
    RowsOf(departmentMember[e][p], w)
        \cup (IF home[p] = NoDivision THEN {} ELSE RowsOf(divisionMember[e][home[p]], w))

PortfolioOpens(e, p, w) ==
    DepartmentEnabled(e, p) /\ "view" \in PortfolioRights(e, p, w)

\* _get_department_member_emails: is the user written to about the department's
\* requests.  Memberships count, access rows do not.
WrittenTo(e, p) ==
    \/ departmentMember[e][p] # NotMember
    \/ home[p] # NoDivision /\ divisionMember[e][home[p]] # NotMember

\* get_departments_needing_submission_reminder, for a department that has not
\* filed: direct members only.
Reminded(e, p) == p \in EnabledDepartments(e) /\ departmentMember[e][p] # NotMember

-----------------------------------------------------------------------------
(* Enablement.                                                             *)

Opposite(enabled) == IF enabled THEN "off" ELSE "on"

ToggleDivision(e, d) ==
    /\ divisionRecord' = [divisionRecord EXCEPT ![e][d] = Opposite(DivisionEnabled(e, d))]
    /\ UNCHANGED <<departmentRecord, structure, access>>

\* A department under a division that is off is refused; otherwise its own
\* record is flipped.
ToggleDepartment(e, p) ==
    /\ home[p] # NoDivision => DivisionEnabled(e, home[p])
    /\ departmentRecord' =
         [departmentRecord EXCEPT ![e][p] = Opposite(departmentRecord[e][p] # "off")]
    /\ UNCHANGED <<divisionRecord, structure, access>>

\* copy_event_enablement: only records the source has are written.
Overlaid(target, source) ==
    [x \in DOMAIN target |-> IF source[x] = "none" THEN target[x] ELSE source[x]]

CopyEnablement(from, to) ==
    /\ divisionRecord' = [divisionRecord EXCEPT ![to] = Overlaid(@, divisionRecord[from])]
    /\ departmentRecord' =
         [departmentRecord EXCEPT ![to] = Overlaid(@, departmentRecord[from])]
    /\ UNCHANGED <<structure, access>>

\* enable-all and disable-all write every active division and department.
Filled(target, active, record) ==
    [x \in DOMAIN target |-> IF active[x] THEN record ELSE target[x]]

SetAll(e, record) ==
    /\ divisionRecord' = [divisionRecord EXCEPT ![e] = Filled(@, divisionActive, record)]
    /\ departmentRecord' = [departmentRecord EXCEPT ![e] = Filled(@, departmentActive, record)]
    /\ UNCHANGED <<structure, access>>

-----------------------------------------------------------------------------
(* Divisions, departments and work types.                                  *)

\* archive, restore, and the is_active box of the edit form.
SetDivisionActive(d, active) ==
    /\ divisionActive[d] # active
    /\ divisionActive' = [divisionActive EXCEPT ![d] = active]
    /\ UNCHANGED <<departmentActive, home, typeActive, enablement, access>>

SetDepartmentActive(p, active) ==
    /\ departmentActive[p] # active
    /\ departmentActive' = [departmentActive EXCEPT ![p] = active]
    /\ UNCHANGED <<divisionActive, home, typeActive, enablement, access>>

\* update_department stores the posted division and active box as they come.
UpdateDepartment(p, division, active) ==
    /\ home' = [home EXCEPT ![p] = division]
    /\ departmentActive' = [departmentActive EXCEPT ![p] = active]
    /\ UNCHANGED <<divisionActive, typeActive, enablement, access>>

\* One row of departments_upload.  A missing or unknown division, or a file
\* without that column, leaves the department in no division; is_active stays.
UploadDepartment(p, division) ==
    /\ home' = [home EXCEPT ![p] = division]
    /\ UNCHANGED <<divisionActive, departmentActive, typeActive, enablement, access>>

SetTypeActive(w, active) ==
    /\ typeActive[w] # active
    /\ typeActive' = [typeActive EXCEPT ![w] = active]
    /\ UNCHANGED <<divisionActive, departmentActive, home, enablement, access>>

-----------------------------------------------------------------------------
(* Memberships.  The forms show, and save, the active work types only.     *)

NewMembership(posted) ==
    [w \in WorkTypes |-> IF typeActive[w] THEN posted[w] ELSE {}]

\* Seeded fault: every row is cleared before the posted ones are added back.
SavedMembershipFromScratch(old, posted) == NewMembership(posted)

SavedMembership(old, posted) ==
    [w \in WorkTypes |-> IF typeActive[w] THEN posted[w] ELSE old[w]]

Saved(old, posted) ==
    IF old = NotMember THEN NewMembership(posted) ELSE SavedMembership(old, posted)

SaveDepartmentMember(e, p, posted) ==
    /\ departmentMember' = [departmentMember EXCEPT ![e][p] = Saved(@, posted)]
    /\ UNCHANGED <<divisionMember, enablement, structure>>

SaveDivisionMember(e, d, posted) ==
    /\ divisionMember' = [divisionMember EXCEPT ![e][d] = Saved(@, posted)]
    /\ UNCHANGED <<departmentMember, enablement, structure>>

\* One row of a membership upload.  Only work types that are active and have a
\* column are written; a blank cell takes the right away.
Columns == SUBSET {w \in WorkTypes : typeActive[w]}
Uploaded(old, columns, posted) ==
    [w \in WorkTypes |-> IF w \in columns THEN posted[w] ELSE RowsOf(old, w)]

UploadDepartmentMember(e, p, columns, posted) ==
    /\ departmentMember' = [departmentMember EXCEPT ![e][p] = Uploaded(@, columns, posted)]
    /\ UNCHANGED <<divisionMember, enablement, structure>>

UploadDivisionMember(e, d, columns, posted) ==
    /\ divisionMember' = [divisionMember EXCEPT ![e][d] = Uploaded(@, columns, posted)]
    /\ UNCHANGED <<departmentMember, enablement, structure>>

DeleteDepartmentMember(e, p) ==
    /\ departmentMember[e][p] # NotMember
    /\ departmentMember' = [departmentMember EXCEPT ![e][p] = NotMember]
    /\ UNCHANGED <<divisionMember, enablement, structure>>

DeleteDivisionMember(e, d) ==
    /\ divisionMember[e][d] # NotMember
    /\ divisionMember' = [divisionMember EXCEPT ![e][d] = NotMember]
    /\ UNCHANGED <<departmentMember, enablement, structure>>

\* mirror_work_type_access for one membership: inserts, never changes.
MirroredRow(old, source, w) == IF old[w] # {} THEN old[w] ELSE old[source]

Mirrored(old, source, targets) ==
    IF old = NotMember \/ RowsOf(old, source) = {} THEN old
    ELSE [w \in WorkTypes |-> IF w \in targets THEN MirroredRow(old, source, w) ELSE old[w]]

MirrorAccess(e, source, targets) ==
    /\ departmentMember' = [departmentMember EXCEPT ![e] =
         [p \in Departments |-> Mirrored(departmentMember[e][p], source, targets)]]
    /\ divisionMember' = [divisionMember EXCEPT ![e] =
         [d \in Divisions |-> Mirrored(divisionMember[e][d], source, targets)]]
    /\ UNCHANGED <<enablement, structure>>

-----------------------------------------------------------------------------
\* Divisions and departments exist, with no record for any event and no
\* membership; the create forms post any active box and any division.
OrgInit ==
    /\ divisionActive \in [Divisions -> BOOLEAN]
    /\ departmentActive \in [Departments -> BOOLEAN]
    /\ home \in [Departments -> Divisions \cup {NoDivision}]
    /\ typeActive = [w \in WorkTypes |-> TRUE]
    /\ divisionRecord = [e \in Events |-> [d \in Divisions |-> "none"]]
    /\ departmentRecord = [e \in Events |-> [p \in Departments |-> "none"]]
    /\ divisionMember = [e \in MemberEvents |-> [d \in Divisions |-> NotMember]]
    /\ departmentMember = [e \in MemberEvents |-> [p \in Departments |-> NotMember]]

Enablement ==
    \E e \in Events :
        \/ \E d \in Divisions : ToggleDivision(e, d)
        \/ \E p \in Departments : ToggleDepartment(e, p)
        \/ \E from \in Events : CopyEnablement(from, e)
        \/ \E record \in {"on", "off"} : SetAll(e, record)

Structure ==
    \E active \in BOOLEAN :
        \/ \E d \in Divisions : SetDivisionActive(d, active)
        \/ \E p \in Departments : SetDepartmentActive(p, active)
        \/ \E p \in Departments, division \in Divisions \cup {NoDivision} :
              UpdateDepartment(p, division, active) \/ UploadDepartment(p, division)
        \/ \E w \in WorkTypes : SetTypeActive(w, active)

Upload(e) ==
    \E columns \in Columns : \E posted \in [columns -> Grants] :
        \/ \E p \in Departments : UploadDepartmentMember(e, p, columns, posted)
        \/ \E d \in Divisions : UploadDivisionMember(e, d, columns, posted)

Access ==
    \E e \in MemberEvents :
        \/ Upload(e)
        \/ \E p \in Departments, posted \in [WorkTypes -> Grants] :
              SaveDepartmentMember(e, p, posted)
        \/ \E d \in Divisions, posted \in [WorkTypes -> Grants] :
              SaveDivisionMember(e, d, posted)
        \/ \E p \in Departments : DeleteDepartmentMember(e, p)
        \/ \E d \in Divisions : DeleteDivisionMember(e, d)
        \/ \E source \in WorkTypes, targets \in SUBSET WorkTypes :
              MirrorAccess(e, source, targets)

OrgNext == Enablement \/ Structure \/ Access

OrgSpec == OrgInit /\ [][OrgNext]_orgVars

-----------------------------------------------------------------------------
(* Properties.                                                             *)

\* The set query the home and division pages use, the single-department query
\* that guards every portfolio, and the map the organization page computes from
\* prefetched records give one answer for every active department, whatever
\* toggles, copies, bulk switches, moves and archives came before
\* (event_enablement.py: three formulations of one rule, one of them in SQL
\* with a nullable division_id).
QueriesAgree ==
    \A e \in Events :
        LET byJoin == {p \in Departments : departmentActive[p] /\ DepartmentEnabled(e, p)}
        IN  /\ EnabledDepartments(e) = byJoin
            /\ EnabledOnTheOrganizationPage(e) = byJoin
            /\ \A d \in Divisions : DivisionPage(e, d) = {p \in byJoin : home[p] = d}

\* A work type the home page shows a department under with view access opens:
\* the portfolio behind it neither refuses the department as not enabled nor
\* the user as without view permission (routes/home.py index against
\* helpers/context.py get_portfolio_context and build_portfolio_perms).  Whoever
\* may open a portfolio is written to about its requests, whichever membership
\* the access comes from, and nobody is reminded to file for a department that
\* the event has switched off (services/notifications.py).
HomeAndMailMatchAccess ==
    \A e \in MemberEvents :
        /\ \A entry \in HomeEntries(e) :
              "view" \in HomeAccess(e, entry[1], entry[2]) =>
                  PortfolioOpens(e, entry[1], entry[2])
        /\ \A p \in Departments :
              /\ (\E w \in WorkTypes : PortfolioOpens(e, p, w)) => WrittenTo(e, p)
              /\ Reminded(e, p) => DepartmentEnabled(e, p)

RowsSurvive(old, new) ==
    \A w \in WorkTypes :
        (old # NotMember /\ ~ typeActive[w] /\ RowsOf(old, w) # {})
            => (new = NotMember \/ RowsOf(new, w) = RowsOf(old, w))

\* Access granted for a work type that is now archived is still there, exactly
\* as granted, when the type is restored: no membership save, no upload and no
\* rerun of the mirror command changes it; only removing the membership does
\* (update_member touches active types only; membership_access.py: "an existing
\* row for a target work type is never changed, so access granted by hand
\* survives a rerun").
GrantsSurviveArchiving ==
    [][\A e \in MemberEvents :
         /\ \A p \in Departments : RowsSurvive(departmentMember[e][p], departmentMember'[e][p])
         /\ \A d \in Divisions : RowsSurvive(divisionMember[e][d], divisionMember'[e][d])]_orgVars

-----------------------------------------------------------------------------
(* What the repository says and the code does not do.                      *)

\* What the home page's comment says: the list "Combines direct department
\* memberships + departments from division access" (routes/home.py:187).  It
\* does not: a direct membership with no rows hides the division's access, so
\* a portfolio the user may open is not listed.
HomeListsWhatOpens ==
    \A e \in MemberEvents, p \in Departments, w \in WorkTypes :
        (/\ typeActive[w] /\ departmentActive[p]
         /\ home[p] # NoDivision => divisionActive[home[p]]
         /\ PortfolioOpens(e, p, w)) => <<p, w>> \in HomeEntries(e)

=============================================================================
