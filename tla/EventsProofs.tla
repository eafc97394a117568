---------------------------- MODULE EventsProofs ----------------------------
(***************************************************************************)
(* Theorems about an event: who takes part in it (EventOrganization), and  *)
(* what becomes of its budgets (EventBudgets).  The two share no state,    *)
(* and each is proved from its own specification.                          *)
(***************************************************************************)
EXTENDS EventOrganization, EventBudgets, TLAPS

-----------------------------------------------------------------------------
(***************************************************************************)
(* For any number of events, divisions, departments and work types: the    *)
(* three formulations of "is this department in this event?" agree, what   *)
(* the home page links to opens, and access to an archived work type is    *)
(* kept.  The first two are consequences of the types of the columns,      *)
(* chiefly of the nullable division_id, so that the inductive part is      *)
(* OrgTypeOK.                                                              *)
(***************************************************************************)

-----------------------------------------------------------------------------
(* What the operators on records and memberships return.                   *)

LEMMA RowsAreRights ==
    ASSUME NEW m \in Membership, NEW w \in WorkTypes
    PROVE  RowsOf(m, w) \in SUBSET Rights
BY DEF RowsOf, Membership

\* A write of one cell of a table indexed by event.
LEMMA CellTyped ==
    ASSUME NEW A, NEW B, NEW C, NEW f \in [A -> [B -> C]],
           NEW a \in A, NEW b \in B, NEW c \in C
    PROVE  [f EXCEPT ![a][b] = c] \in [A -> [B -> C]]
OBVIOUS

LEMMA SavedTyped ==
    ASSUME NEW old \in Membership, NEW posted \in [WorkTypes -> Grants]
    PROVE  Saved(old, posted) \in Membership
<1>1. \A w \in WorkTypes : posted[w] \in SUBSET Rights /\ {} \in SUBSET Rights
  BY OrganizationAssumption
<1>2. NewMembership(posted) \in Membership
  BY <1>1 DEF NewMembership, Membership
<1>3. old # NotMember => SavedMembership(old, posted) \in Membership
  BY <1>1 DEF SavedMembership, Membership
<1>4. QED
  BY <1>2, <1>3 DEF Saved

LEMMA UploadedTyped ==
    ASSUME NEW old \in Membership, NEW columns \in Columns,
           NEW posted \in [columns -> Grants]
    PROVE  Uploaded(old, columns, posted) \in Membership
<1>1. \A w \in WorkTypes :
          (IF w \in columns THEN posted[w] ELSE RowsOf(old, w)) \in SUBSET Rights
  BY RowsAreRights, OrganizationAssumption DEF Columns
<1>2. QED
  BY <1>1 DEF Uploaded, Membership

LEMMA MirroredTyped ==
    ASSUME NEW old \in Membership, NEW source \in WorkTypes, NEW targets
    PROVE  Mirrored(old, source, targets) \in Membership
BY DEF Mirrored, MirroredRow, Membership

LEMMA OverlaidTyped ==
    ASSUME NEW X, NEW target \in [X -> Record], NEW source \in [X -> Record]
    PROVE  Overlaid(target, source) \in [X -> Record]
BY DEF Overlaid

LEMMA FilledTyped ==
    ASSUME NEW X, NEW target \in [X -> Record], NEW active, NEW r \in {"on", "off"}
    PROVE  Filled(target, active, r) \in [X -> Record]
BY DEF Filled, Record

LEMMA OppositeIsRecord ==
    ASSUME NEW enabled
    PROVE  Opposite(enabled) \in Record
BY DEF Opposite, Record

-----------------------------------------------------------------------------
(* Types.                                                                  *)

EnablementOK ==
    /\ divisionRecord \in [Events -> [Divisions -> Record]]
    /\ departmentRecord \in [Events -> [Departments -> Record]]

StructureOK ==
    /\ divisionActive \in [Divisions -> BOOLEAN]
    /\ departmentActive \in [Departments -> BOOLEAN]
    /\ home \in [Departments -> Divisions \cup {NoDivision}]
    /\ typeActive \in [WorkTypes -> BOOLEAN]

AccessOK ==
    /\ divisionMember \in [MemberEvents -> [Divisions -> Membership]]
    /\ departmentMember \in [MemberEvents -> [Departments -> Membership]]

LEMMA EnablementTyped ==
    ASSUME OrgTypeOK, Enablement
    PROVE  OrgTypeOK'
<1>1. UNCHANGED structure /\ UNCHANGED access
  BY DEF Enablement, ToggleDivision, ToggleDepartment, CopyEnablement, SetAll
<1>2. StructureOK' /\ AccessOK'
  BY <1>1 DEF structure, access, StructureOK, AccessOK, OrgTypeOK
<1>3. ASSUME NEW e \in Events, NEW d \in Divisions, ToggleDivision(e, d)
      PROVE  EnablementOK'
  BY <1>3, OppositeIsRecord, CellTyped DEF ToggleDivision, EnablementOK, OrgTypeOK
<1>4. ASSUME NEW e \in Events, NEW p \in Departments, ToggleDepartment(e, p)
      PROVE  EnablementOK'
  BY <1>4, OppositeIsRecord, CellTyped DEF ToggleDepartment, EnablementOK, OrgTypeOK
<1>5. ASSUME NEW e \in Events, NEW from \in Events, CopyEnablement(from, e)
      PROVE  EnablementOK'
  <2>1. /\ Overlaid(divisionRecord[e], divisionRecord[from]) \in [Divisions -> Record]
        /\ Overlaid(departmentRecord[e], departmentRecord[from])
               \in [Departments -> Record]
    BY OverlaidTyped DEF OrgTypeOK
  <2>2. QED
    BY <1>5, <2>1 DEF CopyEnablement, EnablementOK, OrgTypeOK
<1>6. ASSUME NEW e \in Events, NEW r \in {"on", "off"}, SetAll(e, r)
      PROVE  EnablementOK'
  <2>1. /\ Filled(divisionRecord[e], divisionActive, r) \in [Divisions -> Record]
        /\ Filled(departmentRecord[e], departmentActive, r) \in [Departments -> Record]
    BY FilledTyped DEF OrgTypeOK
  <2>2. QED
    BY <1>6, <2>1 DEF SetAll, EnablementOK, OrgTypeOK
<1>7. EnablementOK'
  BY <1>3, <1>4, <1>5, <1>6 DEF Enablement
<1>8. QED
  BY <1>2, <1>7 DEF EnablementOK, StructureOK, AccessOK, OrgTypeOK

LEMMA StructureTyped ==
    ASSUME OrgTypeOK, Structure
    PROVE  OrgTypeOK'
<1>1. PICK active \in BOOLEAN :
          \/ \E d \in Divisions : SetDivisionActive(d, active)
          \/ \E p \in Departments : SetDepartmentActive(p, active)
          \/ \E p \in Departments, division \in Divisions \cup {NoDivision} :
                UpdateDepartment(p, division, active) \/ UploadDepartment(p, division)
          \/ \E w \in WorkTypes : SetTypeActive(w, active)
  BY DEF Structure
<1>2. UNCHANGED enablement /\ UNCHANGED access
  BY <1>1 DEF SetDivisionActive, SetDepartmentActive, UpdateDepartment,
              UploadDepartment, SetTypeActive
<1>3. EnablementOK' /\ AccessOK'
  BY <1>2 DEF enablement, access, EnablementOK, AccessOK, OrgTypeOK
<1>4. StructureOK'
  BY <1>1 DEF SetDivisionActive, SetDepartmentActive, UpdateDepartment,
              UploadDepartment, SetTypeActive, StructureOK, OrgTypeOK
<1>5. QED
  BY <1>3, <1>4 DEF EnablementOK, StructureOK, AccessOK, OrgTypeOK

LEMMA AccessTyped ==
    ASSUME OrgTypeOK, Access
    PROVE  OrgTypeOK'
<1>1. PICK e \in MemberEvents :
          \/ Upload(e)
          \/ \E p \in Departments, posted \in [WorkTypes -> Grants] :
                SaveDepartmentMember(e, p, posted)
          \/ \E d \in Divisions, posted \in [WorkTypes -> Grants] :
                SaveDivisionMember(e, d, posted)
          \/ \E p \in Departments : DeleteDepartmentMember(e, p)
          \/ \E d \in Divisions : DeleteDivisionMember(e, d)
          \/ \E source \in WorkTypes, targets \in SUBSET WorkTypes :
                MirrorAccess(e, source, targets)
  BY DEF Access
<1>2. UNCHANGED enablement /\ UNCHANGED structure
  BY <1>1 DEF Upload, UploadDepartmentMember, UploadDivisionMember,
              SaveDepartmentMember, SaveDivisionMember, DeleteDepartmentMember,
              DeleteDivisionMember, MirrorAccess
<1>3. EnablementOK' /\ StructureOK'
  BY <1>2 DEF enablement, structure, EnablementOK, StructureOK, OrgTypeOK
<1>4. /\ \A d \in Divisions : divisionMember[e][d] \in Membership
      /\ \A p \in Departments : departmentMember[e][p] \in Membership
  BY DEF OrgTypeOK
<1>5. ASSUME Upload(e)
      PROVE  AccessOK'
  <2>0. PICK columns \in Columns : \E posted \in [columns -> Grants] :
            \/ \E p \in Departments : UploadDepartmentMember(e, p, columns, posted)
            \/ \E d \in Divisions : UploadDivisionMember(e, d, columns, posted)
    BY <1>5 DEF Upload
  <2>1. PICK posted \in [columns -> Grants] :
            \/ \E p \in Departments : UploadDepartmentMember(e, p, columns, posted)
            \/ \E d \in Divisions : UploadDivisionMember(e, d, columns, posted)
    BY <2>0
  <2>2. ASSUME NEW p \in Departments, UploadDepartmentMember(e, p, columns, posted)
        PROVE  AccessOK'
    BY <1>4, <2>2, UploadedTyped, CellTyped DEF UploadDepartmentMember, AccessOK, OrgTypeOK
  <2>3. ASSUME NEW d \in Divisions, UploadDivisionMember(e, d, columns, posted)
        PROVE  AccessOK'
    BY <1>4, <2>3, UploadedTyped, CellTyped DEF UploadDivisionMember, AccessOK, OrgTypeOK
  <2>4. QED
    BY <2>1, <2>2, <2>3
<1>6. ASSUME NEW p \in Departments, NEW posted \in [WorkTypes -> Grants],
             SaveDepartmentMember(e, p, posted)
      PROVE  AccessOK'
  BY <1>4, <1>6, SavedTyped, CellTyped DEF SaveDepartmentMember, AccessOK, OrgTypeOK
<1>7. ASSUME NEW d \in Divisions, NEW posted \in [WorkTypes -> Grants],
             SaveDivisionMember(e, d, posted)
      PROVE  AccessOK'
  BY <1>4, <1>7, SavedTyped, CellTyped DEF SaveDivisionMember, AccessOK, OrgTypeOK
<1>8. ASSUME NEW p \in Departments, DeleteDepartmentMember(e, p)
      PROVE  AccessOK'
  BY <1>8, CellTyped DEF DeleteDepartmentMember, Membership, AccessOK, OrgTypeOK
<1>9. ASSUME NEW d \in Divisions, DeleteDivisionMember(e, d)
      PROVE  AccessOK'
  BY <1>9, CellTyped DEF DeleteDivisionMember, Membership, AccessOK, OrgTypeOK
<1>10. ASSUME NEW source \in WorkTypes, NEW targets \in SUBSET WorkTypes,
              MirrorAccess(e, source, targets)
       PROVE  AccessOK'
  <2>1. /\ [p \in Departments |-> Mirrored(departmentMember[e][p], source, targets)]
               \in [Departments -> Membership]
        /\ [d \in Divisions |-> Mirrored(divisionMember[e][d], source, targets)]
               \in [Divisions -> Membership]
    BY <1>4, MirroredTyped
  <2>2. QED
    BY <1>10, <2>1 DEF MirrorAccess, AccessOK, OrgTypeOK
<1>11. AccessOK'
  BY <1>1, <1>5, <1>6, <1>7, <1>8, <1>9, <1>10
<1>12. QED
  BY <1>3, <1>11 DEF EnablementOK, StructureOK, AccessOK, OrgTypeOK

\* Every column holds what its readers expect, chiefly: division_id is NULL or
\* a division.
THEOREM OrganizationTyped == OrgSpec => []OrgTypeOK
<1>1. OrgInit => OrgTypeOK
  BY DEF OrgInit, OrgTypeOK, Record, Membership
<1>2. OrgTypeOK /\ UNCHANGED orgVars => OrgTypeOK'
  BY DEF OrgTypeOK, orgVars, enablement, structure, access
<1>3. OrgTypeOK /\ [OrgNext]_orgVars => OrgTypeOK'
  BY <1>2, EnablementTyped, StructureTyped, AccessTyped DEF OrgNext
<1>4. QED
  BY <1>1, <1>3, PTL DEF OrgSpec

-----------------------------------------------------------------------------
(* The readers.                                                            *)

\* The NOT IN of the set query, with its clause for NULL, is the outer join of
\* the single-department query.
LEMMA NotInIsJoin ==
    ASSUME OrgTypeOK, NEW e \in Events, NEW p \in Departments
    PROVE  OutsideDisabled(p, {d \in Divisions : divisionRecord[e][d] = "off"})
               <=> (home[p] # NoDivision => DivisionEnabled(e, home[p]))
BY OrganizationAssumption DEF OrgTypeOK, OutsideDisabled, DivisionEnabled

LEMMA QueriesAgreeWhenTyped ==
    ASSUME OrgTypeOK, NEW e \in Events
    PROVE  LET byJoin == {p \in Departments : departmentActive[p] /\ DepartmentEnabled(e, p)}
           IN  /\ EnabledDepartments(e) = byJoin
               /\ EnabledOnTheOrganizationPage(e) = byJoin
               /\ \A d \in Divisions : DivisionPage(e, d) = {p \in byJoin : home[p] = d}
<1> DEFINE byJoin == {p \in Departments : departmentActive[p] /\ DepartmentEnabled(e, p)}
<1>1. EnabledDepartments(e) = byJoin
  BY NotInIsJoin DEF EnabledDepartments, DepartmentEnabled
<1>2. \A p \in Departments :
          departmentRecord[e][p] \in {"none", "on"} <=> departmentRecord[e][p] # "off"
  BY DEF OrgTypeOK, Record
<1>3. EnabledOnTheOrganizationPage(e) = byJoin
  BY <1>2 DEF EnabledOnTheOrganizationPage, DepartmentEnabled, DivisionEnabled
<1>4. \A d \in Divisions : DivisionPage(e, d) = {p \in byJoin : home[p] = d}
  BY <1>1 DEF DivisionPage
<1>5. QED
  BY <1>1, <1>3, <1>4

\* The set query, the single-department query and the organization page's map
\* agree for every event (event_enablement.py).
THEOREM QueriesAlwaysAgree == OrgSpec => []QueriesAgree
<1>1. OrgTypeOK => QueriesAgree
  BY QueriesAgreeWhenTyped DEF QueriesAgree
<1>2. QED
  BY <1>1, OrganizationTyped, PTL

\* An entry of the home page is a right the portfolio grants too.
LEMMA HomeRightsArePortfolioRights ==
    ASSUME OrgTypeOK, NEW e \in MemberEvents, NEW p \in Departments, NEW w \in WorkTypes
    PROVE  HomeAccess(e, p, w) \subseteq PortfolioRights(e, p, w)
BY DEF HomeAccess, PortfolioRights, DirectlyListed, ListedByDivision, RowsOf

LEMMA HomeMatchesWhenTyped == OrgTypeOK => HomeAndMailMatchAccess
<1> SUFFICES ASSUME OrgTypeOK, NEW e \in MemberEvents
             PROVE  /\ \A entry \in HomeEntries(e) :
                           "view" \in HomeAccess(e, entry[1], entry[2]) =>
                               PortfolioOpens(e, entry[1], entry[2])
                    /\ \A p \in Departments :
                           /\ (\E w \in WorkTypes : PortfolioOpens(e, p, w)) => WrittenTo(e, p)
                           /\ Reminded(e, p) => DepartmentEnabled(e, p)
  BY DEF HomeAndMailMatchAccess
<1>1. e \in Events
  BY OrganizationAssumption
<1>2. \A p \in EnabledDepartments(e) : DepartmentEnabled(e, p)
  BY <1>1, NotInIsJoin DEF EnabledDepartments, DepartmentEnabled
<1>3. ASSUME NEW p \in Departments, NEW w \in WorkTypes,
             <<p, w>> \in HomeEntries(e), "view" \in HomeAccess(e, p, w)
      PROVE  PortfolioOpens(e, p, w)
  <2>1. p \in EnabledDepartments(e)
    BY <1>3 DEF HomeEntries, HomeFilter
  <2>2. QED
    BY <1>2, <1>3, <2>1, HomeRightsArePortfolioRights DEF PortfolioOpens
<1>4. ASSUME NEW entry \in HomeEntries(e),
             "view" \in HomeAccess(e, entry[1], entry[2])
      PROVE  PortfolioOpens(e, entry[1], entry[2])
  <2>1. PICK p \in Departments, w \in WorkTypes : entry = <<p, w>>
    BY DEF HomeEntries
  <2>2. QED
    BY <1>3, <1>4, <2>1
<1>5. ASSUME NEW p \in Departments, NEW w \in WorkTypes, PortfolioOpens(e, p, w)
      PROVE  WrittenTo(e, p)
  BY <1>5 DEF PortfolioOpens, PortfolioRights, RowsOf, WrittenTo
<1>6. ASSUME NEW p \in Departments, Reminded(e, p)
      PROVE  DepartmentEnabled(e, p)
  BY <1>2, <1>6 DEF Reminded
<1>7. QED
  BY <1>4, <1>5, <1>6

\* What the home page lists with view access opens, whoever may open a
\* portfolio is written to about it, and no reminder goes to a department the
\* event has switched off (home.py, context.py, notifications.py).
THEOREM HomeAndMailAlwaysMatch == OrgSpec => []HomeAndMailMatchAccess
BY HomeMatchesWhenTyped, OrganizationTyped, PTL

-----------------------------------------------------------------------------
(* Archived work types.                                                    *)

LEMMA WritersKeepArchivedRows ==
    ASSUME NEW old \in Membership
    PROVE  /\ RowsSurvive(old, old)
           /\ RowsSurvive(old, NotMember)
           /\ \A posted \in [WorkTypes -> Grants] : RowsSurvive(old, Saved(old, posted))
           /\ \A columns \in Columns : \A posted \in [columns -> Grants] :
                  RowsSurvive(old, Uploaded(old, columns, posted))
           /\ \A source \in WorkTypes, targets \in SUBSET WorkTypes :
                  RowsSurvive(old, Mirrored(old, source, targets))
<1>1. RowsSurvive(old, old) /\ RowsSurvive(old, NotMember)
  BY DEF RowsSurvive
<1>2. ASSUME NEW posted \in [WorkTypes -> Grants]
      PROVE  RowsSurvive(old, Saved(old, posted))
  BY DEF RowsSurvive, Saved, SavedMembership, NewMembership, RowsOf, Membership
<1>3. ASSUME NEW columns \in Columns, NEW posted \in [columns -> Grants]
      PROVE  RowsSurvive(old, Uploaded(old, columns, posted))
  BY DEF RowsSurvive, Uploaded, Columns, RowsOf, Membership
<1>4. ASSUME NEW source \in WorkTypes, NEW targets \in SUBSET WorkTypes
      PROVE  RowsSurvive(old, Mirrored(old, source, targets))
  BY DEF RowsSurvive, Mirrored, MirroredRow, RowsOf, Membership
<1>5. QED
  BY <1>1, <1>2, <1>3, <1>4

GrantsSurvive ==
    \A e \in MemberEvents :
        /\ \A p \in Departments : RowsSurvive(departmentMember[e][p], departmentMember'[e][p])
        /\ \A d \in Divisions : RowsSurvive(divisionMember[e][d], divisionMember'[e][d])

LEMMA StepKeepsArchivedRows == OrgTypeOK /\ [OrgNext]_orgVars => GrantsSurvive
<1> SUFFICES ASSUME OrgTypeOK, [OrgNext]_orgVars PROVE GrantsSurvive
  OBVIOUS
<1>1. /\ \A e \in MemberEvents, d \in Divisions : divisionMember[e][d] \in Membership
      /\ \A e \in MemberEvents, p \in Departments : departmentMember[e][p] \in Membership
  BY DEF OrgTypeOK
<1>2. CASE UNCHANGED access
  BY <1>1, <1>2, WritersKeepArchivedRows DEF access, GrantsSurvive
<1>3. CASE Access
  <2>1. PICK e \in MemberEvents :
            \/ Upload(e)
            \/ \E p \in Departments, posted \in [WorkTypes -> Grants] :
                  SaveDepartmentMember(e, p, posted)
            \/ \E d \in Divisions, posted \in [WorkTypes -> Grants] :
                  SaveDivisionMember(e, d, posted)
            \/ \E p \in Departments : DeleteDepartmentMember(e, p)
            \/ \E d \in Divisions : DeleteDivisionMember(e, d)
            \/ \E source \in WorkTypes, targets \in SUBSET WorkTypes :
                  MirrorAccess(e, source, targets)
    BY <1>3 DEF Access
  <2>2. ASSUME NEW p \in Departments, NEW new,
               RowsSurvive(departmentMember[e][p], new),
               departmentMember' = [departmentMember EXCEPT ![e][p] = new],
               UNCHANGED divisionMember
        PROVE  GrantsSurvive
    BY <1>1, <2>2, WritersKeepArchivedRows DEF GrantsSurvive, OrgTypeOK
  <2>3. ASSUME NEW d \in Divisions, NEW new,
               RowsSurvive(divisionMember[e][d], new),
               divisionMember' = [divisionMember EXCEPT ![e][d] = new],
               UNCHANGED departmentMember
        PROVE  GrantsSurvive
    BY <1>1, <2>3, WritersKeepArchivedRows DEF GrantsSurvive, OrgTypeOK
  <2>4. CASE Upload(e)
    <3>0. PICK columns \in Columns : \E posted \in [columns -> Grants] :
              \/ \E p \in Departments : UploadDepartmentMember(e, p, columns, posted)
              \/ \E d \in Divisions : UploadDivisionMember(e, d, columns, posted)
      BY <2>4 DEF Upload
    <3>1. PICK posted \in [columns -> Grants] :
              \/ \E p \in Departments : UploadDepartmentMember(e, p, columns, posted)
              \/ \E d \in Divisions : UploadDivisionMember(e, d, columns, posted)
      BY <3>0
    <3>2. ASSUME NEW p \in Departments, UploadDepartmentMember(e, p, columns, posted)
          PROVE  GrantsSurvive
      BY <1>1, <2>2, <3>2, WritersKeepArchivedRows DEF UploadDepartmentMember
    <3>3. ASSUME NEW d \in Divisions, UploadDivisionMember(e, d, columns, posted)
          PROVE  GrantsSurvive
      BY <1>1, <2>3, <3>3, WritersKeepArchivedRows DEF UploadDivisionMember
    <3>4. QED
      BY <3>1, <3>2, <3>3
  <2>5. ASSUME NEW p \in Departments, NEW posted \in [WorkTypes -> Grants],
               SaveDepartmentMember(e, p, posted)
        PROVE  GrantsSurvive
    BY <1>1, <2>2, <2>5, WritersKeepArchivedRows DEF SaveDepartmentMember
  <2>6. ASSUME NEW d \in Divisions, NEW posted \in [WorkTypes -> Grants],
               SaveDivisionMember(e, d, posted)
        PROVE  GrantsSurvive
    BY <1>1, <2>3, <2>6, WritersKeepArchivedRows DEF SaveDivisionMember
  <2>7. ASSUME NEW p \in Departments, DeleteDepartmentMember(e, p)
        PROVE  GrantsSurvive
    BY <1>1, <2>2, <2>7, WritersKeepArchivedRows DEF DeleteDepartmentMember
  <2>8. ASSUME NEW d \in Divisions, DeleteDivisionMember(e, d)
        PROVE  GrantsSurvive
    BY <1>1, <2>3, <2>8, WritersKeepArchivedRows DEF DeleteDivisionMember
  <2>9. ASSUME NEW source \in WorkTypes, NEW targets \in SUBSET WorkTypes,
               MirrorAccess(e, source, targets)
        PROVE  GrantsSurvive
    <3>1. ASSUME NEW f \in MemberEvents, NEW p \in Departments
          PROVE  departmentMember'[f][p] = IF f = e
                     THEN Mirrored(departmentMember[e][p], source, targets)
                     ELSE departmentMember[f][p]
      BY <2>9 DEF MirrorAccess, OrgTypeOK
    <3>2. ASSUME NEW f \in MemberEvents, NEW d \in Divisions
          PROVE  divisionMember'[f][d] = IF f = e
                     THEN Mirrored(divisionMember[e][d], source, targets)
                     ELSE divisionMember[f][d]
      BY <2>9 DEF MirrorAccess, OrgTypeOK
    <3>3. QED
      BY <1>1, <3>1, <3>2, WritersKeepArchivedRows DEF GrantsSurvive
  <2>10. QED
    BY <2>1, <2>4, <2>5, <2>6, <2>7, <2>8, <2>9
<1>4. CASE Enablement
  BY <1>2, <1>4 DEF Enablement, ToggleDivision, ToggleDepartment, CopyEnablement, SetAll
<1>5. CASE Structure
  BY <1>2, <1>5 DEF Structure, SetDivisionActive, SetDepartmentActive,
                    UpdateDepartment, UploadDepartment, SetTypeActive
<1>6. CASE UNCHANGED orgVars
  BY <1>2, <1>6 DEF orgVars
<1>7. QED
  BY <1>3, <1>4, <1>5, <1>6 DEF OrgNext

\* Access granted for a work type that is now archived outlives every save,
\* upload and mirror run (update_member, mirror_work_type_access).
THEOREM ArchivedGrantsSurvive == OrgSpec => GrantsSurviveArchiving
<1>1. OrgTypeOK /\ [OrgNext]_orgVars =>
          [\A e \in MemberEvents :
             /\ \A p \in Departments :
                    RowsSurvive(departmentMember[e][p], departmentMember'[e][p])
             /\ \A d \in Divisions :
                    RowsSurvive(divisionMember[e][d], divisionMember'[e][d])]_orgVars
  BY StepKeepsArchivedRows DEF GrantsSurvive
<1>2. QED
  BY <1>1, OrganizationTyped, PTL DEF OrgSpec, GrantsSurviveArchiving

-----------------------------------------------------------------------------
(***************************************************************************)
(* For any number of requests, handlers, releases and finalizations, and   *)
(* any number of primaries that slip past each other: a supplementary is   *)
(* paused only while a primary is open; and as long as no handler wrote    *)
(* over rows that changed after it read them, the queue calls no budget    *)
(* final that is not, a department hears of a finalization once, and no    *)
(* finalized budget waits after the board's approval.                      *)
(*                                                                         *)
(* The invariant says what a handler may rely on when it finishes.  What   *)
(* it holds by a row lock is as it found it; of what it only read, little  *)
(* is left: the rows exist, they were reviewed once, and a finalize of a   *)
(* budget that a release under way read as held is younger than the        *)
(* release, so that its mail has a later stamp, which is what the model's  *)
(* crossed looks for.                                                      *)
(***************************************************************************)

\* A live row was not withdrawn: it was sent, or it will be.
Live(m) == m.state # "CANCELLED"

\* A row that tells of the item's latest finalization.
Latest(m) == m.final = finals[m.item]

Running(s, op) == req[s] # NULL /\ req[s].op = op

Shape ==
    /\ status \in [Items -> Statuses]
    /\ reviewed \in [Items -> BOOLEAN]
    /\ released \in [Items -> Stamps \cup {NULL}]
    /\ finals \in [Items -> 0 .. MaxFinals]
    /\ approvedAt \in Stamps \cup {NULL}
    /\ crossed \in BOOLEAN
    /\ mail \subseteq Mail
    /\ clock \in 0 .. MaxStamps
    /\ req \in [Slots -> Request \cup {NULL}]
    /\ lock \in [Items \cup {"EVENT"} -> Slots \cup {NULL}]

\* What a handler under way can still rely on.  Rows it holds are as it found
\* them; rows it only read exist, and are no drafts that were never reviewed.
CreateOK(s) ==
    Running(s, "CREATE") =>
        req[s].item \in Items /\ status[req[s].item] = "NONE"

MoveOK(s) ==
    Running(s, "SUBMIT") \/ Running(s, "RECALL") \/ Running(s, "DISPATCH") =>
        req[s].item \in Items /\ Exists(req[s].item)

OthersOK(s) ==
    Running(s, "FINALIZE") \/ Running(s, "UNFINALIZE") =>
        \A j \in req[s].others : j \in Supplementaries /\ Exists(j) /\ reviewed[j]

FinalizeOK(s) ==
    Running(s, "FINALIZE") =>
        /\ req[s].item \in Items /\ lock[req[s].item] = s
        /\ status[req[s].item] = "SUBMITTED"
        /\ finals[req[s].item] < MaxFinals
        /\ req[s].approved <=> req[s].at # NULL

UnfinalizeOK(s) ==
    Running(s, "UNFINALIZE") =>
        /\ req[s].item \in Items /\ lock[req[s].item] = s
        /\ status[req[s].item] = "FINALIZED"
        /\ req[s].item \in Primaries \/ req[s].others = {}

ReleaseOK(s) ==
    Running(s, "RELEASE") =>
        /\ lock["EVENT"] = s
        /\ req[s].at \in Stamps /\ req[s].at <= clock
        /\ \A j \in req[s].others : Exists(j) /\ finals[j] > 0

HandlerOK(s) ==
    /\ CreateOK(s) /\ MoveOK(s) /\ OthersOK(s)
    /\ FinalizeOK(s) /\ UnfinalizeOK(s) /\ ReleaseOK(s)

\* No two handlers create one row.
CreatesApart ==
    \A s, t \in Slots :
        Running(s, "CREATE") /\ Running(t, "CREATE") /\ s # t => req[s].item # req[t].item

\* A finalize of a budget that a release under way read as held began later.
FinalizesLater ==
    \A s, t \in Slots :
        Running(s, "RELEASE") /\ Running(t, "FINALIZE") /\ req[t].item \in req[s].others
            => req[t].at = NULL \/ req[t].at > req[s].at

RowsOK ==
    \A i \in Items :
        /\ status[i] \in {"SUBMITTED", "PAUSED", "FINALIZED"} => reviewed[i]
        /\ status[i] = "PAUSED" => i \in Supplementaries
        /\ status[i] = "FINALIZED" => finals[i] > 0

\* A paused request has an open primary whose finalization, if it is under way,
\* read it as paused.
PausedHasPrimary ==
    \A i \in Items : status[i] = "PAUSED" =>
        \E p \in Primaries :
            /\ Exists(p) /\ status[p] # "FINALIZED"
            /\ \A t \in Slots : Running(t, "FINALIZE") /\ req[t].item = p => i \in req[t].others

MailCounts == \A m \in mail : m.final <= finals[m.item]

\* As long as nothing crossed.
Queued   == \A m \in mail : m.state = "QUEUED" => status[m.item] = "FINALIZED" /\ Latest(m)
Released == \A m \in mail : Live(m) /\ Latest(m) /\ status[m.item] = "FINALIZED"
                                => released[m.item] = m.stamp
ToldOnce == \A m, n \in mail : m.item = n.item /\ m.final = n.final /\ m # n
                                   => ~Live(m) \/ ~Live(n)
HeldNone == \A i \in Items : approvedAt # NULL /\ status[i] = "FINALIZED" => released[i] # NULL
ReleaseLater ==
    \A s \in Slots, m \in mail :
        Running(s, "RELEASE") /\ m.item \in req[s].others /\ Live(m) /\ Latest(m)
            => m.stamp > req[s].at

Calm == Queued /\ Released /\ ToldOnce /\ HeldNone /\ ReleaseLater

IInv ==
    /\ Shape
    /\ \A s \in Slots : HandlerOK(s)
    /\ CreatesApart /\ FinalizesLater
    /\ RowsOK /\ PausedHasPrimary /\ MailCounts
    /\ ~crossed => Calm

LEMMA Facts ==
    /\ \A s \in Slots : s # NULL
    /\ \A k \in Stamps : k # NULL /\ k \in Nat
    /\ "EVENT" \notin Items
    /\ Primaries \subseteq Items /\ Supplementaries \subseteq Items
    /\ \A p \in Primaries : p \notin Supplementaries
BY EventAssumption DEF Stamps, Items

-----------------------------------------------------------------------------
(* A handler begins: it writes nothing but its own request, the lock it    *)
(* takes and the clock.                                                    *)

BeginsWith(s, new) ==
    /\ req[s] = NULL
    /\ new \in Request
    /\ req' = [req EXCEPT ![s] = new]
    /\ UNCHANGED <<status, reviewed, released, finals, approvedAt, mail, crossed>>
    /\ clock' \in 0 .. MaxStamps /\ clock' >= clock
    /\ lock' \in [Items \cup {"EVENT"} -> Slots \cup {NULL}]
    /\ \A r \in Items \cup {"EVENT"} : lock[r] \in Slots => lock'[r] = lock[r]

LEMMA OthersRun ==
    ASSUME NEW s \in Slots, NEW new, Shape, BeginsWith(s, new)
    PROVE  /\ req'[s] = new
           /\ \A t \in Slots : t # s => req'[t] = req[t]
           /\ \A op : ~Running(s, op)
BY DEF Shape, BeginsWith, Running

LEMMA BeginKeepsHandlers ==
    ASSUME IInv, NEW s \in Slots, NEW new, BeginsWith(s, new), HandlerOK(s)'
    PROVE  \A t \in Slots : HandlerOK(t)'
<1> SUFFICES ASSUME NEW t \in Slots, t # s PROVE HandlerOK(t)'
  OBVIOUS
<1>1. req'[t] = req[t] /\ HandlerOK(t)
  BY OthersRun DEF IInv
<1>2. UNCHANGED <<status, reviewed, finals>>
  BY DEF BeginsWith
<1>3. CreateOK(t)' /\ MoveOK(t)' /\ OthersOK(t)'
  BY <1>1, <1>2 DEF HandlerOK, CreateOK, MoveOK, OthersOK, Running, Exists
<1>4. \A r \in Items \cup {"EVENT"} : lock[r] = t => lock'[r] = t
  BY DEF BeginsWith
<1>5. FinalizeOK(t)' /\ UnfinalizeOK(t)'
  BY <1>1, <1>2, <1>4 DEF HandlerOK, FinalizeOK, UnfinalizeOK, Running
<1>6. ReleaseOK(t)'
  <2>1. SUFFICES ASSUME Running(t, "RELEASE")' PROVE ReleaseOK(t)'
    BY DEF ReleaseOK
  <2>2. /\ lock["EVENT"] = t
        /\ req[t].at \in Stamps /\ req[t].at <= clock
        /\ \A j \in req[t].others : Exists(j) /\ finals[j] > 0
    BY <1>1, <2>1 DEF HandlerOK, ReleaseOK, Running
  <2>3. clock \in Nat /\ clock' \in Nat /\ clock' >= clock /\ req[t].at \in Nat
    BY <2>2, EventAssumption DEF IInv, Shape, BeginsWith, Stamps
  <2>4. req[t].at <= clock'
    BY <2>2, <2>3
  <2>5. lock'["EVENT"] = t
    BY <1>4, <2>2
  <2>6. QED
    BY <1>1, <1>2, <2>2, <2>4, <2>5 DEF ReleaseOK, Exists
<1>7. QED
  BY <1>3, <1>5, <1>6 DEF HandlerOK

\* What has to be said of a new request beside its own rows.
LEMMA BeginKeepsInv ==
    ASSUME IInv, NEW s \in Slots, NEW new, BeginsWith(s, new), HandlerOK(s)',
           new.op = "CREATE" =>
               \A t \in Slots : Running(t, "CREATE") => req[t].item # new.item,
           new.op = "FINALIZE" =>
               \A t \in Slots : Running(t, "RELEASE") /\ new.item \in req[t].others
                                    => new.at = NULL \/ new.at > req[t].at,
           new.op = "FINALIZE" /\ new.item \in Primaries =>
               \A i \in Items : status[i] = "PAUSED" => i \in new.others,
           new.op = "RELEASE" =>
               \A t \in Slots : Running(t, "FINALIZE") => req[t].item \notin new.others,
           new.op = "RELEASE" /\ ~crossed =>
               \A m \in mail : Live(m) /\ Latest(m) => m.item \notin new.others
    PROVE  IInv'
<1>1. /\ req'[s] = new
      /\ \A t \in Slots : t # s => req'[t] = req[t]
      /\ \A op : ~Running(s, op)
  BY OthersRun DEF IInv
<1>2. \A op : \A t \in Slots : t # s => (Running(t, op)' <=> Running(t, op))
  BY <1>1 DEF Running
<1>3. UNCHANGED <<status, reviewed, released, finals, approvedAt, mail, crossed>>
  BY DEF BeginsWith
<1>4. Shape'
  BY <1>3 DEF IInv, Shape, BeginsWith
<1>5. \A t \in Slots : HandlerOK(t)'
  BY BeginKeepsHandlers
<1>6. CreatesApart'
  BY <1>1, <1>2 DEF IInv, CreatesApart, Running
<1>7. FinalizesLater'
  BY <1>1, <1>2 DEF IInv, FinalizesLater, Running
<1>8. RowsOK' /\ MailCounts'
  BY <1>3 DEF IInv, RowsOK, MailCounts
<1>9. PausedHasPrimary'
  <2>1. SUFFICES ASSUME NEW i \in Items, status[i] = "PAUSED"
                 PROVE  \E p \in Primaries :
                           /\ Exists(p) /\ status[p] # "FINALIZED"
                           /\ \A t \in Slots : Running(t, "FINALIZE")' /\ req'[t].item = p
                                                   => i \in req'[t].others
    BY <1>3 DEF PausedHasPrimary, Exists
  <2>2. PICK p \in Primaries :
            /\ Exists(p) /\ status[p] # "FINALIZED"
            /\ \A t \in Slots : Running(t, "FINALIZE") /\ req[t].item = p => i \in req[t].others
    BY <2>1 DEF IInv, PausedHasPrimary
  <2>3. ASSUME NEW t \in Slots, Running(t, "FINALIZE")', req'[t].item = p
        PROVE  i \in req'[t].others
    BY <1>1, <1>2, <2>1, <2>2, <2>3 DEF Running
  <2>4. QED
    BY <2>2, <2>3
<1>10. ASSUME ~crossed' PROVE Calm'
  <2>1. Calm
    BY <1>3, <1>10 DEF IInv
  <2>2. Queued' /\ Released' /\ ToldOnce' /\ HeldNone'
    BY <1>3, <2>1 DEF Calm, Queued, Released, ToldOnce, HeldNone, Live, Latest
  <2>3. ReleaseLater'
    BY <1>1, <1>2, <1>3, <1>10, <2>1 DEF Calm, ReleaseLater, Live, Latest, Running
  <2>4. QED
    BY <2>2, <2>3 DEF Calm
<1>11. QED
  BY <1>4, <1>5, <1>6, <1>7, <1>8, <1>9, <1>10 DEF IInv

\* The request a handler opens, and the lock it takes.
LEMMA OpensBegins ==
    ASSUME IInv, NEW s \in Slots, NEW op \in Ops, NEW i, NEW at, NEW others,
           Opens(s, op, i, at, others),
           i \in Items \cup {NULL}, at \in Stamps \cup {NULL}, others \in SUBSET Items,
           UNCHANGED lock \/ (\E r \in Items \cup {"EVENT"} : Takes(s, r)),
           UNCHANGED clock \/ (clock < MaxStamps /\ clock' = clock + 1)
    PROVE  LET new == [op |-> op, item |-> i, at |-> at, others |-> others,
                       approved |-> op = "FINALIZE" /\ approvedAt # NULL]
           IN  BeginsWith(s, new)
<1> DEFINE new == [op |-> op, item |-> i, at |-> at, others |-> others,
                   approved |-> op = "FINALIZE" /\ approvedAt # NULL]
<1>1. new \in Request
  BY DEF Request
<1>2. /\ req[s] = NULL
      /\ req' = [req EXCEPT ![s] = new]
      /\ UNCHANGED <<status, reviewed, released, finals, approvedAt, mail, crossed>>
  BY DEF Opens, itemVars, eventVars
<1>3. clock' \in 0 .. MaxStamps /\ clock' >= clock
  BY EventAssumption DEF IInv, Shape
<1>4. /\ lock' \in [Items \cup {"EVENT"} -> Slots \cup {NULL}]
      /\ \A r \in Items \cup {"EVENT"} : lock[r] \in Slots => lock'[r] = lock[r]
  BY Facts DEF Takes, IInv, Shape
<1>5. QED
  BY <1>1, <1>2, <1>3, <1>4 DEF BeginsWith

LEMMA MoveBegins ==
    ASSUME IInv, NEW s \in Slots, NEW i \in Items,
           \/ BeginCreate(s, i) \/ BeginSubmit(s, i) \/ BeginRecall(s, i)
           \/ BeginDispatch(s, i)
    PROVE  IInv'
<1>1. PICK op \in {"CREATE", "SUBMIT", "RECALL", "DISPATCH"} :
          /\ Opens(s, op, i, NULL, {}) /\ UNCHANGED <<clock, lock>>
          /\ op = "CREATE" => BeginCreate(s, i)
          /\ op # "CREATE" => Exists(i)
  BY DEF BeginCreate, BeginSubmit, BeginRecall, BeginDispatch, Exists
<1> DEFINE new == [op |-> op, item |-> i, at |-> NULL, others |-> {},
                   approved |-> op = "FINALIZE" /\ approvedAt # NULL]
<1>2. BeginsWith(s, new)
  BY <1>1, OpensBegins DEF Ops
<1>3. new.op = op /\ new.item = i /\ new.at = NULL /\ new.others = {}
  OBVIOUS
<1> HIDE DEF new
<1>4. req'[s] = new
  BY <1>2, OthersRun DEF IInv
<1>5. op = "CREATE" => status[i] = "NONE"
  BY <1>1 DEF BeginCreate, Exists
<1>6. HandlerOK(s)'
  BY <1>1, <1>2, <1>3, <1>4, <1>5
     DEF HandlerOK, CreateOK, MoveOK, OthersOK, FinalizeOK, UnfinalizeOK, ReleaseOK,
         Running, Exists, BeginsWith
<1>7. op = "CREATE" => \A t \in Slots : Running(t, "CREATE") => req[t].item # i
  BY <1>1 DEF BeginCreate, Running
<1>8. QED
  BY <1>1, <1>2, <1>3, <1>6, <1>7, BeginKeepsInv

LEMMA FinalizeBegins ==
    ASSUME IInv, NEW s \in Slots, NEW i \in Items, BeginFinalize(s, i)
    PROVE  IInv'
<1> DEFINE at == IF ReleasesOnFinalize(i) THEN clock + 1 ELSE NULL
           others == IF i \in Primaries THEN Resumable ELSE {}
           new == [op |-> "FINALIZE", item |-> i, at |-> at, others |-> others,
                   approved |-> "FINALIZE" = "FINALIZE" /\ approvedAt # NULL]
<1>1. /\ lock[i] = NULL /\ lock' = [lock EXCEPT ![i] = s]
      /\ status[i] = "SUBMITTED" /\ finals[i] < MaxFinals
      /\ Opens(s, "FINALIZE", i, at, others)
      /\ IF ReleasesOnFinalize(i) THEN clock < MaxStamps /\ clock' = clock + 1
         ELSE UNCHANGED clock
  BY DEF BeginFinalize, Takes
<1>2. at \in Stamps \cup {NULL} /\ (at # NULL => at = clock + 1)
  BY <1>1, EventAssumption DEF Stamps, IInv, Shape
<1>3. at # NULL <=> approvedAt # NULL
  BY <1>1, <1>2, EventAssumption, Facts DEF ReleasesOnFinalize, Stamps, IInv, Shape
<1>4. others \in SUBSET Items /\ others \subseteq Resumable
  BY Facts DEF Resumable
<1>5. BeginsWith(s, new)
  <2>1. Takes(s, i)
    BY <1>1 DEF Takes
  <2> HIDE DEF at, others
  <2>2. QED
    BY <1>1, <1>2, <1>4, <2>1, OpensBegins DEF Ops
<1>6. /\ new.op = "FINALIZE" /\ new.item = i /\ new.at = at /\ new.others = others
      /\ new.approved <=> at # NULL
  BY <1>3
<1> HIDE DEF new
<1>7. req'[s] = new
  BY <1>5, OthersRun DEF IInv
<1>8. \A j \in others : j \in Supplementaries /\ Exists(j) /\ reviewed[j]
  BY <1>4 DEF Resumable, Exists
<1>9. lock'[i] = s
  BY <1>1 DEF IInv, Shape
<1> HIDE DEF at, others
<1>10. HandlerOK(s)'
  BY <1>1, <1>5, <1>6, <1>7, <1>8, <1>9
     DEF HandlerOK, CreateOK, MoveOK, OthersOK, FinalizeOK, UnfinalizeOK, ReleaseOK,
         Running, Exists, BeginsWith
<1>11. ASSUME NEW t \in Slots, Running(t, "RELEASE")
       PROVE  at = NULL \/ at > req[t].at
  <2>1. req[t].at \in Stamps /\ req[t].at <= clock
    BY <1>11 DEF IInv, HandlerOK, ReleaseOK
  <2>2. req[t].at \in Nat /\ clock \in Nat
    BY <2>1, Facts DEF IInv, Shape
  <2>3. QED
    BY <1>2, <2>1, <2>2
<1>12. i \in Primaries => \A j \in Items : status[j] = "PAUSED" => j \in others
  BY DEF others, Resumable, IInv, RowsOK
<1>13. QED
  BY <1>5, <1>6, <1>10, <1>11, <1>12, BeginKeepsInv

LEMMA UnfinalizeBegins ==
    ASSUME IInv, NEW s \in Slots, NEW i \in Items, BeginUnfinalize(s, i)
    PROVE  IInv'
<1> DEFINE others == IF i \in Primaries THEN Pausable ELSE {}
           new == [op |-> "UNFINALIZE", item |-> i, at |-> NULL, others |-> others,
                   approved |-> "UNFINALIZE" = "FINALIZE" /\ approvedAt # NULL]
<1>1. /\ Takes(s, i) /\ lock' = [lock EXCEPT ![i] = s]
      /\ status[i] = "FINALIZED" /\ UNCHANGED clock
      /\ Opens(s, "UNFINALIZE", i, NULL, others)
  BY DEF BeginUnfinalize, Takes
<1>2. others \in SUBSET Items /\ others \subseteq Pausable
  BY Facts DEF Pausable
<1>3. BeginsWith(s, new)
  <2> HIDE DEF others
  <2>1. QED
    BY <1>1, <1>2, OpensBegins DEF Ops
<1>4. /\ new.op = "UNFINALIZE" /\ new.item = i /\ new.at = NULL /\ new.others = others
      /\ i \in Primaries \/ others = {}
  OBVIOUS
<1> HIDE DEF new
<1>5. req'[s] = new
  BY <1>3, OthersRun DEF IInv
<1>6. \A j \in others : j \in Supplementaries /\ Exists(j) /\ reviewed[j]
  BY <1>2, Facts DEF Pausable, Exists, IInv, RowsOK
<1>7. lock'[i] = s
  BY <1>1 DEF IInv, Shape
<1> HIDE DEF others
<1>8. HandlerOK(s)'
  BY <1>1, <1>3, <1>4, <1>5, <1>6, <1>7
     DEF HandlerOK, CreateOK, MoveOK, OthersOK, FinalizeOK, UnfinalizeOK, ReleaseOK,
         Running, Exists, BeginsWith
<1>9. QED
  BY <1>3, <1>4, <1>8, BeginKeepsInv

LEMMA ReleaseBegins ==
    ASSUME IInv, NEW s \in Slots, BeginRelease(s)
    PROVE  IInv'
<1> DEFINE new == [op |-> "RELEASE", item |-> NULL, at |-> clock + 1, others |-> Held,
                   approved |-> "RELEASE" = "FINALIZE" /\ approvedAt # NULL]
<1>1. /\ Takes(s, "EVENT") /\ lock' = [lock EXCEPT !["EVENT"] = s]
      /\ clock < MaxStamps /\ clock' = clock + 1
      /\ Opens(s, "RELEASE", NULL, clock + 1, Held)
  BY DEF BeginRelease, TakesEvent, Takes
<1>2. clock + 1 \in Stamps /\ Held \in SUBSET Items
  BY <1>1, EventAssumption DEF Stamps, Held, IInv, Shape
<1>3. BeginsWith(s, new)
  BY <1>1, <1>2, OpensBegins DEF Ops
<1>4. new.op = "RELEASE" /\ new.at = clock' /\ new.others = Held
  BY <1>1
<1> HIDE DEF new
<1>5. req'[s] = new
  BY <1>3, OthersRun DEF IInv
<1>6. \A j \in Held : Exists(j) /\ finals[j] > 0
  BY DEF Held, Exists, IInv, RowsOK
<1>7. lock'["EVENT"] = s /\ clock' \in Stamps /\ clock' <= clock'
  BY <1>1, <1>2, EventAssumption DEF IInv, Shape, Stamps
<1>8. HandlerOK(s)'
  BY <1>3, <1>4, <1>5, <1>6, <1>7
     DEF HandlerOK, CreateOK, MoveOK, OthersOK, FinalizeOK, UnfinalizeOK, ReleaseOK,
         Running, Exists, BeginsWith
<1>9. ASSUME NEW t \in Slots, Running(t, "FINALIZE")
      PROVE  req[t].item \notin Held
  BY <1>9 DEF IInv, HandlerOK, FinalizeOK, Held
<1>10. ASSUME ~crossed, NEW m \in mail, Live(m), Latest(m)
       PROVE  m.item \notin Held
  <2>1. Released /\ m.stamp \in Stamps
    BY <1>10 DEF IInv, Calm, Shape, Mail
  <2>2. QED
    BY <1>10, <2>1, Facts DEF Released, Held
<1>11. QED
  BY <1>3, <1>4, <1>8, <1>9, <1>10, BeginKeepsInv

-----------------------------------------------------------------------------
(* A handler finishes: what it wrote was free.                             *)

\* Rows outside of rows keep what other handlers rely on; the rows written exist
\* afterwards and keep their reviews and their count of finalizations.
Writes(s, rows) ==
    /\ Closes(s, rows)
    /\ \A j \in Items \ rows : status'[j] = status[j] /\ finals'[j] = finals[j]
    /\ \A j \in Items \cap rows :
          /\ Exists(j)' /\ finals'[j] >= finals[j]
          /\ Exists(j) \/ (Running(s, "CREATE") /\ req[s].item = j)
    /\ \A j \in Items : reviewed[j] => reviewed'[j]

LEMMA CloseLeaves ==
    ASSUME Shape, NEW s \in Slots, NEW rows, Closes(s, rows)
    PROVE  /\ \A op : ~Running(s, op)'
           /\ \A t \in Slots : t # s => req'[t] = req[t]
           /\ \A t \in Slots, r \in Items \cup {"EVENT"} :
                  t # s /\ lock[r] = t => lock'[r] = t /\ r \notin rows
           /\ req' \in [Slots -> Request \cup {NULL}]
           /\ lock' \in [Items \cup {"EVENT"} -> Slots \cup {NULL}]
           /\ clock' = clock
<1>1. req' = [req EXCEPT ![s] = NULL] /\ clock' = clock
  BY DEF Closes
<1>2. lock' = [r \in Items \cup {"EVENT"} |-> IF lock[r] = s THEN NULL ELSE lock[r]]
  BY DEF Closes, Freed, Shape
<1>3. \A r \in rows : lock[r] \in {NULL, s}
  BY DEF Closes
<1>4. QED
  BY <1>1, <1>2, <1>3, Facts DEF Shape, Running

LEMMA FinishKeepsHandlers ==
    ASSUME IInv, Shape', NEW s \in Slots, NEW rows, Writes(s, rows)
    PROVE  (\A t \in Slots : HandlerOK(t)') /\ CreatesApart' /\ FinalizesLater'
<1>1. /\ \A op : ~Running(s, op)'
      /\ \A t \in Slots : t # s => req'[t] = req[t]
      /\ \A t \in Slots, r \in Items \cup {"EVENT"} :
             t # s /\ lock[r] = t => lock'[r] = t /\ r \notin rows
      /\ clock' = clock
  BY CloseLeaves DEF IInv, Writes
<1>2. \A op : \A t \in Slots : Running(t, op)' => t # s /\ Running(t, op) /\ req'[t] = req[t]
  BY <1>1 DEF Running
<1>3. \A j \in Items : Exists(j) => Exists(j)'
  BY DEF Writes, Exists
<1>4. ASSUME NEW t \in Slots
      PROVE  HandlerOK(t)'
  <2>1. HandlerOK(t)
    BY DEF IInv
  <2>2. CreateOK(t)'
    <3>1. SUFFICES ASSUME Running(t, "CREATE")'
                   PROVE  req'[t].item \in Items /\ status'[req'[t].item] = "NONE"
      BY DEF CreateOK
    <3>2. t # s /\ Running(t, "CREATE") /\ req'[t] = req[t]
      BY <1>2, <3>1
    <3>3. req[t].item \in Items /\ ~Exists(req[t].item)
      BY <2>1, <3>2 DEF HandlerOK, CreateOK, Exists
    <3>4. req[t].item \notin rows
      BY <3>2, <3>3 DEF Writes, IInv, CreatesApart
    <3>5. QED
      BY <3>2, <3>3, <3>4 DEF Writes, Exists
  <2>3. MoveOK(t)'
    BY <1>2, <1>3, <2>1 DEF HandlerOK, MoveOK
  <2>4. OthersOK(t)'
    BY <1>2, <1>3, <2>1, Facts DEF HandlerOK, OthersOK, Writes
  <2>5. FinalizeOK(t)'
    BY <1>1, <1>2, <2>1 DEF HandlerOK, FinalizeOK, Writes
  <2>6. UnfinalizeOK(t)'
    BY <1>1, <1>2, <2>1 DEF HandlerOK, UnfinalizeOK, Writes
  <2>7. ReleaseOK(t)'
    <3>1. SUFFICES ASSUME Running(t, "RELEASE")'
                   PROVE  /\ lock'["EVENT"] = t
                          /\ req'[t].at \in Stamps /\ req'[t].at <= clock'
                          /\ \A j \in req'[t].others : Exists(j)' /\ finals'[j] > 0
      BY DEF ReleaseOK
    <3>2. t # s /\ Running(t, "RELEASE") /\ req'[t] = req[t]
      BY <1>2, <3>1
    <3>3. /\ lock["EVENT"] = t
          /\ req[t].at \in Stamps /\ req[t].at <= clock
          /\ \A j \in req[t].others : Exists(j) /\ finals[j] > 0
      BY <2>1, <3>2 DEF HandlerOK, ReleaseOK
    <3>4. req[t].others \subseteq Items
      BY <3>2 DEF IInv, Shape, Request, Running
    <3>5. \A j \in Items : finals[j] \in Nat /\ finals'[j] \in Nat /\ finals'[j] >= finals[j]
      BY EventAssumption DEF Writes, IInv, Shape
    <3>6. \A j \in req[t].others : finals'[j] > 0
      BY <3>3, <3>4, <3>5
    <3>7. QED
      BY <1>1, <1>3, <3>2, <3>3, <3>4, <3>6
  <2>8. QED
    BY <2>2, <2>3, <2>4, <2>5, <2>6, <2>7 DEF HandlerOK
<1>5. CreatesApart'
  BY <1>2 DEF IInv, CreatesApart
<1>6. FinalizesLater'
  BY <1>2 DEF IInv, FinalizesLater
<1>7. QED
  BY <1>4, <1>5, <1>6

\* A paused request that stays paused keeps its primary, unless the handler is
\* its finalize; and that one read the request as paused.
LEMMA FinishKeepsPrimary ==
    ASSUME IInv, Shape', NEW s \in Slots, NEW rows, Closes(s, rows),
           NEW i \in Items, status[i] = "PAUSED",
           \A p \in Primaries : Exists(p) => Exists(p)',
           \A p \in Primaries : status'[p] = "FINALIZED" =>
               \/ status[p] = "FINALIZED"
               \/ Running(s, "FINALIZE") /\ req[s].item = p /\ i \notin req[s].others
    PROVE  \E p \in Primaries :
               /\ Exists(p)' /\ status'[p] # "FINALIZED"
               /\ \A t \in Slots : Running(t, "FINALIZE")' /\ req'[t].item = p
                                       => i \in req'[t].others
<1>1. PICK p \in Primaries :
          /\ Exists(p) /\ status[p] # "FINALIZED"
          /\ \A t \in Slots : Running(t, "FINALIZE") /\ req[t].item = p => i \in req[t].others
  BY DEF IInv, PausedHasPrimary
<1>2. status'[p] # "FINALIZED" /\ Exists(p)'
  BY <1>1
<1>3. \A t \in Slots : Running(t, "FINALIZE")' => Running(t, "FINALIZE") /\ req'[t] = req[t]
  BY CloseLeaves DEF IInv, Running
<1>4. QED
  BY <1>1, <1>2, <1>3

\* The requests that are still under way still rely on the mail there is.
LEMMA FinishKeepsReleaseLater ==
    ASSUME IInv, ReleaseLater, NEW s \in Slots, NEW rows, Closes(s, rows),
           \A m \in mail' : \A t \in Slots :
               Running(t, "RELEASE") /\ t # s /\ m.item \in req[t].others /\ Live(m) /\ Latest(m)'
               => m.stamp > req[t].at
    PROVE  ReleaseLater'
<1>1. \A t \in Slots : Running(t, "RELEASE")' =>
          Running(t, "RELEASE") /\ t # s /\ req'[t] = req[t]
  BY CloseLeaves DEF IInv, Running
<1>2. QED
  BY <1>1 DEF ReleaseLater, Live

-----------------------------------------------------------------------------
(* Creation, submission, recall and dispatch move one row.                 *)

LEMMA MoveFinishes ==
    ASSUME IInv, NEW s \in Slots, NEW i \in Items, NEW to \in {"DRAFT", "AWAITING_DISPATCH", "SUBMITTED"},
           Closes(s, {i}), status' = [status EXCEPT ![i] = to],
           Exists(i) \/ (Running(s, "CREATE") /\ req[s].item = i),
           \/ reviewed' = reviewed /\ to # "SUBMITTED"
           \/ reviewed' = [reviewed EXCEPT ![i] = TRUE],
           UNCHANGED <<released, finals, approvedAt, mail>>,
           crossed' \in BOOLEAN, crossed => crossed',
           ~crossed' => status[i] \notin {"FINALIZED", "PAUSED"}
    PROVE  IInv'
<1>1. /\ \A j \in Items : status'[j] = IF j = i THEN to ELSE status[j]
      /\ \A j \in Items : reviewed'[j] = reviewed[j] \/ (reviewed'[j] = TRUE /\ j = i)
      /\ to = "SUBMITTED" => reviewed'[i]
  BY DEF IInv, Shape
<1>2. Shape'
  <2>1. status' \in [Items -> Statuses] /\ reviewed' \in [Items -> BOOLEAN]
    BY DEF IInv, Shape, Statuses
  <2>2. QED
    BY <2>1, CloseLeaves DEF IInv, Shape
<1>3. Writes(s, {i})
  <2>1. finals' = finals /\ \A j \in Items : finals[j] \in Nat
    BY EventAssumption DEF IInv, Shape
  <2>2. \A j \in Items : reviewed[j] => reviewed'[j]
    BY <1>1
  <2>3. Exists(i)'
    BY <1>1 DEF Exists
  <2>4. finals'[i] >= finals[i]
    BY <2>1
  <2>5. QED
    BY <1>1, <2>1, <2>2, <2>3, <2>4 DEF Writes
<1>4. (\A t \in Slots : HandlerOK(t)') /\ CreatesApart' /\ FinalizesLater'
  BY <1>2, <1>3, FinishKeepsHandlers
<1>5. RowsOK'
  BY <1>1 DEF IInv, RowsOK
<1>6. PausedHasPrimary'
  <2>1. ASSUME NEW j \in Items, status'[j] = "PAUSED"
        PROVE  \E p \in Primaries :
                  /\ Exists(p)' /\ status'[p] # "FINALIZED"
                  /\ \A t \in Slots : Running(t, "FINALIZE")' /\ req'[t].item = p
                                          => j \in req'[t].others
    <3>1. status[j] = "PAUSED"
      BY <1>1, <2>1
    <3>2. \A p \in Primaries : Exists(p) => Exists(p)'
      BY <1>1, Facts DEF Exists
    <3>3. \A p \in Primaries : status'[p] = "FINALIZED" => status[p] = "FINALIZED"
      BY <1>1, Facts
    <3>4. QED
      BY <1>2, <3>1, <3>2, <3>3, FinishKeepsPrimary
  <2>2. QED
    BY <2>1 DEF PausedHasPrimary
<1>7. MailCounts'
  BY DEF IInv, MailCounts
<1>8. ASSUME ~crossed' PROVE Calm'
  <2>1. Calm /\ status[i] # "FINALIZED"
    BY <1>8 DEF IInv
  <2>2. \A m \in mail : m.item \in Items
    BY DEF IInv, Shape, Mail
  <2>3. Queued' /\ Released' /\ ToldOnce'
    BY <1>1, <2>1, <2>2 DEF Calm, Queued, Released, ToldOnce, Live, Latest
  <2>4. HeldNone'
    BY <1>1, <2>1 DEF Calm, HeldNone
  <2>5. ReleaseLater'
    <3>1. \A m \in mail' : \A t \in Slots :
              Running(t, "RELEASE") /\ t # s /\ m.item \in req[t].others /\ Live(m) /\ Latest(m)'
              => m.stamp > req[t].at
      BY <2>1 DEF Calm, ReleaseLater, Latest
    <3>2. QED
      BY <2>1, <3>1, FinishKeepsReleaseLater DEF Calm
  <2>6. QED
    BY <2>3, <2>4, <2>5 DEF Calm
<1>9. QED
  BY <1>2, <1>4, <1>5, <1>6, <1>7, <1>8 DEF IInv

-----------------------------------------------------------------------------
(* The rows an operation on the queue leaves.                              *)

LEMMA EnqueuedRows ==
    ASSUME NEW items, NEW at, NEW count
    PROVE  /\ \A m \in Enqueued(items, at, count) :
                  \/ m \in mail
                  \/ /\ at # NULL /\ m.item \in items
                     /\ m = [item |-> m.item, stamp |-> at, final |-> count[m.item],
                             state |-> "QUEUED"]
                     /\ \A n \in mail : n.item # m.item \/ n.stamp # at \/ ~Live(n)
           /\ mail \subseteq Enqueued(items, at, count)
BY DEF Enqueued, Live

LEMMA EnqueuedTyped ==
    ASSUME IInv, NEW items \in SUBSET Items, NEW at \in Stamps \cup {NULL}, NEW count,
           \A i \in items : count[i] \in 1 .. MaxFinals
    PROVE  Enqueued(items, at, count) \subseteq Mail
<1>1. ASSUME NEW m \in Enqueued(items, at, count), m \notin mail
      PROVE  m \in Mail
  <2>1. /\ at # NULL /\ m.item \in items
        /\ m = [item |-> m.item, stamp |-> at, final |-> count[m.item], state |-> "QUEUED"]
    BY <1>1, EnqueuedRows
  <2>2. at \in Stamps /\ m.item \in Items /\ count[m.item] \in 1 .. MaxFinals
    BY <2>1
  <2>3. QED
    BY <2>1, <2>2 DEF Mail
<1>2. QED
  BY <1>1 DEF IInv, Shape

LEMMA WithdrawnRows ==
    ASSUME IInv, NEW i
    PROVE  \A m \in Withdrawn(i) :
               /\ m \in Mail
               /\ \E n \in mail :
                     /\ m.item = n.item /\ m.final = n.final /\ m.stamp = n.stamp
                     /\ \/ m = n /\ ~(n.item = i /\ n.state = "QUEUED")
                        \/ m.state = "CANCELLED"
<1>1. SUFFICES ASSUME NEW n \in mail,
                      NEW m, m = IF n.item = i /\ n.state = "QUEUED"
                                 THEN [n EXCEPT !.state = "CANCELLED"] ELSE n
               PROVE  /\ m \in Mail
                      /\ m.item = n.item /\ m.final = n.final /\ m.stamp = n.stamp
                      /\ \/ m = n /\ ~(n.item = i /\ n.state = "QUEUED")
                         \/ m.state = "CANCELLED"
  BY DEF Withdrawn
<1>2. n \in Mail
  BY DEF IInv, Shape
<1>3. QED
  BY <1>1, <1>2 DEF Mail

\* A row that was not withdrawn was there before.
LEMMA LiveWasThere ==
    ASSUME IInv, NEW i, NEW m \in Withdrawn(i), Live(m)
    PROVE  m \in mail /\ ~(m.item = i /\ m.state = "QUEUED")
BY WithdrawnRows DEF Live

-----------------------------------------------------------------------------
(* Finalizing.                                                             *)

LEMMA FinalizeFinishes ==
    ASSUME IInv, NEW s \in Slots, Running(s, "FINALIZE"), FinishFinalize(s)
    PROVE  IInv'
<1> DEFINE i == req[s].item
           at == req[s].at
           others == req[s].others
           count == [finals EXCEPT ![i] = finals[i] + 1]
           rows == {i} \cup others
<1>1. /\ i \in Items /\ lock[i] = s /\ status[i] = "SUBMITTED"
      /\ finals[i] < MaxFinals
      /\ req[s].approved <=> at # NULL
      /\ \A j \in others : j \in Supplementaries /\ Exists(j) /\ reviewed[j]
      /\ at \in Stamps \cup {NULL}
  BY DEF IInv, HandlerOK, FinalizeOK, OthersOK, Running, Shape, Request
<1>2. /\ Closes(s, rows)
      /\ status' = AfterFinalize(i, others)
      /\ released' = [released EXCEPT ![i] = IF at # NULL THEN at ELSE released[i]]
      /\ finals' = count
      /\ mail' = Enqueued({i}, at, count)
      /\ crossed' = (crossed \/ (~req[s].approved /\ approvedAt # NULL)
                             \/ \E j \in others : status[j] # "PAUSED")
      /\ UNCHANGED <<reviewed, receipts, approvedAt>>
  BY DEF FinishFinalize, Notes
<1>3. /\ \A j \in Items : finals[j] \in Nat
      /\ count \in [Items -> 0 .. MaxFinals]
      /\ count[i] = finals[i] + 1 /\ count[i] \in 1 .. MaxFinals
      /\ \A j \in Items : j # i => count[j] = finals[j]
  BY <1>1, EventAssumption DEF IInv, Shape
<1>4. \A j \in Items : status'[j] = IF j = i THEN "FINALIZED"
                                    ELSE IF j \in others THEN "SUBMITTED" ELSE status[j]
  BY <1>2 DEF AfterFinalize, StatusWith
<1>5. Shape'
  <2>1. status' \in [Items -> Statuses]
    BY <1>2, <1>4 DEF AfterFinalize, StatusWith, Statuses, IInv, Shape
  <2>2. released' \in [Items -> Stamps \cup {NULL}]
    BY <1>1, <1>2 DEF IInv, Shape
  <2>3. mail' \subseteq Mail
    BY <1>1, <1>2, <1>3, EnqueuedTyped
  <2>4. crossed' \in BOOLEAN
    BY <1>2
  <2>5. /\ req' \in [Slots -> Request \cup {NULL}]
        /\ lock' \in [Items \cup {"EVENT"} -> Slots \cup {NULL}]
        /\ clock' = clock
    BY <1>2, CloseLeaves DEF IInv
  <2>6. QED
    BY <1>2, <1>3, <2>1, <2>2, <2>3, <2>4, <2>5 DEF IInv, Shape
<1> HIDE DEF rows, count
<1>6. Writes(s, rows)
  <2>1. \A j \in Items \ rows : status'[j] = status[j] /\ finals'[j] = finals[j]
    BY <1>2, <1>3, <1>4 DEF rows
  <2>2. \A j \in Items \cap rows : Exists(j)' /\ Exists(j)
    BY <1>1, <1>4 DEF Exists, rows
  <2>3. \A j \in Items : finals'[j] >= finals[j]
    BY <1>2, <1>3
  <2>4. QED
    BY <1>2, <2>1, <2>2, <2>3 DEF Writes
<1>7. (\A t \in Slots : HandlerOK(t)') /\ CreatesApart' /\ FinalizesLater'
  BY <1>5, <1>6, FinishKeepsHandlers
<1>8. RowsOK'
  <2>1. ASSUME NEW j \in Items
        PROVE  /\ status'[j] \in {"SUBMITTED", "PAUSED", "FINALIZED"} => reviewed'[j]
               /\ status'[j] = "PAUSED" => j \in Supplementaries
    BY <1>1, <1>2, <1>4 DEF IInv, RowsOK
  <2>2. ASSUME NEW j \in Items, status'[j] = "FINALIZED"
        PROVE  finals'[j] > 0
    BY <1>2, <1>3, <1>4, <2>2 DEF IInv, RowsOK
  <2>3. QED
    BY <2>1, <2>2 DEF RowsOK
<1>9. PausedHasPrimary'
  <2>1. ASSUME NEW j \in Items, status'[j] = "PAUSED"
        PROVE  \E p \in Primaries :
                  /\ Exists(p)' /\ status'[p] # "FINALIZED"
                  /\ \A t \in Slots : Running(t, "FINALIZE")' /\ req'[t].item = p
                                          => j \in req'[t].others
    <3>1. status[j] = "PAUSED" /\ j \notin others
      BY <1>4, <2>1
    <3>2. \A p \in Primaries : Exists(p) => Exists(p)'
      BY <1>4, Facts DEF Exists
    <3>3. \A p \in Primaries : status'[p] = "FINALIZED" => status[p] = "FINALIZED" \/ p = i
      BY <1>4, Facts
    <3>4. \A p \in Primaries : status'[p] = "FINALIZED" =>
              \/ status[p] = "FINALIZED"
              \/ Running(s, "FINALIZE") /\ req[s].item = p /\ j \notin req[s].others
      BY <3>1, <3>3
    <3>5. QED
      BY <1>2, <1>5, <3>1, <3>2, <3>4, FinishKeepsPrimary
  <2>2. QED
    BY <2>1 DEF PausedHasPrimary
<1>10. \A m \in mail' :
           \/ m \in mail /\ m.item \in Items /\ m.final \in Nat /\ m.final <= finals[m.item]
           \/ /\ m = [item |-> i, stamp |-> at, final |-> count[i], state |-> "QUEUED"]
              /\ at # NULL
  <2>1. \A m \in mail : m.item \in Items /\ m.final \in Nat /\ m.final <= finals[m.item]
    BY DEF IInv, Shape, Mail, MailCounts
  <2>2. QED
    BY <1>2, <2>1, EnqueuedRows
\* What is written about this finalization is new.
<1>11. \A m \in mail : m.item = i => m.final # count[i]
  BY <1>1, <1>3 DEF IInv, MailCounts, Shape, Mail
<1>12. MailCounts'
  <2>1. ASSUME NEW m \in mail'
        PROVE  m.final <= finals'[m.item]
    <3>1. CASE m \in mail
      <4>1. /\ m.item \in Items /\ m.final \in Nat /\ m.final <= finals[m.item]
            /\ finals[m.item] \in Nat
        BY <1>3, <3>1 DEF IInv, Shape, Mail, MailCounts
      <4>2. finals'[m.item] = finals[m.item] \/ finals'[m.item] = finals[m.item] + 1
        BY <1>2, <1>3, <4>1
      <4>3. QED
        BY <4>1, <4>2
    <3>2. CASE m \notin mail
      <4>1. m.item = i /\ m.final = count[i]
        BY <1>10, <2>1, <3>2
      <4>2. QED
        BY <1>2, <1>3, <4>1
    <3>3. QED
      BY <3>1, <3>2
  <2>2. QED
    BY <2>1 DEF MailCounts
<1>13. ASSUME ~crossed' PROVE Calm'
  <2>1. /\ Calm /\ (~req[s].approved => approvedAt = NULL)
        /\ \A j \in others : status[j] = "PAUSED"
    BY <1>2, <1>13 DEF IInv
  <2>2. \A m \in mail : Latest(m)' => m.item # i /\ Latest(m)
    BY <1>2, <1>3, <1>10, <1>11 DEF Latest, IInv, Shape, Mail
  <2>3. Queued'
    <3>1. ASSUME NEW m \in mail, m.state = "QUEUED"
          PROVE  status'[m.item] = "FINALIZED" /\ m.final = finals'[m.item]
      <4>1. m.item \in Items /\ status[m.item] = "FINALIZED" /\ m.final = finals[m.item]
        BY <2>1, <3>1 DEF Calm, Queued, Latest, IInv, Shape, Mail
      <4>2. m.item # i /\ m.item \notin others
        BY <1>1, <2>1, <4>1
      <4>3. QED
        BY <1>2, <1>3, <1>4, <4>1, <4>2
    <3>2. status'[i] = "FINALIZED" /\ finals'[i] = count[i]
      BY <1>1, <1>2, <1>4
    <3>3. ASSUME NEW m \in mail', m.state = "QUEUED"
          PROVE  status'[m.item] = "FINALIZED" /\ m.final = finals'[m.item]
      <4>1. CASE m \in mail
        BY <3>1, <3>3, <4>1
      <4>2. CASE m \notin mail
        <5>1. m.item = i /\ m.final = count[i]
          BY <1>10, <3>3, <4>2
        <5>2. QED
          BY <3>2, <5>1
      <4>3. QED
        BY <4>1, <4>2
    <3>4. QED
      BY <3>3 DEF Queued, Latest
  <2>4. Released'
    <3>1. ASSUME NEW m \in mail, Live(m), Latest(m)', status'[m.item] = "FINALIZED"
          PROVE  released'[m.item] = m.stamp
      <4>1. m.item \in Items /\ m.item # i /\ Latest(m)
        BY <2>2, <3>1 DEF IInv, Shape, Mail
      <4>2. status[m.item] = "FINALIZED" /\ released'[m.item] = released[m.item]
        BY <1>2, <1>4, <3>1, <4>1 DEF IInv, Shape
      <4>3. QED
        BY <2>1, <3>1, <4>1, <4>2 DEF Calm, Released
    <3>2. at # NULL => released'[i] = at
      BY <1>1, <1>2 DEF IInv, Shape
    <3>3. QED
      BY <1>10, <3>1, <3>2 DEF Released, Live
  <2>5. ToldOnce'
    <3>1. ASSUME NEW m \in mail', NEW n \in mail', m.item = n.item, m.final = n.final, m # n
          PROVE  m \in mail /\ n \in mail
      BY <1>10, <1>11, <3>1
    <3>2. QED
      BY <2>1, <3>1 DEF Calm, ToldOnce, Live
  <2>6. HeldNone'
    <3>1. ASSUME NEW j \in Items, approvedAt' # NULL, status'[j] = "FINALIZED"
          PROVE  released'[j] # NULL
      <4>1. CASE j = i
        BY <1>1, <1>2, <2>1, <3>1, <4>1 DEF IInv, Shape
      <4>2. CASE j # i
        BY <1>1, <1>2, <1>4, <2>1, <3>1, <4>2 DEF Calm, HeldNone, IInv, Shape
      <4>3. QED
        BY <4>1, <4>2
    <3>2. QED
      BY <3>1 DEF HeldNone
  <2>7. ReleaseLater'
    <3>1. ASSUME NEW m \in mail', NEW t \in Slots, Running(t, "RELEASE"), t # s,
                 m.item \in req[t].others, Live(m), Latest(m)'
          PROVE  m.stamp > req[t].at
      <4>1. CASE m \in mail
        BY <2>1, <2>2, <3>1, <4>1 DEF Calm, ReleaseLater
      <4>2. CASE m \notin mail
        <5>1. m.item = i /\ m.stamp = at /\ at # NULL
          BY <1>10, <3>1, <4>2
        <5>2. QED
          BY <3>1, <5>1 DEF IInv, FinalizesLater
      <4>3. QED
        BY <4>1, <4>2
    <3>2. QED
      BY <1>2, <2>1, <3>1, FinishKeepsReleaseLater DEF Calm
  <2>8. QED
    BY <2>3, <2>4, <2>5, <2>6, <2>7 DEF Calm
<1>14. QED
  BY <1>5, <1>7, <1>8, <1>9, <1>12, <1>13 DEF IInv

-----------------------------------------------------------------------------
(* Back to review.                                                         *)

LEMMA UnfinalizeFinishes ==
    ASSUME IInv, NEW s \in Slots, Running(s, "UNFINALIZE"), FinishUnfinalize(s)
    PROVE  IInv'
<1> DEFINE i == req[s].item
           others == req[s].others
           rows == {i} \cup others
<1>1. /\ i \in Items /\ lock[i] = s /\ status[i] = "FINALIZED"
      /\ i \in Primaries \/ others = {}
      /\ \A j \in others : j \in Supplementaries /\ Exists(j) /\ reviewed[j]
  BY DEF IInv, HandlerOK, UnfinalizeOK, OthersOK, Running
<1>2. /\ Closes(s, rows)
      /\ status' = AfterUnfinalize(i, others)
      /\ released' = [released EXCEPT ![i] = NULL]
      /\ mail' = Withdrawn(i)
      /\ crossed' = (crossed \/ \E j \in others : status[j] # "SUBMITTED")
      /\ UNCHANGED <<reviewed, finals, receipts, approvedAt>>
  BY DEF FinishUnfinalize, Notes
<1>3. \A j \in Items : status'[j] = IF j = i THEN "SUBMITTED"
                                    ELSE IF j \in others THEN "PAUSED" ELSE status[j]
  BY <1>2 DEF AfterUnfinalize, StatusWith
<1>4. Shape'
  <2>1. status' \in [Items -> Statuses]
    BY <1>2, <1>3 DEF AfterUnfinalize, StatusWith, Statuses, IInv, Shape
  <2>2. released' \in [Items -> Stamps \cup {NULL}]
    BY <1>2 DEF IInv, Shape
  <2>3. mail' \subseteq Mail
    BY <1>2, WithdrawnRows
  <2>4. crossed' \in BOOLEAN
    BY <1>2
  <2>5. /\ req' \in [Slots -> Request \cup {NULL}]
        /\ lock' \in [Items \cup {"EVENT"} -> Slots \cup {NULL}]
        /\ clock' = clock
    BY <1>2, CloseLeaves DEF IInv
  <2>6. QED
    BY <1>2, <2>1, <2>2, <2>3, <2>4, <2>5 DEF IInv, Shape
<1> HIDE DEF rows
<1>5. Writes(s, rows)
  <2>1. \A j \in Items \ rows : status'[j] = status[j] /\ finals'[j] = finals[j]
    BY <1>2, <1>3 DEF rows
  <2>2. \A j \in Items \cap rows : Exists(j)' /\ Exists(j)
    BY <1>1, <1>3 DEF Exists, rows
  <2>3. \A j \in Items : finals'[j] >= finals[j]
    BY <1>2, EventAssumption DEF IInv, Shape
  <2>4. QED
    BY <1>2, <2>1, <2>2, <2>3 DEF Writes
<1>6. (\A t \in Slots : HandlerOK(t)') /\ CreatesApart' /\ FinalizesLater'
  BY <1>4, <1>5, FinishKeepsHandlers
<1>7. RowsOK'
  BY <1>1, <1>2, <1>3 DEF IInv, RowsOK
<1>8. PausedHasPrimary'
  <2>1. ASSUME NEW j \in Items, status'[j] = "PAUSED"
        PROVE  \E p \in Primaries :
                  /\ Exists(p)' /\ status'[p] # "FINALIZED"
                  /\ \A t \in Slots : Running(t, "FINALIZE")' /\ req'[t].item = p
                                          => j \in req'[t].others
    \* The primary itself is open now, and the lock kept its finalize out.
    <3>1. CASE j \in others
      <4>1. i \in Primaries
        BY <1>1, <3>1
      <4>2. status'[i] = "SUBMITTED"
        BY <1>1, <1>3
      <4>3. status'[i] # "NONE" /\ status'[i] # "FINALIZED"
        BY <4>2
      <4>4. \A t \in Slots : Running(t, "FINALIZE")' => t # s /\ Running(t, "FINALIZE")
                                                          /\ req'[t] = req[t]
        BY <1>2, CloseLeaves DEF IInv, Running
      <4>5. \A t \in Slots : Running(t, "FINALIZE") /\ t # s => req[t].item # i
        BY <1>1 DEF IInv, HandlerOK, FinalizeOK
      <4>6. \A t \in Slots : ~(Running(t, "FINALIZE")' /\ req'[t].item = i)
        BY <4>4, <4>5
      <4> HIDE DEF i, others
      <4>7. QED
        BY <4>1, <4>3, <4>6 DEF Exists
    <3>2. CASE j \notin others
      <4>1. status[j] = "PAUSED"
        BY <1>3, <2>1, <3>2
      <4>2. \A p \in Primaries : Exists(p) => Exists(p)'
        BY <1>3, Facts DEF Exists
      <4>3. \A p \in Primaries : status'[p] = "FINALIZED" => status[p] = "FINALIZED"
        BY <1>3, Facts
      <4>4. QED
        BY <1>2, <1>4, <4>1, <4>2, <4>3, FinishKeepsPrimary
    <3>3. QED
      BY <3>1, <3>2
  <2>2. QED
    BY <2>1 DEF PausedHasPrimary
<1>9. MailCounts'
  <2>1. ASSUME NEW m \in mail'
        PROVE  m.final <= finals'[m.item]
    <3>1. PICK n \in mail : m.item = n.item /\ m.final = n.final
      BY <1>2, <2>1, WithdrawnRows
    <3>2. QED
      BY <1>2, <3>1 DEF IInv, MailCounts
  <2>2. QED
    BY <2>1 DEF MailCounts
<1>10. ASSUME ~crossed' PROVE Calm'
  <2>1. Calm /\ \A j \in others : status[j] = "SUBMITTED"
    BY <1>2, <1>10 DEF IInv
  <2>2. \A m \in mail' : Live(m) =>
            /\ m \in mail /\ m.item \in Items
            /\ ~(m.item = i /\ m.state = "QUEUED")
    BY <1>2, LiveWasThere DEF IInv, Shape, Mail
  <2>3. \A m : Latest(m)' <=> Latest(m)
    BY <1>2 DEF Latest
  <2>4. Queued'
    <3>1. ASSUME NEW m \in mail', m.state = "QUEUED"
          PROVE  status'[m.item] = "FINALIZED" /\ Latest(m)
      <4>1. m \in mail /\ m.item \in Items /\ m.item # i
        BY <2>2, <3>1 DEF Live
      <4>2. status[m.item] = "FINALIZED" /\ Latest(m)
        BY <2>1, <3>1, <4>1 DEF Calm, Queued
      <4>3. QED
        BY <1>3, <2>1, <4>1, <4>2
    <3>2. QED
      BY <2>3, <3>1 DEF Queued
  <2>5. Released'
    <3>1. ASSUME NEW m \in mail', Live(m), Latest(m), status'[m.item] = "FINALIZED"
          PROVE  released'[m.item] = m.stamp
      <4>1. m \in mail /\ m.item \in Items
        BY <2>2, <3>1
      <4>2. m.item # i /\ status[m.item] = "FINALIZED"
        BY <1>3, <3>1, <4>1
      <4>3. released'[m.item] = released[m.item]
        BY <1>2, <4>1, <4>2 DEF IInv, Shape
      <4>4. QED
        BY <2>1, <3>1, <4>1, <4>2, <4>3 DEF Calm, Released
    <3>2. QED
      BY <2>3, <3>1 DEF Released, Live
  <2>6. ToldOnce'
    BY <2>1, <2>2 DEF Calm, ToldOnce, Live
  <2>7. HeldNone'
    <3>1. \A j \in Items : status'[j] = "FINALIZED" =>
              status[j] = "FINALIZED" /\ released'[j] = released[j]
      BY <1>2, <1>3 DEF IInv, Shape
    <3>2. QED
      BY <1>2, <2>1, <3>1 DEF Calm, HeldNone
  <2>8. ReleaseLater'
    <3>1. \A m \in mail' : \A t \in Slots :
              Running(t, "RELEASE") /\ t # s /\ m.item \in req[t].others /\ Live(m) /\ Latest(m)'
              => m.stamp > req[t].at
      BY <2>1, <2>2, <2>3 DEF Calm, ReleaseLater
    <3>2. QED
      BY <1>2, <2>1, <3>1, FinishKeepsReleaseLater DEF Calm
  <2>9. QED
    BY <2>4, <2>5, <2>6, <2>7, <2>8 DEF Calm
<1>11. QED
  BY <1>4, <1>6, <1>7, <1>8, <1>9, <1>10 DEF IInv

-----------------------------------------------------------------------------
(* The board's release.                                                    *)

LEMMA ReleaseFinishes ==
    ASSUME IInv, NEW s \in Slots, Running(s, "RELEASE"), FinishRelease(s)
    PROVE  IInv'
<1> DEFINE at == req[s].at
           held == req[s].others
<1>1. /\ lock["EVENT"] = s /\ at \in Stamps
      /\ held \subseteq Items
      /\ \A j \in held : Exists(j) /\ finals[j] > 0
  BY DEF IInv, HandlerOK, ReleaseOK, Running, Shape, Request
<1>2. /\ Closes(s, held)
      /\ approvedAt' = Latch(at)
      /\ released' = [j \in Items |-> IF j \in held THEN at ELSE released[j]]
      /\ mail' = Enqueued(held, at, finals)
      /\ UNCHANGED <<status, reviewed, finals, receipts>>
  BY DEF FinishRelease
<1>3. /\ crossed' \in BOOLEAN
      /\ ~crossed' =>
            /\ ~crossed /\ Held \subseteq held
            /\ \A j \in held :
                  /\ status[j] = "FINALIZED"
                  /\ \A m \in mail : ~(m.item = j /\ m.final = finals[j] /\ m.stamp > at)
  BY DEF FinishRelease, Notes, IInv, Shape
<1>4. Shape'
  <2>1. \A j \in held : finals[j] \in 1 .. MaxFinals
    BY <1>1, EventAssumption DEF IInv, Shape
  <2>2. mail' \subseteq Mail
    BY <1>1, <1>2, <2>1, EnqueuedTyped
  <2>3. /\ released' \in [Items -> Stamps \cup {NULL}]
        /\ approvedAt' \in Stamps \cup {NULL}
    BY <1>1, <1>2 DEF IInv, Shape, Latch
  <2>4. /\ req' \in [Slots -> Request \cup {NULL}]
        /\ lock' \in [Items \cup {"EVENT"} -> Slots \cup {NULL}]
        /\ clock' = clock
    BY <1>2, CloseLeaves DEF IInv
  <2>5. QED
    BY <1>2, <1>3, <2>2, <2>3, <2>4 DEF IInv, Shape
<1>5. Writes(s, held)
  <2>1. \A j \in Items : finals'[j] >= finals[j]
    BY <1>2, EventAssumption DEF IInv, Shape
  <2>2. QED
    BY <1>1, <1>2, <2>1 DEF Writes, Exists
<1>6. (\A t \in Slots : HandlerOK(t)') /\ CreatesApart' /\ FinalizesLater'
  BY <1>4, <1>5, FinishKeepsHandlers
<1>7. RowsOK'
  BY <1>2 DEF IInv, RowsOK
<1>8. PausedHasPrimary'
  <2>1. ASSUME NEW j \in Items, status'[j] = "PAUSED"
        PROVE  \E p \in Primaries :
                  /\ Exists(p)' /\ status'[p] # "FINALIZED"
                  /\ \A t \in Slots : Running(t, "FINALIZE")' /\ req'[t].item = p
                                          => j \in req'[t].others
    <3>1. status[j] = "PAUSED"
      BY <1>2, <2>1
    <3>2. /\ \A p \in Primaries : Exists(p) => Exists(p)'
          /\ \A p \in Primaries : status'[p] = "FINALIZED" => status[p] = "FINALIZED"
      BY <1>2 DEF Exists
    <3>3. QED
      BY <1>2, <1>4, <3>1, <3>2, FinishKeepsPrimary
  <2>2. QED
    BY <2>1 DEF PausedHasPrimary
<1>9. \A m \in mail' :
          \/ m \in mail
          \/ /\ m.item \in held
             /\ m = [item |-> m.item, stamp |-> at, final |-> finals[m.item], state |-> "QUEUED"]
  BY <1>2, EnqueuedRows
<1>10. MailCounts'
  <2>1. \A j \in Items : finals[j] \in Nat
    BY EventAssumption DEF IInv, Shape
  <2>2. ASSUME NEW m \in mail'
        PROVE  m.final <= finals'[m.item]
    <3>1. CASE m \in mail
      BY <1>2, <3>1 DEF IInv, MailCounts
    <3>2. CASE m \notin mail
      <4>1. m.item \in held /\ m.final = finals[m.item]
        BY <1>9, <2>2, <3>2
      <4>2. QED
        BY <1>1, <1>2, <2>1, <4>1
    <3>3. QED
      BY <3>1, <3>2
  <2>3. QED
    BY <2>2 DEF MailCounts
<1>11. ASSUME ~crossed' PROVE Calm'
  <2>1. Calm /\ \A j \in held : status[j] = "FINALIZED"
    BY <1>3, <1>11 DEF IInv
  <2>2. \A m : Latest(m)' <=> Latest(m)
    BY <1>2 DEF Latest
  \* A department that was already told of this finalization was told by a
  \* finalize younger than the release, and that has crossed.
  <2>3. \A m \in mail : Live(m) /\ Latest(m) => m.item \notin held
    BY <1>3, <1>11, <2>1 DEF Calm, ReleaseLater, Latest
  <2>4. Queued'
    BY <1>2, <1>9, <2>1 DEF Calm, Queued, Latest
  <2>5. Released'
    <3>1. ASSUME NEW m \in mail', Live(m), Latest(m), status[m.item] = "FINALIZED"
          PROVE  released'[m.item] = m.stamp
      <4>1. CASE m \in mail
        <5>1. m.item \in Items /\ m.item \notin held
          BY <2>3, <3>1, <4>1 DEF IInv, Shape, Mail
        <5>2. QED
          BY <1>2, <2>1, <3>1, <4>1, <5>1 DEF Calm, Released
      <4>2. CASE m \notin mail
        BY <1>1, <1>2, <1>9, <3>1, <4>2
      <4>3. QED
        BY <4>1, <4>2
    <3>2. QED
      BY <1>2, <2>2, <3>1 DEF Released, Live
  <2>6. ToldOnce'
    <3>1. ASSUME NEW m \in mail', NEW n \in mail', m.item = n.item, m.final = n.final,
                 m # n, Live(m), Live(n)
          PROVE  FALSE
      <4>1. CASE m \in mail /\ n \in mail
        BY <2>1, <3>1, <4>1 DEF Calm, ToldOnce
      <4>2. CASE m \in mail /\ n \notin mail
        BY <1>9, <2>3, <3>1, <4>2 DEF Latest
      <4>3. CASE m \notin mail /\ n \in mail
        BY <1>9, <2>3, <3>1, <4>3 DEF Latest
      <4>4. CASE m \notin mail /\ n \notin mail
        BY <1>9, <3>1, <4>4
      <4>5. QED
        BY <4>1, <4>2, <4>3, <4>4
    <3>2. QED
      BY <3>1 DEF ToldOnce, Live
  <2>7. HeldNone'
    <3>1. ASSUME NEW j \in Items, status[j] = "FINALIZED"
          PROVE  released'[j] # NULL
      BY <1>1, <1>2, <1>3, <1>11, <3>1, Facts DEF Held
    <3>2. QED
      BY <1>2, <3>1 DEF HeldNone
  <2>8. ReleaseLater'
    \* There is one release at a time.
    <3>1. \A t \in Slots : Running(t, "RELEASE") => t = s
      BY <1>1 DEF IInv, HandlerOK, ReleaseOK
    <3>2. QED
      BY <1>2, <2>1, <3>1, FinishKeepsReleaseLater DEF Calm
  <2>9. QED
    BY <2>4, <2>5, <2>6, <2>7, <2>8 DEF Calm
<1>12. QED
  BY <1>4, <1>6, <1>7, <1>8, <1>10, <1>11 DEF IInv

-----------------------------------------------------------------------------
(* Steps that touch no item.                                               *)

LEMMA QuietKeepsInv ==
    ASSUME IInv, UNCHANGED <<status, reviewed, released, finals, approvedAt, mail, clock>>,
           UNCHANGED <<lock, req, crossed>>
    PROVE  IInv'
<1>1. Shape' /\ RowsOK' /\ MailCounts'
  BY DEF IInv, Shape, RowsOK, MailCounts
<1>2. \A t \in Slots : HandlerOK(t)'
  BY DEF IInv, HandlerOK, CreateOK, MoveOK, OthersOK, FinalizeOK, UnfinalizeOK, ReleaseOK,
         Running, Exists
<1>3. CreatesApart' /\ FinalizesLater' /\ PausedHasPrimary'
  BY DEF IInv, CreatesApart, FinalizesLater, PausedHasPrimary, Running, Exists
<1>4. ~crossed' => Calm'
  BY DEF IInv, Calm, Queued, Released, ToldOnce, HeldNone, ReleaseLater, Live, Latest, Running
<1>5. QED
  BY <1>1, <1>2, <1>3, <1>4 DEF IInv

LEMMA FailedDispatchKeepsInv ==
    ASSUME IInv, NEW s \in Slots, Running(s, "DISPATCH"), FailDispatch(s)
    PROVE  IInv'
<1>1. /\ Closes(s, {req[s].item})
      /\ UNCHANGED <<status, reviewed, released, finals, approvedAt, mail, crossed>>
  BY DEF FailDispatch, itemVars
<1>2. Closes(s, {})
  BY <1>1 DEF Closes
<1>3. Writes(s, {})
  BY <1>1, <1>2 DEF Writes
<1>4. Shape' /\ RowsOK' /\ MailCounts'
  BY <1>1, CloseLeaves DEF IInv, Shape, RowsOK, MailCounts
<1>5. (\A t \in Slots : HandlerOK(t)') /\ CreatesApart' /\ FinalizesLater'
  BY <1>3, <1>4, FinishKeepsHandlers
<1>6. PausedHasPrimary'
  <2>1. /\ \A p \in Primaries : Exists(p) => Exists(p)'
        /\ \A p \in Primaries : status'[p] = "FINALIZED" => status[p] = "FINALIZED"
    BY <1>1 DEF Exists
  <2>2. ASSUME NEW j \in Items, status'[j] = "PAUSED"
        PROVE  \E p \in Primaries :
                  /\ Exists(p)' /\ status'[p] # "FINALIZED"
                  /\ \A t \in Slots : Running(t, "FINALIZE")' /\ req'[t].item = p
                                          => j \in req'[t].others
    <3>1. status[j] = "PAUSED"
      BY <1>1, <2>2
    <3>2. QED
      BY <1>2, <1>4, <2>1, <3>1, FinishKeepsPrimary
  <2>3. QED
    BY <2>2 DEF PausedHasPrimary
<1>7. ASSUME ~crossed' PROVE Calm'
  <2>1. Calm
    BY <1>1, <1>7 DEF IInv
  <2>2. ReleaseLater'
    <3>1. \A m \in mail' : \A t \in Slots :
              Running(t, "RELEASE") /\ t # s /\ m.item \in req[t].others /\ Live(m) /\ Latest(m)'
              => m.stamp > req[t].at
      BY <1>1, <2>1 DEF Calm, ReleaseLater, Latest
    <3>2. QED
      BY <1>2, <2>1, <3>1, FinishKeepsReleaseLater DEF Calm
  <2>3. QED
    BY <1>1, <2>1, <2>2 DEF Calm, Queued, Released, ToldOnce, HeldNone, Live, Latest
<1>8. QED
  BY <1>4, <1>5, <1>6, <1>7 DEF IInv

LEMMA DrainKeepsInv ==
    ASSUME IInv, NEW m \in mail, Drain(m)
    PROVE  IInv'
<1> DEFINE done == [m EXCEPT !.state = IF live THEN "SENT" ELSE "CANCELLED"]
<1>1. /\ m.state = "QUEUED" /\ mail' = (mail \ {m}) \cup {done}
      /\ UNCHANGED <<status, reviewed, released, finals, approvedAt, clock>>
      /\ UNCHANGED <<lock, req, crossed>>
  BY DEF Drain, itemVars, eventVars
<1>2. m \in Mail
  BY DEF IInv, Shape
<1>3. /\ done \in Mail /\ done.state # "QUEUED"
      /\ done.item = m.item /\ done.final = m.final /\ done.stamp = m.stamp
  BY <1>2 DEF Mail
<1>4. Live(m)
  BY <1>1 DEF Live
<1> HIDE DEF done
<1>5. \A n \in mail' : n \in mail \/ n = done
  BY <1>1
<1>6. Shape' /\ RowsOK' /\ MailCounts'
  BY <1>1, <1>3 DEF IInv, Shape, RowsOK, MailCounts
<1>7. \A t \in Slots : HandlerOK(t)'
  BY <1>1 DEF IInv, HandlerOK, CreateOK, MoveOK, OthersOK, FinalizeOK, UnfinalizeOK, ReleaseOK,
              Running, Exists
<1>8. CreatesApart' /\ FinalizesLater' /\ PausedHasPrimary'
  BY <1>1 DEF IInv, CreatesApart, FinalizesLater, PausedHasPrimary, Running, Exists
<1>9. ASSUME ~crossed' PROVE Calm'
  <2>1. Calm
    BY <1>1, <1>9 DEF IInv
  <2>2. \A n : Latest(n)' <=> Latest(n)
    BY <1>1 DEF Latest
  <2>3. Latest(done) <=> Latest(m)
    BY <1>3 DEF Latest
  <2>4. Queued'
    BY <1>1, <1>3, <1>5, <2>1, <2>2 DEF Calm, Queued
  <2>5. Released'
    BY <1>1, <1>3, <1>4, <1>5, <2>1, <2>2, <2>3 DEF Calm, Released, Live
  <2>6. ToldOnce'
    <3>1. ASSUME NEW n \in mail', NEW k \in mail', n.item = k.item, n.final = k.final,
                 n # k, Live(n), Live(k)
          PROVE  FALSE
      <4>1. CASE n # done /\ k # done
        BY <1>5, <2>1, <3>1, <4>1 DEF Calm, ToldOnce
      <4>2. CASE n = done /\ k # done
        <5>1. k \in mail /\ k # m
          BY <1>1, <4>2
        <5>2. QED
          BY <1>3, <1>4, <2>1, <3>1, <4>2, <5>1 DEF Calm, ToldOnce
      <4>3. CASE n # done /\ k = done
        <5>1. n \in mail /\ n # m
          BY <1>1, <4>3
        <5>2. QED
          BY <1>3, <1>4, <2>1, <3>1, <4>3, <5>1 DEF Calm, ToldOnce
      <4>4. QED
        BY <3>1, <4>1, <4>2, <4>3
    <3>2. QED
      BY <3>1 DEF ToldOnce, Live
  <2>7. HeldNone'
    BY <1>1, <2>1 DEF Calm, HeldNone
  <2>8. ReleaseLater'
    <3>1. ASSUME NEW t \in Slots, NEW n \in mail', Running(t, "RELEASE"),
                 n.item \in req[t].others, Live(n), Latest(n)
          PROVE  n.stamp > req[t].at
      BY <1>3, <1>4, <1>5, <2>1, <2>3, <3>1 DEF Calm, ReleaseLater
    <3>2. QED
      BY <1>1, <2>2, <3>1 DEF ReleaseLater, Running, Live
  <2>9. QED
    BY <2>4, <2>5, <2>6, <2>7, <2>8 DEF Calm
<1>10. QED
  BY <1>6, <1>7, <1>8, <1>9 DEF IInv

-----------------------------------------------------------------------------
(* Every step.                                                             *)

LEMMA InitInv == Init => IInv
<1> SUFFICES ASSUME Init PROVE IInv
  OBVIOUS
<1>1. Shape
  <2>1. 0 \in 0 .. MaxFinals /\ 0 \in 0 .. MaxStamps
    BY EventAssumption
  <2>2. mail \subseteq Mail /\ crossed \in BOOLEAN
    BY DEF Init
  <2>3. QED
    BY <2>1, <2>2 DEF Init, Shape, Statuses
<1>2. \A s \in Slots : \A op : ~Running(s, op)
  BY DEF Init, Running
<1>3. (\A s \in Slots : HandlerOK(s)) /\ CreatesApart /\ FinalizesLater
  BY <1>2 DEF HandlerOK, CreateOK, MoveOK, OthersOK, FinalizeOK, UnfinalizeOK, ReleaseOK,
              CreatesApart, FinalizesLater
<1>4. RowsOK /\ PausedHasPrimary /\ MailCounts
  BY DEF Init, RowsOK, PausedHasPrimary, MailCounts
<1>5. Calm
  BY DEF Init, Calm, Queued, Released, ToldOnce, HeldNone, ReleaseLater
<1>6. QED
  BY <1>1, <1>3, <1>4, <1>5 DEF IInv

LEMMA MoveOfFinish ==
    ASSUME IInv, NEW s \in Slots,
           \/ Running(s, "CREATE") /\ FinishCreate(s)
           \/ Running(s, "SUBMIT") /\ FinishSubmit(s)
           \/ Running(s, "RECALL") /\ FinishRecall(s)
           \/ Running(s, "DISPATCH") /\ FinishDispatch(s)
    PROVE  IInv'
<1> DEFINE i == req[s].item
<1>1. CASE Running(s, "CREATE") /\ FinishCreate(s)
  <2>1. i \in Items /\ status[i] = "NONE"
    BY <1>1 DEF IInv, HandlerOK, CreateOK
  <2>2. QED
    BY <1>1, <2>1, MoveFinishes DEF FinishCreate, IInv, Shape
<1>2. CASE ~Running(s, "CREATE")
  <2>1. i \in Items /\ Exists(i)
    BY <1>2 DEF IInv, HandlerOK, MoveOK
  <2>2. CASE FinishSubmit(s)
    BY <2>1, <2>2, MoveFinishes DEF FinishSubmit, Notes, IInv, Shape
  <2>3. CASE FinishRecall(s)
    BY <2>1, <2>3, MoveFinishes DEF FinishRecall, Notes, IInv, Shape
  <2>4. CASE FinishDispatch(s)
    BY <2>1, <2>4, MoveFinishes DEF FinishDispatch, Notes, IInv, Shape
  <2>5. QED
    BY <1>2, <2>2, <2>3, <2>4
<1>3. QED
  BY <1>1, <1>2 DEF Running

LEMMA InvIsKept == IInv /\ [Next]_vars => IInv'
<1> SUFFICES ASSUME IInv, [Next]_vars PROVE IInv'
  OBVIOUS
<1>1. ASSUME NEW s \in Slots, Begin(s) PROVE IInv'
  BY <1>1, MoveBegins, FinalizeBegins, UnfinalizeBegins, ReleaseBegins DEF Begin
<1>2. ASSUME NEW s \in Slots, Finish(s) PROVE IInv'
  BY <1>2, MoveOfFinish, FailedDispatchKeepsInv, FinalizeFinishes, UnfinalizeFinishes,
     ReleaseFinishes DEF Finish, Running
<1>3. ASSUME NEW m \in mail, Drain(m) PROVE IInv'
  BY <1>3, DrainKeepsInv
<1>4. CASE ToggleTemplate \/ UNCHANGED vars
  BY <1>4, QuietKeepsInv DEF ToggleTemplate, vars, itemVars, eventVars
<1>5. QED
  BY <1>1, <1>2, <1>3, <1>4 DEF Next

\* What a handler of the event's budgets relies on when it finishes, it finds:
\* locked rows as it read them, the other rows in being, and, as long as
\* nothing crossed, a queue that tells of the latest finalization only.
THEOREM BudgetsInvariant == Spec => []IInv
<1>1. QED
  BY InitInv, InvIsKept, PTL DEF Spec

\* No row of the queue calls a budget final that is back in review
\* (unfinalize_work_item, _cancel_pending_release_emails).
THEOREM QueuedMailStaysTrue == Spec => []QueuedMailIsTrue
<1>1. IInv => QueuedMailIsTrue
  <2>1. ASSUME IInv, ~crossed, NEW m \in mail, m.state = "QUEUED"
        PROVE  status[m.item] = "FINALIZED" /\ released[m.item] = m.stamp
    BY <2>1 DEF IInv, Calm, Queued, Released, Live
  <2>2. QED
    BY <2>1 DEF QueuedMailIsTrue
<1>2. QED
  BY <1>1, BudgetsInvariant, PTL

\* A department hears of one finalization once, however releases and finalizes
\* overlap (release_event, enqueue_email).
THEOREM ToldOnceAlways == Spec => []ToldOncePerFinalization
<1>1. IInv => ToldOncePerFinalization
  BY DEF IInv, Calm, ToldOnce, ToldOncePerFinalization, Live
<1>2. QED
  BY <1>1, BudgetsInvariant, PTL

\* Once the board has approved, no finalized budget is left waiting
\* (finalize_work_item, release_event).
THEOREM NoneHeldOnceApproved == Spec => []ReleasedOnceApproved
<1>1. IInv => ReleasedOnceApproved
  BY DEF IInv, Calm, HeldNone, ReleasedOnceApproved
<1>2. QED
  BY <1>1, BudgetsInvariant, PTL

\* A supplementary is paused only while a primary is open, whatever overlaps and
\* however many primaries there are (finalize_work_item, unfinalize_work_item).
THEOREM PausedNeedsOpenPrimary == Spec => []PausedOnlyWhilePrimaryOpen
<1>1. IInv => PausedOnlyWhilePrimaryOpen
  BY DEF IInv, PausedHasPrimary, PausedOnlyWhilePrimaryOpen
<1>2. QED
  BY <1>1, BudgetsInvariant, PTL

=============================================================================
