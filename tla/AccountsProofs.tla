--------------------------- MODULE AccountsProofs ---------------------------
(***************************************************************************)
(* For every number of people, e-mails, groups and work types: the audit   *)
(* log accounts for every role, whichever writer wrote; every role row has *)
(* one scope at most; a linked account stays linked; no two accounts share *)
(* an e-mail or a subject; what menus offer opens; and a request's mail    *)
(* goes to those who can act on it.                                        *)
(***************************************************************************)
EXTENDS Accounts, TLAPS

\* What the writers of roles are called with.
RolesOK == roles \in [Ids -> SUBSET RoleRow]
TrailOK == trail \in [Ids -> SUBSET Codes(RoleRow)]

-----------------------------------------------------------------------------
(* The codes of a set of rows.                                             *)

LEMMA CodesOfSubset ==
    ASSUME NEW S \in SUBSET RoleRow
    PROVE  Codes(S) \in SUBSET Codes(RoleRow)
BY DEF Codes

LEMMA CodesOfUnion ==
    ASSUME NEW S, NEW T
    PROVE  Codes(S \cup T) = Codes(S) \cup Codes(T)
BY DEF Codes

\* The row the bootstrap adds, and the code it is read back as.
LEMMA SuperAdminCode ==
    /\ Row("SUPER_ADMIN", NULL, NULL) \in RoleRow
    /\ Codes({Row("SUPER_ADMIN", NULL, NULL)}) = {<<"SUPER_ADMIN", NULL>>}
<1>1. Row("SUPER_ADMIN", NULL, NULL) \in RoleRow
  BY DEF Row, RoleRow, RoleCodes
<1>2. Code(Row("SUPER_ADMIN", NULL, NULL)) = <<"SUPER_ADMIN", NULL>>
  BY DEF Row, Code
<1>3. QED
  BY <1>1, <1>2 DEF Codes

\* Every box the form can post is a role row.
LEMMA FormRowsAreRows == FormRows \subseteq RoleRow
BY AccountsAssumption DEF FormRows, Row, RoleRow, RoleCodes

\* So is every row the upload adds.
LEMMA UploadedRowIsRow ==
    ASSUME NEW code \in UploadedCodes, NEW group \in Groups \cup {NULL}
    PROVE  Row(code, NULL, group) \in RoleRow
BY DEF UploadedCodes, Row, RoleRow, RoleCodes

-----------------------------------------------------------------------------
(* The trail.                                                              *)

Inv == RolesOK /\ TrailOK /\ TrailReplays

\* A logged rewrite of a user's rows, whatever the rows before and after: the
\* entry is the difference of two snapshots, so the replay arrives at the
\* second one.
LEMMA RewriteIsReplayed ==
    ASSUME NEW u \in Ids, NEW after \in SUBSET RoleRow, Inv, SetRoles(u, after)
    PROVE  Inv'
<1>1. roles' = [roles EXCEPT ![u] = after]
  BY DEF SetRoles
<1>2. trail' = [trail EXCEPT ![u] = Codes(after)]
  <2>1. trail[u] = Codes(roles[u])
    BY DEF Inv, TrailReplays
  <2>2. Audited(u, roles[u], after) = Codes(after)
    BY <2>1 DEF Audited
  <2>3. QED
    BY <2>2 DEF SetRoles
<1>3. Codes(after) \in SUBSET Codes(RoleRow)
  BY CodesOfSubset
<1>4. RolesOK' /\ TrailOK'
  BY <1>1, <1>2, <1>3 DEF Inv, RolesOK, TrailOK
<1>5. ASSUME NEW v \in Ids
      PROVE  Codes(roles'[v]) = trail'[v]
  BY <1>1, <1>2 DEF Inv, RolesOK, TrailOK, TrailReplays
<1>6. TrailReplays'
  BY <1>5 DEF TrailReplays, Codes
<1>7. QED
  BY <1>4, <1>6 DEF Inv

\* The bootstrap writes a row and no entry; the setting stands for one.
LEMMA BootstrapIsReplayed ==
    ASSUME NEW e, Bootstrap(e), Inv
    PROVE  Inv'
<1> DEFINE super == Row("SUPER_ADMIN", NULL, NULL)
<1>1. PICK u \in IF ByEmail(e) # {} THEN ByEmail(e) ELSE Fresh :
          /\ roles' = [roles EXCEPT ![u] = roles[u] \cup {super}]
          /\ trail' = [trail EXCEPT ![u] = trail[u] \cup {<<"SUPER_ADMIN", NULL>>}]
  BY DEF Bootstrap
<1>2. u \in Ids
  BY DEF ByEmail, Fresh, Present
<1>3. /\ roles[u] \cup {super} \in SUBSET RoleRow
      /\ Codes(roles[u] \cup {super}) = trail[u] \cup {<<"SUPER_ADMIN", NULL>>}
  BY <1>2, SuperAdminCode, CodesOfUnion DEF Inv, RolesOK, TrailReplays
<1>4. trail[u] \cup {<<"SUPER_ADMIN", NULL>>} \in SUBSET Codes(RoleRow)
  BY <1>3, CodesOfSubset
<1>5. RolesOK' /\ TrailOK'
  BY <1>1, <1>3, <1>4 DEF Inv, RolesOK, TrailOK
<1>6. ASSUME NEW v \in Ids
      PROVE  Codes(roles'[v]) = trail'[v]
  BY <1>1, <1>2, <1>3 DEF Inv, RolesOK, TrailOK, TrailReplays
<1>7. QED
  BY <1>5, <1>6 DEF Inv, TrailReplays, Codes

LEMMA InvIsKept == Inv /\ [Next]_vars => Inv'
<1> SUFFICES ASSUME Inv, [Next]_vars PROVE Inv'
  OBVIOUS
<1>1. CASE UNCHANGED people
  BY <1>1 DEF people, Inv, RolesOK, TrailOK, TrailReplays, Codes
<1>2. CASE UNCHANGED <<roles, trail>>
  BY <1>2 DEF Inv, RolesOK, TrailOK, TrailReplays, Codes
<1>3. ASSUME NEW u \in Ids, NEW boxes \in Boxes(u), SetRoles(u, boxes)
      PROVE  Inv'
  <2>1. boxes \in SUBSET RoleRow
    BY <1>3, FormRowsAreRows DEF Boxes, Inv, RolesOK
  <2>2. QED
    BY <1>3, <2>1, RewriteIsReplayed
<1>4. ASSUME NEW e \in Emails, NEW s \in Subjects, SignIn(e, s) \/ FirstSignIn(e, s)
      PROVE  Inv'
  BY <1>2, <1>4 DEF SignIn, FirstSignIn
<1>5. ASSUME NEW e \in Emails, NEW active \in BOOLEAN, CreateUser(e, active)
      PROVE  Inv'
  BY <1>3, <1>5 DEF CreateUser, Fresh
<1>6. ASSUME NEW e \in Emails, NEW active \in BOOLEAN, NEW u \in Present,
             UpdateUser(u, e, active)
      PROVE  Inv'
  BY <1>3, <1>6 DEF UpdateUser, Present
<1>7. ASSUME NEW u \in Present, ToggleUser(u)
      PROVE  Inv'
  BY <1>2, <1>7 DEF ToggleUser
<1>8. ASSUME NEW e \in Emails, UploadUser(e)
      PROVE  Inv'
  BY <1>2, <1>8 DEF UploadUser
<1>9. ASSUME NEW u \in Present \cap Managed, NEW c \in UploadedCodes,
             NEW g \in Groups \cup {NULL}, UploadRole(u, c, g)
      PROVE  Inv'
  <2>1. u \in Ids
    BY DEF Present
  <2>2. roles[u] \cup {Row(c, NULL, g)} \in SUBSET RoleRow
    BY <2>1, UploadedRowIsRow DEF Inv, RolesOK
  <2>3. SetRoles(u, roles[u] \cup {Row(c, NULL, g)})
    BY <1>9 DEF UploadRole
  <2>4. QED
    BY <2>1, <2>2, <2>3, RewriteIsReplayed
<1>10. ASSUME NEW e \in BootstrapAdmins, Bootstrap(e)
       PROVE  Inv'
  BY <1>10, BootstrapIsReplayed
<1>11. ASSUME NEW g \in Groups, ToggleGroup(g)
       PROVE  Inv'
  BY <1>1, <1>11 DEF ToggleGroup
<1>12. ASSUME NEW w \in WorkTypes, ToggleType(w)
       PROVE  Inv'
  BY <1>1, <1>12 DEF ToggleType
<1>13. CASE UNCHANGED vars
  BY <1>1, <1>13 DEF vars
<1>14. QED
  BY <1>4, <1>5, <1>6, <1>7, <1>8, <1>9, <1>10, <1>11, <1>12, <1>13 DEF Next

\* Replaying the audit entries of an account gives exactly the roles it holds
\* (_update_user_roles, user_roles_upload, ensure_bootstrap_admins).
THEOREM TrailAlwaysReplays == Spec => []TrailReplays
<1>1. Init => Inv
  BY DEF Init, Inv, RolesOK, TrailOK, TrailReplays, Codes
<1>2. Inv => TrailReplays
  BY DEF Inv
<1>3. QED
  BY <1>1, <1>2, InvIsKept, PTL DEF Spec

-----------------------------------------------------------------------------
(* The scope of a role row.                                                *)

Scoped(r) ==
    /\ r.type = NULL \/ r.group = NULL
    /\ r.type # NULL => r.code \in {"WORKTYPE_ADMIN", "WORKTYPE_VIEWER"}
    /\ r.code = "APPROVER" => r.group # NULL

LEMMA WrittenRowsAreScoped ==
    /\ \A r \in FormRows : Scoped(r)
    /\ Scoped(Row("SUPER_ADMIN", NULL, NULL))
    /\ \A c \in RoleCodes \ {"APPROVER"}, g \in Groups \cup {NULL} : Scoped(Row(c, NULL, g))
    /\ \A g \in Groups : Scoped(Row("APPROVER", NULL, g))
BY AccountsAssumption DEF FormRows, Row, Scoped, RoleCodes

ScopeInv == RolesOK /\ \A u \in Ids : \A r \in roles[u] : Scoped(r)

LEMMA ScopeIsKept == ScopeInv /\ [Next]_vars => ScopeInv'
<1> SUFFICES ASSUME ScopeInv, [Next]_vars PROVE ScopeInv'
  OBVIOUS
<1>1. CASE UNCHANGED roles
  BY <1>1 DEF ScopeInv, RolesOK, Scoped
<1>2. ASSUME NEW u \in Ids, NEW S \in SUBSET RoleRow, \A r \in S : Scoped(r),
             roles' = [roles EXCEPT ![u] = S]
      PROVE  ScopeInv'
  <2>1. RolesOK'
    BY <1>2 DEF ScopeInv, RolesOK
  <2>2. ASSUME NEW v \in Ids, NEW r \in roles'[v]
        PROVE  Scoped(r)
    BY <1>2, <2>2 DEF ScopeInv, RolesOK
  <2>3. QED
    BY <2>1, <2>2 DEF ScopeInv, Scoped
<1>3. ASSUME NEW u \in Ids, NEW boxes \in Boxes(u), SetRoles(u, boxes)
      PROVE  ScopeInv'
  <2>1. boxes \in SUBSET RoleRow /\ \A r \in boxes : Scoped(r)
    BY <1>3, FormRowsAreRows, WrittenRowsAreScoped DEF Boxes, ScopeInv, RolesOK
  <2>2. QED
    BY <1>2, <1>3, <2>1 DEF SetRoles
<1>4. ASSUME NEW e \in Emails, NEW s \in Subjects, SignIn(e, s) \/ FirstSignIn(e, s)
      PROVE  ScopeInv'
  BY <1>1, <1>4 DEF SignIn, FirstSignIn
<1>5. ASSUME NEW e \in Emails, NEW active \in BOOLEAN, CreateUser(e, active)
      PROVE  ScopeInv'
  BY <1>3, <1>5 DEF CreateUser, Fresh
<1>6. ASSUME NEW e \in Emails, NEW active \in BOOLEAN, NEW u \in Present,
             UpdateUser(u, e, active)
      PROVE  ScopeInv'
  BY <1>3, <1>6 DEF UpdateUser, Present
<1>7. ASSUME NEW u \in Present, ToggleUser(u)
      PROVE  ScopeInv'
  BY <1>1, <1>7 DEF ToggleUser
<1>8. ASSUME NEW e \in Emails, UploadUser(e)
      PROVE  ScopeInv'
  BY <1>1, <1>8 DEF UploadUser
<1>9. ASSUME NEW u \in Present \cap Managed, NEW c \in UploadedCodes,
             NEW g \in Groups \cup {NULL}, UploadRole(u, c, g)
      PROVE  ScopeInv'
  <2>1. u \in Ids
    BY DEF Present
  <2>2. roles[u] \cup {Row(c, NULL, g)} \in SUBSET RoleRow
    BY <2>1, UploadedRowIsRow DEF ScopeInv, RolesOK
  <2>3. Scoped(Row(c, NULL, g))
    BY <1>9, WrittenRowsAreScoped DEF UploadRole, UploadAccepts, UploadedCodes, RoleCodes
  <2>4. \A r \in roles[u] \cup {Row(c, NULL, g)} : Scoped(r)
    BY <2>1, <2>3 DEF ScopeInv
  <2>5. QED
    BY <1>2, <1>9, <2>1, <2>2, <2>4 DEF UploadRole, SetRoles
<1>10. ASSUME NEW e \in BootstrapAdmins, Bootstrap(e)
       PROVE  ScopeInv'
  <2> DEFINE super == Row("SUPER_ADMIN", NULL, NULL)
  <2>1. PICK u \in IF ByEmail(e) # {} THEN ByEmail(e) ELSE Fresh :
            roles' = [roles EXCEPT ![u] = roles[u] \cup {super}]
    BY <1>10 DEF Bootstrap
  <2>2. u \in Ids
    BY DEF ByEmail, Fresh, Present
  <2>3. /\ roles[u] \cup {super} \in SUBSET RoleRow
        /\ \A r \in roles[u] \cup {super} : Scoped(r)
    BY <2>2, SuperAdminCode, WrittenRowsAreScoped DEF ScopeInv, RolesOK
  <2>4. QED
    BY <1>2, <2>1, <2>2, <2>3
<1>11. ASSUME NEW g \in Groups, ToggleGroup(g)
       PROVE  ScopeInv'
  BY <1>1, <1>11 DEF ToggleGroup, people
<1>12. ASSUME NEW w \in WorkTypes, ToggleType(w)
       PROVE  ScopeInv'
  BY <1>1, <1>12 DEF ToggleType, people
<1>13. CASE UNCHANGED vars
  BY <1>1, <1>13 DEF vars, people
<1>14. QED
  BY <1>4, <1>5, <1>6, <1>7, <1>8, <1>9, <1>10, <1>11, <1>12, <1>13 DEF Next

\* No role row has two scopes, and no approver row is without a group, so the
\* readers that ask for a scope that is not NULL drop no approver
\* (_update_user_roles, user_roles_upload, ensure_bootstrap_admins).
THEOREM RolesAreAlwaysScoped == Spec => []RolesAreScoped
<1>1. Init => ScopeInv
  BY DEF Init, ScopeInv, RolesOK
<1>2. ScopeInv => RolesAreScoped
  BY DEF ScopeInv, RolesAreScoped, Scoped
<1>3. QED
  BY <1>1, <1>2, ScopeIsKept, PTL DEF Spec

-----------------------------------------------------------------------------
(* The link to the provider.                                               *)

AccountOK == account \in [Ids -> Account \cup {NULL}]

\* What a step may do to an account that is there.
KeepsLinks ==
    \A u \in Present :
        account[u].subject # NULL =>
            account'[u] # NULL /\ account'[u].subject = account[u].subject

LEMMA PresentIsAccount ==
    ASSUME AccountOK, NEW u \in Present
    PROVE  u \in Ids /\ account[u] \in Account
BY DEF AccountOK, Present

LEMMA NullIsNoAccount == NULL \notin Account
BY AccountsAssumption

\* A new account takes the place of none.
LEMMA NewAccountKeepsLinks ==
    ASSUME AccountOK, NEW u \in Ids \ Present, NEW e \in Emails,
           NEW s \in Subjects \cup {NULL}, NEW active \in BOOLEAN,
           account' = [account EXCEPT ![u] = NewAccount(e, s, active)]
    PROVE  AccountOK' /\ KeepsLinks
<1>1. NewAccount(e, s, active) \in Account
  BY DEF NewAccount, Account
<1>2. AccountOK'
  BY <1>1 DEF AccountOK
<1>3. \A v \in Present : account'[v] = account[v]
  BY DEF AccountOK, Present
<1>4. QED
  BY <1>2, <1>3 DEF KeepsLinks, Present

\* A write that leaves the subject of u alone, if it has one.
LEMMA RewrittenAccountKeepsLinks ==
    ASSUME AccountOK, NEW u \in Present, NEW a \in Account,
           account[u].subject # NULL => a.subject = account[u].subject,
           account' = [account EXCEPT ![u] = a]
    PROVE  AccountOK' /\ KeepsLinks
<1>1. u \in Ids
  BY PresentIsAccount
<1>2. AccountOK'
  BY <1>1 DEF AccountOK
<1>3. \A v \in Present : account'[v] = IF v = u THEN a ELSE account[v]
  BY <1>1 DEF AccountOK, Present
<1>4. a # NULL
  BY NullIsNoAccount
<1>5. QED
  BY <1>2, <1>3, <1>4 DEF KeepsLinks, Present

LEMMA SignedInKeepsSubject ==
    ASSUME AccountOK, NEW u \in Present, NEW e \in Emails, NEW s \in Subjects
    PROVE  /\ SignedIn(u, e, s) \in Account
           /\ account[u].subject # NULL =>
                  SignedIn(u, e, s).subject = account[u].subject
<1>1. account[u] \in Account
  BY PresentIsAccount
<1>2. /\ Backfilled(u, e, s) \in Account
      /\ account[u].subject # NULL =>
             Backfilled(u, e, s).subject = account[u].subject
  BY <1>1 DEF Backfilled, Account
<1>3. QED
  BY <1>2 DEF SignedIn, Account

LEMMA StepKeepsLinks == AccountOK /\ [Next]_vars => AccountOK' /\ KeepsLinks
<1> SUFFICES ASSUME AccountOK, [Next]_vars PROVE AccountOK' /\ KeepsLinks
  OBVIOUS
<1> USE DEF Present
<1>1. CASE UNCHANGED account
  BY <1>1 DEF AccountOK, KeepsLinks
<1>2. Fresh \subseteq Ids \ Present
  BY DEF Fresh
<1>3. ASSUME NEW e \in Emails, NEW s \in Subjects, SignIn(e, s)
      PROVE  AccountOK' /\ KeepsLinks
  <2>1. PICK u \in Found(e, s) : account' = [account EXCEPT ![u] = SignedIn(u, e, s)]
    BY <1>3 DEF SignIn
  <2>2. u \in Present
    BY DEF Found, BySubject, ByEmail
  <2>3. QED
    BY <2>1, <2>2, SignedInKeepsSubject, RewrittenAccountKeepsLinks
<1>4. ASSUME NEW e \in Emails, NEW s \in Subjects, FirstSignIn(e, s)
      PROVE  AccountOK' /\ KeepsLinks
  BY <1>2, <1>4, NewAccountKeepsLinks DEF FirstSignIn
<1>5. ASSUME NEW e \in Emails, NEW active \in BOOLEAN, CreateUser(e, active)
      PROVE  AccountOK' /\ KeepsLinks
  BY <1>2, <1>5, NewAccountKeepsLinks DEF CreateUser
<1>6. ASSUME NEW e \in Emails, NEW active \in BOOLEAN, NEW u \in Present,
             UpdateUser(u, e, active)
      PROVE  AccountOK' /\ KeepsLinks
  <2>1. account[u] \in Account
    BY PresentIsAccount
  <2> DEFINE a == [account[u] EXCEPT !.email = e, !.active = active]
  <2>2. a \in Account /\ a.subject = account[u].subject
    BY <2>1 DEF Account
  <2>3. account' = [account EXCEPT ![u] = a]
    BY <1>6 DEF UpdateUser
  <2>4. QED
    BY <2>2, <2>3, RewrittenAccountKeepsLinks
<1>7. ASSUME NEW u \in Present, ToggleUser(u)
      PROVE  AccountOK' /\ KeepsLinks
  <2>1. account[u] \in Account
    BY PresentIsAccount
  <2> DEFINE a == [account[u] EXCEPT !.active = ~account[u].active]
  <2>2. a \in Account /\ a.subject = account[u].subject
    BY <2>1 DEF Account
  <2>3. account' = [account EXCEPT ![u] = a]
    BY <1>7 DEF ToggleUser
  <2>4. QED
    BY <2>2, <2>3, RewrittenAccountKeepsLinks
<1>8. ASSUME NEW e \in Emails, UploadUser(e)
      PROVE  AccountOK' /\ KeepsLinks
  <2> DEFINE known == IF ByEmail(e) # {} THEN ByEmail(e) ELSE Present \cap {LocalId[e]}
  <2>1. known \subseteq Present
    BY DEF ByEmail
  <2>2. CASE known = {}
    <3>1. LocalId[e] \in Ids \ Present
      BY <2>2, AccountsAssumption
    <3>2. QED
      BY <1>8, <2>2, <3>1, NewAccountKeepsLinks DEF UploadUser
  <2>3. CASE known # {}
    <3>1. account' = [u \in Ids |-> IF u \in known
                                    THEN [account[u] EXCEPT !.email = e]
                                    ELSE account[u]]
      BY <1>8, <2>3 DEF UploadUser
    <3>2. ASSUME NEW u \in known
          PROVE  /\ [account[u] EXCEPT !.email = e] \in Account
                 /\ [account[u] EXCEPT !.email = e].subject = account[u].subject
      BY <2>1, PresentIsAccount DEF Account
    <3>3. AccountOK'
      BY <3>1, <3>2 DEF AccountOK
    <3>4. ASSUME NEW u \in Present
          PROVE  account'[u] # NULL /\ account'[u].subject = account[u].subject
      BY <3>1, <3>2, NullIsNoAccount
    <3>5. QED
      BY <3>3, <3>4 DEF KeepsLinks
  <2>4. QED
    BY <2>2, <2>3
<1>9. ASSUME NEW u \in Present \cap Managed, NEW c \in UploadedCodes,
             NEW g \in Groups \cup {NULL}, UploadRole(u, c, g)
      PROVE  AccountOK' /\ KeepsLinks
  BY <1>1, <1>9 DEF UploadRole
<1>10. ASSUME NEW e \in BootstrapAdmins, Bootstrap(e)
       PROVE  AccountOK' /\ KeepsLinks
  <2>1. PICK u \in IF ByEmail(e) # {} THEN ByEmail(e) ELSE Fresh :
            account' = IF account[u] = NULL
                       THEN [account EXCEPT ![u] = NewAccount(e, NULL, TRUE)]
                       ELSE account
    BY <1>10 DEF Bootstrap
  <2>2. u \in Ids /\ e \in Emails
    BY AccountsAssumption DEF ByEmail, Fresh
  <2>3. CASE account[u] = NULL
    BY <2>1, <2>2, <2>3, NewAccountKeepsLinks
  <2>4. CASE account[u] # NULL
    BY <1>1, <2>1, <2>4
  <2>5. QED
    BY <2>3, <2>4
<1>11. CASE \/ \E g \in Groups : ToggleGroup(g)
            \/ \E w \in WorkTypes : ToggleType(w)
            \/ UNCHANGED vars
  BY <1>1, <1>11 DEF ToggleGroup, ToggleType, people, vars
<1>12. QED
  BY <1>3, <1>4, <1>5, <1>6, <1>7, <1>8, <1>9, <1>10, <1>11 DEF Next

\* No form, upload, bootstrap or sign-in moves an account from the provider
\* subject it is linked to (_complete_login backfills a missing subject only).
THEOREM LinksArePermanent == Spec => LinkIsPermanent
<1>1. Init => AccountOK
  BY DEF Init, AccountOK
<1>2. AccountOK /\ [Next]_vars =>
          [\A u \in Present :
              account[u].subject # NULL =>
                  account'[u] # NULL /\ account'[u].subject = account[u].subject]_vars
  BY StepKeepsLinks DEF KeepsLinks
<1>3. QED
  BY <1>1, <1>2, StepKeepsLinks, PTL DEF Spec, LinkIsPermanent

-----------------------------------------------------------------------------
(* No two accounts for one person.                                         *)

\* What the unique columns tell apart.
Distinct(a, b) == a.email # b.email /\ a.subject \notin {b.subject} \ {NULL}

Told == AccountOK /\ \A u, v \in Present : u = v \/ Distinct(account[u], account[v])

\* A write to one account that gives it an e-mail and a subject no other has.
LEMMA WriteKeepsTold ==
    ASSUME Told, NEW u \in Ids, NEW a \in Account,
           ByEmail(a.email) \subseteq {u},
           a.subject = NULL \/ BySubject(a.subject) \subseteq {u},
           account' = [account EXCEPT ![u] = a]
    PROVE  Told'
<1>1. AccountOK'
  BY DEF Told, AccountOK
<1>2. \A v \in Ids : account'[v] = IF v = u THEN a ELSE account[v]
  BY DEF Told, AccountOK
<1>3. ASSUME NEW v \in Present, v # u
      PROVE  Distinct(a, account[v]) /\ Distinct(account[v], a)
  BY <1>3 DEF Distinct, ByEmail, BySubject
<1>4. ASSUME NEW v \in Present', NEW w \in Present', v # w
      PROVE  Distinct(account'[v], account'[w])
  <2>1. /\ v \in Ids /\ w \in Ids
        /\ v # u => v \in Present
        /\ w # u => w \in Present
    BY <1>2 DEF Present
  <2>2. v # u /\ w # u => Distinct(account[v], account[w])
    BY <1>4, <2>1 DEF Told
  <2>3. QED
    BY <1>2, <1>3, <1>4, <2>1, <2>2
<1>5. QED
  BY <1>1, <1>4 DEF Told, Distinct

LEMMA NewAccountKeepsTold ==
    ASSUME Told, NEW u \in Ids, NEW e \in Emails, NEW s \in Subjects \cup {NULL},
           NEW active \in BOOLEAN, ByEmail(e) = {}, s = NULL \/ BySubject(s) = {},
           account' = [account EXCEPT ![u] = NewAccount(e, s, active)]
    PROVE  Told'
<1> DEFINE a == NewAccount(e, s, active)
<1>1. a \in Account /\ a.email = e /\ a.subject = s
  BY DEF NewAccount, Account
<1> HIDE DEF a
<1>2. account' = [account EXCEPT ![u] = a]
  BY DEF a
<1>3. ByEmail(a.email) \subseteq {u} /\ (a.subject = NULL \/ BySubject(a.subject) \subseteq {u})
  BY <1>1
<1>4. QED
  BY <1>1, <1>2, <1>3, WriteKeepsTold

\* An account's own subject is no other's.
LEMMA OwnSubject ==
    ASSUME Told, NEW u \in Present
    PROVE  account[u].subject = NULL \/ BySubject(account[u].subject) \subseteq {u}
BY DEF Told, Distinct, BySubject

LEMMA StepKeepsTold == Told /\ [Next]_vars => Told'
<1> SUFFICES ASSUME Told, [Next]_vars PROVE Told'
  OBVIOUS
<1>0. AccountOK
  BY DEF Told
<1>1. CASE UNCHANGED account
  BY <1>1 DEF Told, AccountOK, Present, Distinct
<1>2. Fresh \subseteq Ids /\ Present \subseteq Ids
  BY DEF Fresh, Present
<1>3. ASSUME NEW e \in Emails, NEW s \in Subjects, SignIn(e, s)
      PROVE  Told'
  <2>1. PICK u \in Found(e, s) :
            /\ ByEmail(SignedIn(u, e, s).email) \subseteq {u}
            /\ account' = [account EXCEPT ![u] = SignedIn(u, e, s)]
    BY <1>3 DEF SignIn
  <2>2. u \in Present /\ u \in Ids
    BY <1>2 DEF Found, BySubject, ByEmail
  <2>3. /\ SignedIn(u, e, s) \in Account
        /\ account[u].subject # NULL => SignedIn(u, e, s).subject = account[u].subject
    BY <1>0, <2>2, SignedInKeepsSubject
  <2>4. account[u].subject = NULL => SignedIn(u, e, s).subject = s
    <3>1. account[u] \in Account
      BY <1>0, <2>2, PresentIsAccount
    <3>2. account[u].subject = NULL =>
              Backfilled(u, e, s) \in Account /\ Backfilled(u, e, s).subject = s
      BY <3>1 DEF Backfilled, Account
    <3>3. QED
      BY <3>2 DEF SignedIn, Account
  \* A subject found on an account is not NULL, so only a new one is linked.
  <2>5. account[u].subject = NULL => BySubject(s) = {}
    <3>1. s # NULL
      BY AccountsAssumption
    <3>2. QED
      BY <2>1, <3>1 DEF Found, BySubject
  <2>6. \/ SignedIn(u, e, s).subject = NULL
        \/ BySubject(SignedIn(u, e, s).subject) \subseteq {u}
    BY <2>2, <2>3, <2>4, <2>5, OwnSubject
  <2>7. QED
    BY <2>1, <2>2, <2>3, <2>6, WriteKeepsTold
<1>4. ASSUME NEW e \in Emails, NEW s \in Subjects, FirstSignIn(e, s)
      PROVE  Told'
  <2>1. ByEmail(e) = {} /\ BySubject(s) = {}
    BY <1>4 DEF FirstSignIn, Found
  <2>2. QED
    BY <1>2, <1>4, <2>1, NewAccountKeepsTold DEF FirstSignIn
<1>5. ASSUME NEW e \in Emails, NEW active \in BOOLEAN, CreateUser(e, active)
      PROVE  Told'
  BY <1>2, <1>5, NewAccountKeepsTold DEF CreateUser
<1>6. ASSUME NEW e \in Emails, NEW active \in BOOLEAN, NEW u \in Present,
             UpdateUser(u, e, active)
      PROVE  Told'
  <2>1. account[u] \in Account /\ u \in Ids
    BY <1>0, PresentIsAccount
  <2> DEFINE a == [account[u] EXCEPT !.email = e, !.active = active]
  <2>2. a \in Account /\ a.subject = account[u].subject /\ a.email = e
    BY <2>1 DEF Account
  <2>3. account' = [account EXCEPT ![u] = a] /\ ByEmail(e) \subseteq {u}
    BY <1>6 DEF UpdateUser
  <2> HIDE DEF a
  <2>4. QED
    BY <2>1, <2>2, <2>3, OwnSubject, WriteKeepsTold
<1>7. ASSUME NEW u \in Present, ToggleUser(u)
      PROVE  Told'
  <2>1. account[u] \in Account /\ u \in Ids
    BY <1>0, PresentIsAccount
  <2> DEFINE a == [account[u] EXCEPT !.active = ~account[u].active]
  <2>2. a \in Account /\ a.subject = account[u].subject /\ a.email = account[u].email
    BY <2>1 DEF Account
  <2>3. account' = [account EXCEPT ![u] = a]
    BY <1>7 DEF ToggleUser
  <2>4. ByEmail(account[u].email) \subseteq {u}
    BY DEF Told, Distinct, ByEmail
  <2> HIDE DEF a
  <2>5. QED
    BY <2>1, <2>2, <2>3, <2>4, OwnSubject, WriteKeepsTold
<1>8. ASSUME NEW e \in Emails, UploadUser(e)
      PROVE  Told'
  <2> DEFINE known == IF ByEmail(e) # {} THEN ByEmail(e) ELSE Present \cap {LocalId[e]}
             written == [u \in Ids |-> IF u \in known
                                       THEN [account[u] EXCEPT !.email = e]
                                       ELSE account[u]]
  <2>1. account' = IF known = {}
                   THEN [account EXCEPT ![LocalId[e]] = NewAccount(e, NULL, TRUE)]
                   ELSE written
    BY <1>8 DEF UploadUser
  <2>2. CASE known = {}
    <3>1. ByEmail(e) = {} /\ LocalId[e] \in Ids
      BY <2>2, AccountsAssumption
    <3>2. QED
      BY <2>1, <2>2, <3>1, NewAccountKeepsTold
  <2>3. CASE known # {}
    <3>1. PICK u \in Present : known = {u}
      BY <2>3 DEF ByEmail, Told, Distinct
    <3>2. account[u] \in Account /\ u \in Ids
      BY <1>0, PresentIsAccount
    <3> DEFINE a == [account[u] EXCEPT !.email = e]
    <3>3. a \in Account /\ a.subject = account[u].subject /\ a.email = e
      BY <3>2 DEF Account
    <3>4. account' = [account EXCEPT ![u] = a]
      BY <2>1, <2>3, <3>1, <3>2 DEF Told, AccountOK
    <3>5. ByEmail(e) \subseteq {u}
      BY <3>1
    <3> HIDE DEF a, known, written
    <3>6. QED
      BY <3>2, <3>3, <3>4, <3>5, OwnSubject, WriteKeepsTold
  <2>4. QED
    BY <2>2, <2>3
<1>9. ASSUME NEW u \in Present \cap Managed, NEW c \in UploadedCodes,
             NEW g \in Groups \cup {NULL}, UploadRole(u, c, g)
      PROVE  Told'
  BY <1>1, <1>9 DEF UploadRole
<1>10. ASSUME NEW e \in BootstrapAdmins, Bootstrap(e)
       PROVE  Told'
  <2>1. PICK u \in IF ByEmail(e) # {} THEN ByEmail(e) ELSE Fresh :
            account' = IF account[u] = NULL
                       THEN [account EXCEPT ![u] = NewAccount(e, NULL, TRUE)]
                       ELSE account
    BY <1>10 DEF Bootstrap
  <2>2. u \in Ids /\ e \in Emails
    BY AccountsAssumption DEF ByEmail, Fresh, Present
  <2>3. CASE account[u] = NULL
    <3>1. ByEmail(e) = {}
      BY <2>1, <2>3 DEF ByEmail, Present
    <3>2. QED
      BY <2>1, <2>2, <2>3, <3>1, NewAccountKeepsTold
  <2>4. CASE account[u] # NULL
    BY <1>1, <2>1, <2>4
  <2>5. QED
    BY <2>3, <2>4
<1>11. CASE \/ \E g \in Groups : ToggleGroup(g)
            \/ \E w \in WorkTypes : ToggleType(w)
            \/ UNCHANGED vars
  BY <1>1, <1>11 DEF ToggleGroup, ToggleType, people, vars
<1>12. QED
  BY <1>3, <1>4, <1>5, <1>6, <1>7, <1>8, <1>9, <1>10, <1>11 DEF Next

LEMMA ScopesActive ==
    ASSUME [Next]_vars, typeActive \in [WorkTypes -> BOOLEAN],
           groupActive \in [Groups -> BOOLEAN]
    PROVE  typeActive' \in [WorkTypes -> BOOLEAN] /\ groupActive' \in [Groups -> BOOLEAN]
BY DEF Next, SignIn, FirstSignIn, CreateUser, UpdateUser, ToggleUser, UploadUser,
       UploadRole, Bootstrap, ToggleGroup, ToggleType, vars

\* The accounts, rows and entries are well formed, and no two accounts share an
\* e-mail or a provider subject, whichever of the four hands wrote them.
THEOREM AccountsAreTyped == Spec => []TypeOK
<1> DEFINE Scopes2 == typeActive \in [WorkTypes -> BOOLEAN] /\ groupActive \in [Groups -> BOOLEAN]
           All == Inv /\ Told /\ Scopes2
<1>1. Init => All
  BY DEF Init, Inv, RolesOK, TrailOK, TrailReplays, Codes, Told, AccountOK, Present
<1>2. All /\ [Next]_vars => All'
  BY InvIsKept, StepKeepsTold, ScopesActive
<1>3. All => TypeOK
  BY DEF Inv, RolesOK, TrailOK, Told, AccountOK, Distinct, TypeOK
<1>4. QED
  BY <1>1, <1>2, <1>3, PTL DEF Spec

-----------------------------------------------------------------------------
(* What the readers make of the rows.                                      *)

LEMMA RoleFreeOverride == \A u : Override(u, NULL) = NULL
BY DEF Override

\* Menus, queues and decisions agree in every state, for every user and
\* override (inject_active_user, get_reviewable_groups, is_reviewer_for_line).
THEOREM MenusAlwaysOpenPages == Spec => []MenusOpenPages
<1>1. MenusOpenPages
  <2> SUFFICES ASSUME NEW u \in Ids, NEW o \in Overrides
               PROVE  /\ MenuGroups(u, o) \subseteq ReviewableGroups(u, o)
                      /\ \A w \in MenuTypes(u, o) : IsWorktypeAdmin(u, o, w)
                      /\ \A w \in MenuTypes(u, o) \cup MenuViews(u) :
                            /\ ListsRequests(u, o, w)
                            /\ StaffGroups(u, o, w) = {g \in ActiveGroups : TypeOf[g] = w}
                      /\ \A g \in ActiveGroups :
                            IsReviewer(u, o, g) => g \in ReviewableGroups(u, o)
    BY DEF MenusOpenPages
  <2>1. MenuGroups(u, o) \subseteq ReviewableGroups(u, o)
    BY DEF MenuGroups, ReviewableGroups
  <2>2. \A w \in MenuTypes(u, o) : IsWorktypeAdmin(u, o, w)
    BY DEF MenuTypes, IsWorktypeAdmin
  <2>3. \A w \in MenuTypes(u, o) \cup MenuViews(u) :
            \/ IsSuperAdmin(u, o)
            \/ w \in Scopes(u, "WORKTYPE_ADMIN") \cup Scopes(u, "WORKTYPE_VIEWER")
    BY DEF MenuTypes, MenuViews
  <2>4. ASSUME NEW w \in MenuTypes(u, o) \cup MenuViews(u)
        PROVE  /\ ListsRequests(u, o, w)
               /\ StaffGroups(u, o, w) = {g \in ActiveGroups : TypeOf[g] = w}
    <3>1. ListsRequests(u, o, w)
      BY <2>2 DEF ListsRequests
    <3>2. QED
      BY <2>3, <3>1 DEF StaffGroups, ReviewableGroups
  <2>5. ASSUME NEW g \in ActiveGroups, IsReviewer(u, o, g)
        PROVE  g \in ReviewableGroups(u, o)
    BY <2>5 DEF IsReviewer, IsWorktypeAdmin, ReviewableGroups
  <2>6. QED
    BY <2>1, <2>2, <2>4, <2>5
<1>2. QED
  BY <1>1, PTL

\* Whoever is written to about a request is the one account with the e-mail.
LEMMA OneAccountPerEmail ==
    ASSUME TypeOK, NEW u \in Present, NEW v \in Present, account[u].email = account[v].email
    PROVE  u = v
BY DEF TypeOK

LEMMA ApproversCanAct ==
    ASSUME TypeOK, NEW g \in Groups,
           NEW e \in SubmitRecipients(TypeOf[g], FALSE, {g}), NEW u \in ByEmail(e)
    PROVE  IsReviewer(u, NULL, g)
<1>1. PICK v \in Present :
          /\ e = account[v].email
          /\ \E r \in roles[v] : r.code = "APPROVER" /\ r.group = g
  BY DEF SubmitRecipients, ApproverEmails
<1>2. u = v
  BY <1>1, OneAccountPerEmail DEF ByEmail
<1>3. PICK r \in roles[u] : r.code = "APPROVER" /\ r.group = g
  BY <1>1, <1>2
<1>4. g # NULL
  BY AccountsAssumption
<1>5. g \in ApprovalGroupIds(u, NULL)
  BY <1>3, <1>4, RoleFreeOverride, AccountsAssumption DEF ApprovalGroupIds
<1>6. QED
  BY <1>5 DEF IsReviewer

LEMMA DispatchersAreTold ==
    ASSUME TypeOK, NEW w \in WorkTypes, NEW u \in Present
    PROVE  LET told == account[u].email \in SubmitRecipients(w, TRUE, {})
           IN  /\ account[u].active /\ IsWorktypeAdmin(u, NULL, w) => told
               /\ told => \/ IsWorktypeAdmin(u, NULL, w)
                          \/ \E r \in roles[u] : r.code = "WORKTYPE_ADMIN" /\ r.type = NULL
<1> DEFINE told == account[u].email \in SubmitRecipients(w, TRUE, {})
           admin(v) == \/ Holds(v, "SUPER_ADMIN")
                       \/ \E r \in roles[v] : r.code = "WORKTYPE_ADMIN" /\ r.type \in {w, NULL}
<1>1. told <=> \E v \in Present : account[v].email = account[u].email
                                    /\ account[v].active /\ admin(v)
  BY DEF SubmitRecipients, AdminEmails
<1>2. told <=> account[u].active /\ admin(u)
  BY <1>1, OneAccountPerEmail
<1>3. w # NULL
  BY AccountsAssumption
<1>4. IsWorktypeAdmin(u, NULL, w) <=>
          \/ Holds(u, "SUPER_ADMIN")
          \/ \E r \in roles[u] : r.code = "WORKTYPE_ADMIN" /\ r.type = w
  BY <1>3, RoleFreeOverride DEF IsWorktypeAdmin, IsSuperAdmin, Scopes
<1>5. QED
  BY <1>2, <1>4

\* A request that is submitted is mailed to accounts that can act on it, and to
\* every active one that may dispatch it (_get_submit_recipients).
THEOREM MailAlwaysReachesWhoCanAct == Spec => []MailReachesWhoCanAct
<1>1. TypeOK => MailReachesWhoCanAct
  BY ApproversCanAct, DispatchersAreTold DEF MailReachesWhoCanAct
<1>2. QED
  BY <1>1, AccountsAreTyped, PTL
=============================================================================
