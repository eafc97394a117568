------------------------- MODULE BudgetReviewProofs -------------------------
(***************************************************************************)
(* Proofs about BudgetReview, and about what BudgetReports says of it, for *)
(* any lines, users, groups and amounts.  First what each operation of     *)
(* BudgetLine leaves on a line, and why, run behind its guard, it keeps    *)
(* LineInv; then, action by action, that nothing else disturbs the         *)
(* invariant of the request.  Then how a column adds up over a set of      *)
(* lines: the library's induction theorems take an operator, so that the   *)
(* induction is over sets of sets.                                         *)
(***************************************************************************)
EXTENDS BudgetReports, FiniteSetTheorems, WellFoundedInduction, TLAPS

-----------------------------------------------------------------------------
(***************************************************************************)
(* What an operation leaves on a line: a record, and the columns the       *)
(* invariant is about.                                                     *)
(***************************************************************************)

\* A draft line is a line record.
LEMMA DraftLineTyped ==
    ASSUME NEW q \in Amounts, NEW g \in Groups \cup {NULL}
    PROVE  DraftLine(q, g) \in LineRecord
BY SMT DEF DraftLine, LineRecord, ReviewStatus, AdminStatus

\* So is a line that takes a review's status.
LEMMA SyncTyped ==
    ASSUME NEW r \in LineRecord, NEW v \in ReviewStatus
    PROVE  /\ SyncLineStatus(r, v) \in LineRecord
           /\ SyncLineStatus(r, v).status = v
           /\ SyncLineStatus(r, v).needsAction = (v \in Kickbacks)
           /\ SyncLineStatus(r, v).ag = r.ag
           /\ SyncLineStatus(r, v).admin = r.admin
           /\ SyncLineStatus(r, v).amount = r.amount
           /\ SyncLineStatus(r, v).group = r.group
           /\ SyncLineStatus(r, v).stage = r.stage
           /\ SyncLineStatus(r, v).adminAmount = r.adminAmount
<1>1. ASSUME NEW b \in BOOLEAN
      PROVE  [r EXCEPT !.status = v, !.needsAction = b] \in LineRecord
  BY Zenon DEF LineRecord
<1>2. (v \in Kickbacks) \in BOOLEAN
  OBVIOUS
<1>3. SyncLineStatus(r, v) \in LineRecord
  BY <1>1, <1>2 DEF SyncLineStatus
<1>4. SyncLineStatus(r, v).needsAction = (v \in Kickbacks)
  BY SMT DEF SyncLineStatus, LineRecord
<1>5. /\ SyncLineStatus(r, v).status = v
      /\ SyncLineStatus(r, v).ag = r.ag
      /\ SyncLineStatus(r, v).admin = r.admin
      /\ SyncLineStatus(r, v).amount = r.amount
      /\ SyncLineStatus(r, v).group = r.group
      /\ SyncLineStatus(r, v).stage = r.stage
      /\ SyncLineStatus(r, v).adminAmount = r.adminAmount
  BY SMT DEF SyncLineStatus, LineRecord
<1> QED BY <1>3, <1>4, <1>5

\* What a group decision leaves on the line.
LEMMA GroupDecisionTyped ==
    ASSUME NEW r \in LineRecord,
           NEW a \in GroupActions, NEW amt \in Amounts \cup {NULL}
    PROVE  LET w == GroupDecision(r, a, amt) IN
           /\ w \in LineRecord
           /\ w.status = GroupVerdict[a] /\ w.ag = GroupVerdict[a]
           /\ w.needsAction = (GroupVerdict[a] \in Kickbacks)
           /\ w.admin = r.admin /\ w.amount = r.amount
           /\ w.group = r.group /\ w.stage = r.stage
           /\ w.adminAmount = r.adminAmount
<1> DEFINE v == GroupVerdict[a]
           keeps == a \notin {"APPROVE", "APPROVE_NEEDS_REVIEW"} \/ amt = NULL
           x == IF keeps THEN r.agAmount ELSE amt
           u == [r EXCEPT !.ag = v, !.agAmount = x]
<1>1. v \in ReviewStatus
  BY DEF GroupVerdict, GroupActions, ReviewStatus, Kickbacks, GroupTerminal
<1>2. x \in Amounts \cup {NULL}
  BY DEF LineRecord
<1>3. ASSUME NEW y \in Amounts \cup {NULL}, NEW z \in ReviewStatus
      PROVE  [r EXCEPT !.ag = z, !.agAmount = y] \in LineRecord
  BY Zenon DEF LineRecord
<1>4. u \in LineRecord
  BY <1>1, <1>2, <1>3
<1>5. /\ u.ag = v /\ u.admin = r.admin /\ u.amount = r.amount
      /\ u.group = r.group /\ u.stage = r.stage /\ u.adminAmount = r.adminAmount
  BY SMT DEF LineRecord
<1>6. GroupDecision(r, a, amt) = SyncLineStatus(u, v)
  BY DEF GroupDecision
<1> HIDE DEF u, v
<1> QED BY <1>1, <1>4, <1>5, <1>6, SyncTyped DEF v

\* What a response leaves on the line.
LEMMA ResponseTyped ==
    ASSUME NEW r \in LineRecord
    PROVE  LET w == Response(r) IN
           /\ w \in LineRecord
           /\ w.status = "PENDING" /\ w.needsAction = FALSE
           /\ w.admin \in {r.admin, "PENDING"} /\ w.amount = r.amount
           /\ w.ag \in {r.ag, "PENDING"} /\ w.adminAmount = r.adminAmount
           /\ w.group = r.group /\ w.stage = r.stage
<1>0. "PENDING" \in ReviewStatus /\ "PENDING" \notin Kickbacks
  BY DEF ReviewStatus, Kickbacks
<1>1. ASSUME NEW u \in LineRecord
      PROVE  /\ SyncLineStatus(u, "PENDING") \in LineRecord
             /\ SyncLineStatus(u, "PENDING").status = "PENDING"
             /\ SyncLineStatus(u, "PENDING").ag = u.ag
             /\ SyncLineStatus(u, "PENDING").admin = u.admin
             /\ SyncLineStatus(u, "PENDING").amount = u.amount
             /\ SyncLineStatus(u, "PENDING").group = u.group
             /\ SyncLineStatus(u, "PENDING").stage = u.stage
             /\ SyncLineStatus(u, "PENDING").adminAmount = u.adminAmount
  BY <1>0, SyncTyped
<1>n. ASSUME NEW u \in LineRecord
      PROVE  SyncLineStatus(u, "PENDING").needsAction = FALSE
  <2>1. ("PENDING" \in Kickbacks) = FALSE
    BY <1>0
  <2> QED BY <1>0, <2>1, SyncTyped, Zenon
<1>2. CASE KickbackStage(r) = "ADMIN_FINAL"
  <2> DEFINE u == [r EXCEPT !.admin = "PENDING"]
  <2>1. u \in LineRecord
    BY SMT DEF LineRecord, AdminStatus
  <2>2. /\ u.admin = "PENDING" /\ u.ag = r.ag /\ u.amount = r.amount
        /\ u.group = r.group /\ u.stage = r.stage /\ u.adminAmount = r.adminAmount
    BY SMT DEF LineRecord
  <2>3. Response(r) = SyncLineStatus(u, "PENDING")
    BY <1>2 DEF Response
  <2> HIDE DEF u
  <2>4. Response(r).needsAction = FALSE
    BY <2>1, <2>3, <1>n, Zenon
  <2>5. /\ Response(r).status = "PENDING" /\ Response(r).amount = r.amount
        /\ Response(r).ag = u.ag /\ Response(r).admin = u.admin
        /\ Response(r).adminAmount = r.adminAmount
        /\ Response(r).group = r.group /\ Response(r).stage = r.stage
    BY <2>1, <2>2, <2>3, <1>1
  <2>6. Response(r) \in LineRecord
    BY <2>1, <2>3, <1>1, Zenon
  <2> QED BY <2>2, <2>4, <2>5, <2>6, Zenon
<1>3. CASE KickbackStage(r) # "ADMIN_FINAL"
  <2> DEFINE u == [r EXCEPT !.ag = "PENDING"]
  <2>1. u \in LineRecord
    BY SMT DEF LineRecord, ReviewStatus
  <2>2. /\ u.ag = "PENDING" /\ u.admin = r.admin /\ u.amount = r.amount
        /\ u.group = r.group /\ u.stage = r.stage /\ u.adminAmount = r.adminAmount
    BY SMT DEF LineRecord
  <2>3. Response(r) = SyncLineStatus(u, "PENDING")
    BY <1>3 DEF Response
  <2> HIDE DEF u
  <2>4. Response(r).needsAction = FALSE
    BY <2>1, <2>3, <1>n, Zenon
  <2>5. /\ Response(r).status = "PENDING" /\ Response(r).amount = r.amount
        /\ Response(r).ag = u.ag /\ Response(r).admin = u.admin
        /\ Response(r).adminAmount = r.adminAmount
        /\ Response(r).group = r.group /\ Response(r).stage = r.stage
    BY <2>1, <2>2, <2>3, <1>1
  <2>6. Response(r) \in LineRecord
    BY <2>1, <2>3, <1>1, Zenon
  <2> QED BY <2>2, <2>4, <2>5, <2>6, Zenon
<1> QED BY <1>2, <1>3

\* A line whose quantity or price changed is that line in every other column.
LEMMA RepricedTyped ==
    ASSUME NEW r \in LineRecord, NEW q \in Amounts
    PROVE  LET u == [r EXCEPT !.requested = q] IN
           /\ u \in LineRecord
           /\ u.status = r.status /\ u.needsAction = r.needsAction
           /\ u.amount = r.amount /\ u.adminAmount = r.adminAmount
           /\ u.admin = r.admin /\ u.ag = r.ag
           /\ u.group = r.group /\ u.stage = r.stage
BY SMT DEF LineRecord

\* What a dispatch form leaves on a line.
LEMMA RegroupedTyped ==
    ASSUME NEW r \in LineRecord, NEW g \in Groups
    PROVE  LET u == [r EXCEPT !.group = g] IN
           /\ u \in LineRecord
           /\ u.status = r.status /\ u.needsAction = r.needsAction
           /\ u.amount = r.amount /\ u.adminAmount = r.adminAmount
           /\ u.admin = r.admin /\ u.ag = r.ag /\ u.agAmount = r.agAmount
           /\ u.group = g /\ u.stage = r.stage
BY SMT DEF LineRecord

-----------------------------------------------------------------------------
\* What a reset leaves on the line.
LEMMA ResetTyped ==
    ASSUME NEW r \in LineRecord
    PROVE  LET w == ResetLine(r) IN
           /\ w \in LineRecord
           /\ w.status = "PENDING" /\ w.needsAction = FALSE /\ w.amount = NULL
           /\ w.admin \in {NULL, "PENDING"} /\ w.ag = r.ag
           /\ r.admin # NULL => w.admin = "PENDING"
           /\ w.group = r.group /\ w.stage = r.stage
<1>1. ASSUME NEW x \in AdminStatus \cup {NULL}, NEW s \in ReviewStatus
      PROVE  [r EXCEPT !.admin = x, !.status = s, !.amount = NULL,
                       !.needsAction = FALSE] \in LineRecord
  BY Zenon DEF LineRecord
<1>2. Reopened(r.admin) \in AdminStatus \cup {NULL} /\ "PENDING" \in ReviewStatus
  BY DEF Reopened, AdminStatus, ReviewStatus
<1>3. ResetLine(r) \in LineRecord
  BY <1>1, <1>2 DEF ResetLine
<1>4. /\ ResetLine(r).status = "PENDING" /\ ResetLine(r).needsAction = FALSE
      /\ ResetLine(r).amount = NULL /\ ResetLine(r).ag = r.ag
      /\ ResetLine(r).group = r.group /\ ResetLine(r).stage = r.stage
      /\ ResetLine(r).admin = Reopened(r.admin)
  BY SMT DEF ResetLine, LineRecord
<1> QED BY <1>3, <1>4 DEF Reopened

\* What sending a line back to its group leaves on it.
LEMMA ReturnedTyped ==
    ASSUME NEW r \in LineRecord
    PROVE  LET w == ReturnedToGroup(r) IN
           /\ w \in LineRecord
           /\ w.status = "PENDING" /\ w.needsAction = FALSE /\ w.amount = NULL
           /\ w.admin \in {NULL, "PENDING"} /\ w.ag = Reopened(r.ag)
           /\ r.admin # NULL => w.admin = "PENDING"
           /\ w.group = r.group /\ w.stage = "APPROVAL_GROUP"
<1> DEFINE u == ResetLine(r)
<1>1. ReturnedToGroup(r) = [u EXCEPT !.ag = Reopened(u.ag), !.agAmount = NULL,
                                     !.stage = "APPROVAL_GROUP"]
  BY DEF ReturnedToGroup
<1>2. u \in LineRecord
  BY ResetTyped
<1> HIDE DEF u
<1>3. ASSUME NEW x \in ReviewStatus \cup {NULL}
      PROVE  [u EXCEPT !.ag = x, !.agAmount = NULL, !.stage = "APPROVAL_GROUP"]
                \in LineRecord
  BY <1>2, Zenon DEF LineRecord
<1>4. Reopened(u.ag) \in ReviewStatus \cup {NULL}
  BY DEF Reopened, ReviewStatus
<1>5. ReturnedToGroup(r) \in LineRecord
  BY <1>1, <1>3, <1>4
<1>6. LET w == [u EXCEPT !.ag = Reopened(u.ag), !.agAmount = NULL,
                         !.stage = "APPROVAL_GROUP"] IN
      /\ w.status = u.status /\ w.needsAction = u.needsAction /\ w.amount = u.amount
      /\ w.admin = u.admin /\ w.ag = Reopened(u.ag)
      /\ w.group = u.group /\ w.stage = "APPROVAL_GROUP"
  BY <1>2, SMT DEF LineRecord
<1>7. /\ u.status = "PENDING" /\ u.needsAction = FALSE /\ u.amount = NULL
      /\ u.admin \in {NULL, "PENDING"} /\ u.ag = r.ag
      /\ r.admin # NULL => u.admin = "PENDING"
      /\ u.group = r.group
  BY ResetTyped DEF u
<1> QED BY <1>1, <1>5, <1>6, <1>7

\* What moving a line to another account leaves on it.
LEMMA RebookedTyped ==
    ASSUME NEW r \in LineRecord, NEW g \in Groups, NEW q \in Amounts
    PROVE  LET w == Rebooked(r, g, q) IN
           /\ w \in LineRecord
           /\ w.status = "PENDING" /\ w.needsAction = FALSE /\ w.amount = NULL
           /\ w.admin \in {NULL, "PENDING"} /\ w.ag = "PENDING"
           /\ r.admin # NULL => w.admin = "PENDING"
           /\ w.group = g /\ w.stage = "APPROVAL_GROUP"
<1> DEFINE u == ResetLine(r)
<1>1. Rebooked(r, g, q) = [u EXCEPT !.group = g, !.requested = q, !.ag = "PENDING",
                                    !.agAmount = NULL, !.stage = "APPROVAL_GROUP"]
  BY DEF Rebooked
<1>2. u \in LineRecord
  BY ResetTyped
<1> HIDE DEF u
<1>3. ASSUME NEW x \in ReviewStatus
      PROVE  [u EXCEPT !.group = g, !.requested = q, !.ag = x,
                       !.agAmount = NULL, !.stage = "APPROVAL_GROUP"] \in LineRecord
  BY <1>2, Zenon DEF LineRecord
<1>4. "PENDING" \in ReviewStatus
  BY DEF ReviewStatus
<1>5. Rebooked(r, g, q) \in LineRecord
  BY <1>1, <1>3, <1>4, Zenon
<1>6. LET w == [u EXCEPT !.group = g, !.requested = q, !.ag = "PENDING",
                         !.agAmount = NULL, !.stage = "APPROVAL_GROUP"] IN
      /\ w.status = u.status /\ w.needsAction = u.needsAction /\ w.amount = u.amount
      /\ w.admin = u.admin /\ w.ag = "PENDING"
      /\ w.group = g /\ w.stage = "APPROVAL_GROUP"
  BY <1>2, SMT DEF LineRecord
<1>7. /\ u.status = "PENDING" /\ u.needsAction = FALSE /\ u.amount = NULL
      /\ u.admin \in {NULL, "PENDING"}
      /\ r.admin # NULL => u.admin = "PENDING"
  BY ResetTyped DEF u
<1> QED BY <1>1, <1>5, <1>6, <1>7

\* What dispatch leaves on a line.
LEMMA RoutedTyped ==
    ASSUME NEW r \in LineRecord, NEW g \in Groups
    PROVE  LET w == Routed(r, g) IN
           /\ w \in LineRecord
           /\ w.status = r.status /\ w.needsAction = r.needsAction
           /\ w.amount = r.amount /\ w.admin = r.admin
           /\ w.ag = "PENDING" /\ w.group = g /\ w.stage = "APPROVAL_GROUP"
<1>1. "PENDING" \in ReviewStatus
  BY DEF ReviewStatus
<1>2. Routed(r, g) \in LineRecord
  BY <1>1, Zenon DEF Routed, LineRecord
<1>3. LET w == Routed(r, g) IN
      /\ w.status = r.status /\ w.needsAction = r.needsAction
      /\ w.amount = r.amount /\ w.admin = r.admin
      /\ w.ag = "PENDING" /\ w.group = g /\ w.stage = "APPROVAL_GROUP"
  BY SMT DEF Routed, LineRecord
<1> QED BY <1>2, <1>3

-----------------------------------------------------------------------------
\* What an admin decision leaves on a line, action by action.
LEMMA AdminDecisionTyped ==
    ASSUME NEW r \in LineRecord,
           NEW a \in AdminActions, NEW amt \in Amounts \cup {NULL}
    PROVE  LET w == AdminDecision(r, a, amt) IN
           /\ w \in LineRecord
           /\ w.stage = "ADMIN_FINAL" /\ w.group = r.group /\ w.ag = r.ag
           /\ \/ /\ w.admin = "APPROVED" /\ w.status = "APPROVED"
                 /\ w.amount \in Amounts /\ w.adminAmount = w.amount
                 /\ w.needsAction = r.needsAction
              \/ /\ w.admin = "REJECTED" /\ w.status = "REJECTED"
                 /\ w.amount = NULL /\ w.needsAction = r.needsAction
              \/ /\ w.admin = "NEEDS_INFO" /\ w.status = "NEEDS_INFO"
                 /\ w.amount = r.amount /\ w.needsAction = TRUE
<1> DEFINE u == [r EXCEPT !.stage = "ADMIN_FINAL"]
           x == ApprovalAmount(r, amt)
           approved == [u EXCEPT !.admin = "APPROVED", !.adminAmount = x,
                                 !.status = "APPROVED", !.amount = x]
           rejected == [u EXCEPT !.admin = "REJECTED", !.status = "REJECTED",
                                 !.amount = NULL]
           asked    == [u EXCEPT !.admin = "NEEDS_INFO", !.status = "NEEDS_INFO",
                                 !.needsAction = TRUE]
<1>1. u \in LineRecord
  BY SMT DEF LineRecord
<1>2. u.stage = "ADMIN_FINAL" /\ u.group = r.group /\ u.ag = r.ag
      /\ u.amount = r.amount /\ u.needsAction = r.needsAction
  BY SMT DEF LineRecord
<1>3. x \in Amounts
  BY DEF ApprovalAmount, LineRecord
<1>4. /\ a = "APPROVE"    => AdminDecision(r, a, amt) = approved
      /\ a = "REJECT"     => AdminDecision(r, a, amt) = rejected
      /\ a = "NEEDS_INFO" => AdminDecision(r, a, amt) = asked
  BY DEF AdminDecision
<1>5. \A s \in {"APPROVED", "REJECTED", "NEEDS_INFO"} :
          s \in AdminStatus \cup {NULL} /\ s \in ReviewStatus
  BY DEF ReviewStatus, AdminStatus, AdminTerminal, GroupTerminal, Kickbacks
<1> HIDE DEF u, x
<1>6. CASE a = "APPROVE"
  <2>1. ASSUME NEW s \in AdminStatus \cup {NULL}, NEW t \in ReviewStatus
        PROVE  [u EXCEPT !.admin = s, !.adminAmount = x, !.status = t, !.amount = x]
                  \in LineRecord
    BY <1>1, <1>3, Zenon DEF LineRecord
  <2>2. approved \in LineRecord
    BY <1>5, <2>1
  <2>3. /\ approved.admin = "APPROVED" /\ approved.status = "APPROVED"
        /\ approved.amount = x /\ approved.adminAmount = x
        /\ approved.needsAction = u.needsAction
        /\ approved.stage = u.stage /\ approved.group = u.group /\ approved.ag = u.ag
    BY <1>1, SMT DEF LineRecord
  <2> QED BY <1>2, <1>3, <1>4, <1>6, <2>2, <2>3
<1>7. CASE a = "REJECT"
  <2>1. ASSUME NEW s \in AdminStatus \cup {NULL}, NEW t \in ReviewStatus
        PROVE  [u EXCEPT !.admin = s, !.status = t, !.amount = NULL] \in LineRecord
    BY <1>1, Zenon DEF LineRecord
  <2>2. rejected \in LineRecord
    BY <1>5, <2>1
  <2>3. /\ rejected.admin = "REJECTED" /\ rejected.status = "REJECTED"
        /\ rejected.amount = NULL /\ rejected.needsAction = u.needsAction
        /\ rejected.stage = u.stage /\ rejected.group = u.group /\ rejected.ag = u.ag
    BY <1>1, SMT DEF LineRecord
  <2> QED BY <1>2, <1>4, <1>7, <2>2, <2>3
<1>8. CASE a = "NEEDS_INFO"
  <2>1. ASSUME NEW s \in AdminStatus \cup {NULL}, NEW t \in ReviewStatus
        PROVE  [u EXCEPT !.admin = s, !.status = t, !.needsAction = TRUE] \in LineRecord
    BY <1>1, Zenon DEF LineRecord
  <2>2. asked \in LineRecord
    BY <1>5, <2>1
  <2>3. /\ asked.admin = "NEEDS_INFO" /\ asked.status = "NEEDS_INFO"
        /\ asked.amount = u.amount /\ asked.needsAction = TRUE
        /\ asked.stage = u.stage /\ asked.group = u.group /\ asked.ag = u.ag
    BY <1>1, SMT DEF LineRecord
  <2> QED BY <1>2, <1>4, <1>8, <2>2, <2>3
<1> QED BY <1>6, <1>7, <1>8 DEF AdminActions

\* What finalize leaves on a line it resolves: a verdict and an amount.
LEMMA FinalizedTyped ==
    ASSUME NEW r \in LineRecord, ~AdminResolved(r)
    PROVE  LET w == FinalizedLine(r) IN
           /\ w \in LineRecord
           /\ w.admin \in AdminTerminal /\ w.status = w.admin
           /\ w.amount \in Amounts /\ w.adminAmount = w.amount
           /\ w.needsAction = r.needsAction /\ w.stage = "ADMIN_FINAL"
           /\ w.ag = r.ag /\ w.group = r.group
           /\ w.status # "APPROVED" => w.amount = 0
<1> DEFINE v == IF r.status = "REJECTED" THEN "REJECTED" ELSE "APPROVED"
           x == FinalAmount(r)
           w == [r EXCEPT !.admin = v, !.status = v, !.adminAmount = x,
                          !.amount = x, !.stage = "ADMIN_FINAL"]
<1>1. v \in AdminTerminal /\ v \in AdminStatus /\ v \in ReviewStatus
  BY DEF AdminTerminal, AdminStatus, ReviewStatus, GroupTerminal
<1>2. x \in Amounts
  BY LineAssumption DEF FinalAmount, LineRecord
<1>3. FinalizedLine(r) = w
  BY DEF FinalizedLine
<1>6. v # "APPROVED" => x = 0
  BY DEF FinalAmount
<1> HIDE DEF v, x
<1>4. w \in LineRecord
  BY <1>1, <1>2, Zenon DEF LineRecord
<1>5. /\ w.admin = v /\ w.status = v /\ w.adminAmount = x /\ w.amount = x
      /\ w.needsAction = r.needsAction /\ w.stage = "ADMIN_FINAL"
      /\ w.ag = r.ag /\ w.group = r.group
  BY SMT DEF LineRecord
<1> QED BY <1>1, <1>2, <1>3, <1>4, <1>5, <1>6

-----------------------------------------------------------------------------
(***************************************************************************)
(* The inductive invariant.                                                *)
(***************************************************************************)

\* What is not approved carries no money: finalize books 0 on a rejected line.
WorthNothing(r) == r.status # "APPROVED" => r.amount \in {NULL, 0}

\* A well-typed line whose decision stands and whose flag can be answered.
LineInv(r) ==
    /\ r \in LineRecord
    /\ DecisionStands(r)
    /\ FlagAnswerable(r)
    /\ WorthNothing(r)

\* The inductive invariant.  The third conjunct is what keeps the review
\* handlers from running before dispatch: nobody has the item checked out.
IInv ==
    /\ TypeOK
    /\ \A l \in present : LineInv(line[l])
    /\ status \in {"DRAFT", "AWAITING_DISPATCH"} => holder = NULL
    /\ ReviewedLinesWereRouted
    /\ FinalizedIsCheckedIn

-----------------------------------------------------------------------------
(***************************************************************************)
(* Line by line.                                                           *)
(***************************************************************************)

\* A line in state "PENDING, unflagged, no amount, no verdict" is in order:
\* what dispatch, a reset, a return and a rebooking all leave behind.
LEMMA FreshLineInv ==
    ASSUME NEW w \in LineRecord, w.status = "PENDING", w.needsAction = FALSE,
           w.amount = NULL, w.admin \in {NULL, "PENDING"}
    PROVE  LineInv(w)
<1>1. w.admin \notin AdminTerminal
  BY LineAssumption DEF AdminTerminal, ReviewStatus, GroupTerminal
<1>2. w.status \notin Kickbacks
  BY DEF Kickbacks
<1>3. DecisionStands(w)
  BY <1>1 DEF DecisionStands
<1>4. FlagAnswerable(w)
  BY <1>2 DEF FlagAnswerable
<1> QED BY <1>3, <1>4 DEF LineInv, WorthNothing

\* A group that may act leaves the line in order: the admin has not decided,
\* so no amount is at stake, and a kickback sets the flag it is reviewed by.
LEMMA GroupDecisionInv ==
    ASSUME NEW r, LineInv(r), ApproverMayAct(r),
           NEW a \in GroupActions, NEW amt \in Amounts \cup {NULL}
    PROVE  /\ LineInv(GroupDecision(r, a, amt))
           /\ WasRouted(r) => WasRouted(GroupDecision(r, a, amt))
<1> DEFINE w == GroupDecision(r, a, amt)
           v == GroupVerdict[a]
<1>1. r \in LineRecord
  BY DEF LineInv
<1>2. /\ w \in LineRecord
      /\ w.status = v /\ w.ag = v
      /\ w.admin = r.admin /\ w.amount = r.amount
      /\ w.group = r.group /\ w.stage = r.stage
  BY <1>1, GroupDecisionTyped
<1>3. w.needsAction = (v \in Kickbacks)
  BY <1>1, GroupDecisionTyped, Zenon
<1>4. v \in ReviewStatus /\ v # NULL
  BY LineAssumption DEF GroupVerdict, GroupActions, ReviewStatus, Kickbacks, GroupTerminal
<1> HIDE DEF w, v
<1>5. r.admin \notin AdminTerminal /\ r.amount = NULL
  BY DEF LineInv, DecisionStands, ApproverMayAct
<1>6. DecisionStands(w)
  BY <1>2, <1>5 DEF DecisionStands
<1>7. w.needsAction <=> w.status \in Kickbacks
  BY <1>2, <1>3, Zenon
<1>8. w.needsAction => Awaiting(w) = "REQUESTER"
  BY <1>2, <1>7 DEF Awaiting
<1>9. LineInv(w)
  <2>1. WorthNothing(w)
    BY <1>2, <1>5 DEF WorthNothing
  <2> QED BY <2>1, <1>2, <1>6, <1>7, <1>8, Zenon DEF LineInv, FlagAnswerable
<1>10. WasRouted(r) => WasRouted(w)
  BY <1>2, <1>4 DEF WasRouted
<1> QED BY <1>9, <1>10 DEF w

\* A requester who may respond leaves the line in order: a flagged line has no
\* standing decision, hence no amount.
LEMMA ResponseInv ==
    ASSUME NEW r \in LineRecord, DecisionStands(r), RequesterMayRespond(r)
    PROVE  /\ LineInv(Response(r))
           /\ WasRouted(r) => WasRouted(Response(r))
<1> DEFINE w == Response(r)
<1>1. /\ w \in LineRecord
      /\ w.status = "PENDING" /\ w.amount = r.amount
      /\ w.admin \in {r.admin, "PENDING"} /\ w.ag \in {r.ag, "PENDING"}
      /\ w.group = r.group /\ w.stage = r.stage
  BY ResponseTyped
<1>2. w.needsAction = FALSE
  BY ResponseTyped, Zenon
<1> HIDE DEF w
<1>3. r.needsAction
  BY DEF RequesterMayRespond
<1>4. r.admin \notin AdminTerminal /\ r.amount = NULL
  BY <1>3 DEF DecisionStands
<1>5. DecisionStands(w)
  BY <1>1, <1>4 DEF DecisionStands, AdminTerminal
<1>6. w.status \notin Kickbacks
  BY <1>1 DEF Kickbacks
<1>7. FlagAnswerable(w)
  BY <1>2, <1>6 DEF FlagAnswerable
<1>8. WasRouted(r) => WasRouted(w)
  BY <1>1, LineAssumption DEF WasRouted, ReviewStatus
<1> QED BY <1>1, <1>4, <1>5, <1>7, <1>8 DEF w, LineInv, WorthNothing

\* An admin who decides a line that is not the requester's leaves it in order:
\* such a line is unflagged, and one not DONE has no amount.
LEMMA AdminDecisionInv ==
    ASSUME NEW r, LineInv(r), Awaiting(r) \in {"ADMIN", "REVIEWER_GROUP"},
           NEW a \in AdminActions, NEW amt \in Amounts \cup {NULL}
    PROVE  /\ LineInv(AdminDecision(r, a, amt))
           /\ WasRouted(r) => WasRouted(AdminDecision(r, a, amt))
<1> DEFINE w == AdminDecision(r, a, amt)
<1>1. r \in LineRecord
  BY DEF LineInv
<1>2. /\ w \in LineRecord
      /\ w.stage = "ADMIN_FINAL" /\ w.group = r.group /\ w.ag = r.ag
      /\ \/ /\ w.admin = "APPROVED" /\ w.status = "APPROVED"
            /\ w.amount \in Amounts /\ w.adminAmount = w.amount
            /\ w.needsAction = r.needsAction
         \/ /\ w.admin = "REJECTED" /\ w.status = "REJECTED"
            /\ w.amount = NULL /\ w.needsAction = r.needsAction
         \/ /\ w.admin = "NEEDS_INFO" /\ w.status = "NEEDS_INFO"
            /\ w.amount = r.amount /\ w.needsAction = TRUE
  BY <1>1, AdminDecisionTyped
<1> HIDE DEF w
<1>3. r.needsAction = FALSE
  BY <1>1 DEF LineInv, FlagAnswerable, LineRecord
<1>4. r.admin \notin AdminTerminal /\ r.amount = NULL
  BY DEF LineInv, DecisionStands, Awaiting
<1>r. WasRouted(r) => WasRouted(w)
  BY <1>2, LineAssumption DEF WasRouted
<1>5. CASE /\ w.admin = "APPROVED" /\ w.status = "APPROVED"
           /\ w.amount \in Amounts /\ w.adminAmount = w.amount
           /\ w.needsAction = r.needsAction
  <2>1. DecisionStands(w)
    BY <1>2, <1>3, <1>5, LineAssumption DEF DecisionStands, AdminTerminal
  <2>2. FlagAnswerable(w)
    BY <1>3, <1>5 DEF FlagAnswerable, Kickbacks
  <2>3. WorthNothing(w)
    BY <1>4, <1>5 DEF WorthNothing
  <2> QED BY <1>2, <1>r, <2>1, <2>2, <2>3 DEF w, LineInv
<1>6. CASE /\ w.admin = "REJECTED" /\ w.status = "REJECTED"
           /\ w.amount = NULL /\ w.needsAction = r.needsAction
  <2>1. DecisionStands(w)
    BY <1>2, <1>3, <1>6 DEF DecisionStands, AdminTerminal
  <2>2. FlagAnswerable(w)
    BY <1>3, <1>6 DEF FlagAnswerable, Kickbacks
  <2>3. WorthNothing(w)
    BY <1>4, <1>6 DEF WorthNothing
  <2> QED BY <1>2, <1>r, <2>1, <2>2, <2>3 DEF w, LineInv
<1>7. CASE /\ w.admin = "NEEDS_INFO" /\ w.status = "NEEDS_INFO"
           /\ w.amount = r.amount /\ w.needsAction = TRUE
  <2>1. DecisionStands(w)
    BY <1>4, <1>7 DEF DecisionStands, AdminTerminal
  <2>2. FlagAnswerable(w)
    BY <1>7 DEF FlagAnswerable, Kickbacks, Awaiting
  <2>3. WorthNothing(w)
    BY <1>4, <1>7 DEF WorthNothing
  <2> QED BY <1>2, <1>r, <2>1, <2>2, <2>3 DEF w, LineInv
<1> QED BY <1>2, <1>5, <1>6, <1>7

\* A reset leaves the line in order.
LEMMA ResetInv ==
    ASSUME NEW r \in LineRecord
    PROVE  /\ LineInv(ResetLine(r))
           /\ WasRouted(r) => WasRouted(ResetLine(r))
BY ResetTyped, FreshLineInv DEF WasRouted

\* So does a return to the group ...
LEMMA ReturnedInv ==
    ASSUME NEW r \in LineRecord
    PROVE  /\ LineInv(ReturnedToGroup(r))
           /\ WasRouted(r) => WasRouted(ReturnedToGroup(r))
BY ReturnedTyped, FreshLineInv, LineAssumption DEF WasRouted, Reopened, ReviewStatus

\* ... and a move to another account, which also routes the line.
LEMMA RebookedInv ==
    ASSUME NEW r \in LineRecord, NEW g \in Groups, NEW q \in Amounts
    PROVE  LineInv(Rebooked(r, g, q)) /\ WasRouted(Rebooked(r, g, q))
<1> DEFINE w == Rebooked(r, g, q)
<1>1. /\ w \in LineRecord /\ w.status = "PENDING" /\ w.amount = NULL
      /\ w.admin \in {NULL, "PENDING"} /\ w.ag = "PENDING"
      /\ w.group = g /\ w.stage = "APPROVAL_GROUP"
  BY RebookedTyped, ZenonT(30)
<1>2. w.needsAction = FALSE
  BY RebookedTyped, ZenonT(30)
<1> HIDE DEF w
<1>3. LineInv(w)
  BY <1>1, <1>2, FreshLineInv
<1>4. WasRouted(w)
  BY <1>1, LineAssumption DEF WasRouted, ReviewStatus
<1> QED BY <1>3, <1>4 DEF w

\* A line nobody reviewed is in order once it is routed.
LEMMA RoutedInv ==
    ASSUME NEW r \in LineRecord, NEW g \in Groups, NeverReviewed(r)
    PROVE  LineInv(Routed(r, g)) /\ WasRouted(Routed(r, g))
<1>1. /\ r.status = "PENDING" /\ r.needsAction = FALSE
      /\ r.amount = NULL /\ r.admin = NULL
  BY DEF NeverReviewed, LineRecord
<1> DEFINE w == Routed(r, g)
<1>2. /\ w \in LineRecord /\ w.status = "PENDING" /\ w.amount = NULL
      /\ w.admin = NULL /\ w.ag = "PENDING"
      /\ w.group = g /\ w.stage = "APPROVAL_GROUP"
  BY <1>1, RoutedTyped
<1>3. w.needsAction = FALSE
  BY <1>1, RoutedTyped, Zenon
<1> HIDE DEF w
<1>4. LineInv(w)
  BY <1>2, <1>3, FreshLineInv
<1>5. WasRouted(w)
  BY <1>2, LineAssumption DEF WasRouted, ReviewStatus
<1> QED BY <1>4, <1>5 DEF w

\* A draft line is one nobody reviewed.
LEMMA DraftLineNeverReviewed ==
    ASSUME NEW q \in Amounts, NEW g \in Groups \cup {NULL}
    PROVE  NeverReviewed(DraftLine(q, g)) /\ LineInv(DraftLine(q, g))
<1> DEFINE r == DraftLine(q, g)
<1>1. /\ r.status = "PENDING" /\ r.needsAction = FALSE /\ r.stage = NULL
      /\ r.amount = NULL /\ r.ag = NULL /\ r.agAmount = NULL
      /\ r.admin = NULL /\ r.adminAmount = NULL
  BY DEF DraftLine
<1>2. NeverReviewed(r)
  BY <1>1 DEF NeverReviewed
<1>3. LineInv(r)
  BY <1>1, DraftLineTyped, FreshLineInv
<1> QED BY <1>2, <1>3

\* Finalize leaves a line that waits for nobody in order, decided and unflagged.
LEMMA FinalizedInv ==
    ASSUME NEW r, LineInv(r), r.status \notin Kickbacks
    PROVE  LET w == FinalizedLine(r) IN
           /\ LineInv(w)
           /\ WasRouted(r) => WasRouted(w)
           /\ w.status \in AdminTerminal
           /\ ~w.needsAction
<1> DEFINE w == FinalizedLine(r)
<1>1. r \in LineRecord
  BY DEF LineInv
<1>2. r.needsAction = FALSE
  BY <1>1 DEF LineInv, FlagAnswerable, LineRecord
<1>3. CASE AdminResolved(r)
  <2>1. w = r
    BY <1>3 DEF FinalizedLine
  <2> QED BY <1>2, <1>3, <2>1 DEF AdminResolved
<1>4. CASE ~AdminResolved(r)
  <2>1. /\ w \in LineRecord
        /\ w.admin \in AdminTerminal /\ w.status = w.admin
        /\ w.amount \in Amounts /\ w.adminAmount = w.amount
        /\ w.needsAction = r.needsAction /\ w.stage = "ADMIN_FINAL"
        /\ w.ag = r.ag /\ w.group = r.group
        /\ w.status # "APPROVED" => w.amount = 0
    BY <1>1, <1>4, FinalizedTyped
  <2> HIDE DEF w
  <2>2. DecisionStands(w)
    BY <1>2, <2>1, LineAssumption DEF DecisionStands
  <2>3. FlagAnswerable(w)
    BY <1>2, <2>1 DEF FlagAnswerable, Kickbacks, AdminTerminal
  <2>4. WasRouted(r) => WasRouted(w)
    BY <2>1, LineAssumption DEF WasRouted
  <2>5. ~w.needsAction
    BY <1>2, <2>1
  <2>6. WorthNothing(w)
    BY <2>1 DEF WorthNothing
  <2> QED BY <2>1, <2>2, <2>3, <2>4, <2>5, <2>6 DEF LineInv, w
<1> QED BY <1>3, <1>4

-----------------------------------------------------------------------------
(***************************************************************************)
(* Action by action.                                                       *)
(***************************************************************************)

\* The invariant holds of every draft.
LEMMA InitInv == Init => IInv
<1> SUFFICES ASSUME Init PROVE IInv
  OBVIOUS
<1> DEFINE D == {DraftLine(q, g) : q \in Amounts, g \in Groups \cup {NULL}}
<1>1. D \subseteq LineRecord
  BY DraftLineTyped
<1>2. line \in [Lines -> LineRecord]
  <2>1. line \in [Lines -> D]
    BY DEF Init
  <2> HIDE DEF D
  <2> QED BY <1>1, <2>1
<1>3. \A l \in Lines : NeverReviewed(line[l]) /\ LineInv(line[l])
  BY DraftLineNeverReviewed DEF Init
<1>4. present \subseteq Lines
  BY DEF Init
<1>5. status = "DRAFT" /\ holder = NULL /\ live = FALSE
  BY DEF Init
<1>6. TypeOK
  BY <1>2, <1>4, <1>5 DEF TypeOK, ItemStatus
<1>7. ReviewedLinesWereRouted
  BY <1>3, <1>4 DEF Init, ReviewedLinesWereRouted
<1> QED BY <1>3, <1>4, <1>6, <1>7 DEF Init, IInv, FinalizedIsCheckedIn

\* A step that writes one reviewed line and nothing else keeps the invariant
\* when what it writes is in order.
LEMMA SetLineInv ==
    ASSUME IInv, NEW l \in present, NEW r, SetLine(l, r),
           LineInv(r), WasRouted(r), status \in {"SUBMITTED", "FINALIZED"}
    PROVE  IInv'
<1>1. /\ line \in [Lines -> LineRecord] /\ l \in Lines /\ present \subseteq Lines
      /\ r \in LineRecord
  BY DEF IInv, TypeOK, LineInv
<1>2. line' = [line EXCEPT ![l] = r]
  BY DEF SetLine
<1>3. line' \in [Lines -> LineRecord] /\ \A k \in Lines : line'[k] = IF k = l THEN r ELSE line[k]
  BY <1>1, <1>2
<1>4. status' = status /\ holder' = holder /\ live' = live /\ present' = present
  BY DEF SetLine
<1>5. TypeOK'
  BY <1>3, <1>4 DEF IInv, TypeOK
<1>6. (\A k \in present : LineInv(line[k]))'
  <2>1. ASSUME NEW k \in present
        PROVE  LineInv(line'[k])
    BY <1>1, <1>3 DEF IInv
  <2> QED BY <1>4, <2>1 DEF LineInv, DecisionStands, FlagAnswerable
<1>7. ReviewedLinesWereRouted'
  BY <1>1, <1>3, <1>4 DEF IInv, ReviewedLinesWereRouted
<1>8. FinalizedIsCheckedIn'
  BY <1>4 DEF IInv, FinalizedIsCheckedIn, CheckedOut
<1> QED BY <1>4, <1>5, <1>6, <1>7, <1>8 DEF IInv

\* A step that rewrites the lines, keeps the session and may change the status
\* keeps the invariant when every line it leaves is in order.
LEMMA SetLinesInv ==
    ASSUME IInv, UNCHANGED <<holder, live, present>>,
           status' \in ItemStatus,
           status' \in {"DRAFT", "AWAITING_DISPATCH"} => holder = NULL,
           status' = "FINALIZED" => ~CheckedOut,
           line' \in [Lines -> LineRecord],
           \A k \in present :
               /\ LineInv(line'[k])
               /\ IF status' \in {"SUBMITTED", "FINALIZED"}
                      THEN WasRouted(line'[k])
                      ELSE NeverReviewed(line'[k])
    PROVE  IInv'
<1>1. TypeOK'
  BY DEF IInv, TypeOK
<1>2. (\A k \in present : LineInv(line[k]))'
  BY DEF LineInv, DecisionStands, FlagAnswerable
<1>3. ReviewedLinesWereRouted'
  BY DEF ReviewedLinesWereRouted
<1>4. FinalizedIsCheckedIn'
  BY DEF FinalizedIsCheckedIn, CheckedOut
<1> QED BY <1>1, <1>2, <1>3, <1>4 DEF IInv

\* A step that only moves the session keeps the invariant, if nobody enters an
\* undispatched or a finalized request.
LEMMA SessionInv ==
    ASSUME IInv, UNCHANGED <<status, present, line>>,
           holder' \in Users \cup {NULL}, live' \in BOOLEAN,
           status = "SUBMITTED" \/ holder' = NULL \/ (holder' = holder /\ ~live')
    PROVE  IInv'
<1>1. TypeOK'
  BY DEF IInv, TypeOK
<1>2. (\A k \in present : LineInv(line[k]))'
  BY DEF IInv, LineInv, DecisionStands, FlagAnswerable
<1>3. ReviewedLinesWereRouted'
  BY DEF IInv, ReviewedLinesWereRouted
<1>4. FinalizedIsCheckedIn'
  BY DEF IInv, FinalizedIsCheckedIn, CheckedOut
<1>5. (status \in {"DRAFT", "AWAITING_DISPATCH"} => holder = NULL)'
  BY DEF IInv
<1> QED BY <1>1, <1>2, <1>3, <1>4, <1>5 DEF IInv

\* Whoever holds the checkout works on a dispatched request.
LEMMA HolderIsInReview ==
    ASSUME IInv, NEW u \in Users, HoldsCheckout(u)
    PROVE  status \in {"SUBMITTED", "FINALIZED"}
BY UserAssumption DEF IInv, TypeOK, ItemStatus, HoldsCheckout

\* What the invariant says of one line of a dispatched request.
LEMMA LineFacts ==
    ASSUME IInv, NEW l \in present
    PROVE  /\ line[l] \in LineRecord /\ LineInv(line[l]) /\ DecisionStands(line[l])
           /\ status \in {"SUBMITTED", "FINALIZED"} => WasRouted(line[l])
           /\ status \notin {"SUBMITTED", "FINALIZED"} => NeverReviewed(line[l])
BY DEF IInv, LineInv, ReviewedLinesWereRouted

\* A line the requester may answer is under review.
LEMMA FlaggedIsInReview ==
    ASSUME IInv, NEW l \in present, RequesterMayRespond(line[l])
    PROVE  status \in {"SUBMITTED", "FINALIZED"}
BY LineFacts DEF RequesterMayRespond, NeverReviewed

-----------------------------------------------------------------------------
\* Every step preserves the invariant.
LEMMA NextInv == IInv /\ [Next]_vars => IInv'
<1> SUFFICES ASSUME IInv, [Next]_vars PROVE IInv'
  OBVIOUS
<1>t. TypeOK
  BY DEF IInv
<1>1. CASE Submit
  <2>1. \A k \in present : LineInv(line'[k]) /\ NeverReviewed(line'[k])
    BY <1>1, LineFacts DEF Submit
  <2>2. holder = NULL
    BY <1>1 DEF Submit, IInv
  <2> QED BY <1>1, <1>t, <2>1, <2>2, SetLinesInv DEF Submit, TypeOK, ItemStatus
<1>2. CASE Recall
  <2>1. \A k \in present : LineInv(line'[k]) /\ NeverReviewed(line'[k])
    BY <1>2, LineFacts DEF Recall
  <2>2. holder = NULL
    BY <1>2 DEF Recall, IInv
  <2> QED BY <1>2, <1>t, <2>1, <2>2, SetLinesInv DEF Recall, TypeOK, ItemStatus
<1>3. ASSUME NEW choice \in Routing, status = "AWAITING_DISPATCH"
      PROVE  /\ Assigned(choice) \in [Lines -> LineRecord]
             /\ \A k \in present : /\ NeverReviewed(Assigned(choice)[k])
                                    /\ LineInv(Assigned(choice)[k])
  <2>1. ASSUME NEW k \in Lines
        PROVE  Assigned(choice)[k] \in LineRecord
    <3>1. line[k] \in LineRecord
      BY <1>t DEF TypeOK
    <3>2. CASE k \in present /\ choice[k] # NULL
      <4>1. choice[k] \in Groups
        BY <3>2 DEF Routing
      <4>2. Assigned(choice)[k] = [line[k] EXCEPT !.group = choice[k]]
        BY <3>2 DEF Assigned
      <4> QED BY <3>1, <4>1, <4>2, RegroupedTyped
    <3>3. CASE ~(k \in present /\ choice[k] # NULL)
      BY <3>1, <3>3 DEF Assigned
    <3> QED BY <3>2, <3>3
  <2>2. ASSUME NEW k \in present
        PROVE  NeverReviewed(Assigned(choice)[k]) /\ LineInv(Assigned(choice)[k])
    <3> DEFINE r == Assigned(choice)[k]
    <3>1. line[k] \in LineRecord /\ LineInv(line[k]) /\ NeverReviewed(line[k])
      BY <1>3, LineFacts
    <3>2. k \in Lines
      BY <1>t DEF TypeOK
    <3>3. CASE choice[k] # NULL
      <4>1. choice[k] \in Groups
        BY <3>2, <3>3 DEF Routing
      <4>2. r = [line[k] EXCEPT !.group = choice[k]]
        BY <3>2, <3>3 DEF Assigned
      <4>3. /\ r \in LineRecord
            /\ r.status = line[k].status
            /\ r.amount = line[k].amount /\ r.adminAmount = line[k].adminAmount
            /\ r.admin = line[k].admin /\ r.ag = line[k].ag
            /\ r.agAmount = line[k].agAmount /\ r.stage = line[k].stage
        BY <3>1, <4>1, <4>2, RegroupedTyped
      <4>4. r.needsAction = line[k].needsAction
        <5>1. [line[k] EXCEPT !.group = choice[k]].needsAction = line[k].needsAction
          BY <3>1, <4>1, RegroupedTyped, Zenon
        <5> QED BY <4>2, <5>1, Zenon
      <4>5. line[k].needsAction = FALSE
        BY <3>1 DEF NeverReviewed, LineRecord
      <4> HIDE DEF r
      <4>6. NeverReviewed(r)
        BY <3>1, <4>3, <4>4, <4>5 DEF NeverReviewed
      <4>7. LineInv(r)
        BY <4>3, <4>4, <4>5, <4>6, FreshLineInv DEF NeverReviewed
      <4> QED BY <4>6, <4>7 DEF r
    <3>4. CASE choice[k] = NULL
      BY <3>1, <3>2, <3>4 DEF Assigned
    <3> QED BY <3>3, <3>4
  <2>3. Assigned(choice) \in [Lines -> LineRecord]
    <3>1. Assigned(choice) = [k \in Lines |-> Assigned(choice)[k]]
      BY DEF Assigned
    <3> QED BY <2>1, <3>1
  <2> QED BY <2>2, <2>3
<1>4. ASSUME NEW choice \in Routing, Assign(choice)
      PROVE  IInv'
  <2>1. /\ status = "AWAITING_DISPATCH" /\ line' = Assigned(choice)
        /\ UNCHANGED <<status, holder, live, present>>
    BY <1>4 DEF Assign
  <2>2. holder = NULL
    BY <2>1 DEF IInv
  <2> QED BY <1>3, <2>1, <2>2, SetLinesInv DEF ItemStatus
<1>5. ASSUME NEW choice \in Routing, Dispatch(choice)
      PROVE  IInv'
  <2>1. status = "AWAITING_DISPATCH" /\ status' = "SUBMITTED"
        /\ UNCHANGED <<holder, live, present>>
    BY <1>5 DEF Dispatch
  <2>2. ASSUME NEW k \in present
        PROVE  /\ k \in Lines /\ line[k] \in LineRecord /\ NeverReviewed(line[k])
               /\ Assigned(choice)[k].group \in Groups
    <3>1. k \in Lines /\ line[k] \in LineRecord /\ NeverReviewed(line[k])
      BY <1>t, <2>1, LineFacts DEF TypeOK
    <3>2. Assigned(choice)[k] \in LineRecord /\ Assigned(choice)[k].group # NULL
      BY <1>3, <1>5, <2>1, <3>1 DEF Dispatch
    <3>3. Assigned(choice)[k].group \in Groups
      BY <3>2 DEF LineRecord
    <3> QED BY <3>1, <3>3
  <2>3. line' = [l \in Lines |->
                   IF l \in present
                       THEN Routed(line[l], Assigned(choice)[l].group)
                       ELSE line[l]]
    BY <1>5 DEF Dispatch
  <2>4. ASSUME NEW k \in present
        PROVE  LineInv(line'[k]) /\ WasRouted(line'[k])
    <3>1. line'[k] = Routed(line[k], Assigned(choice)[k].group)
      BY <2>2, <2>3
    <3> QED BY <2>2, <3>1, RoutedInv
  <2>5. \A k \in Lines : line'[k] \in LineRecord
    <3>1. ASSUME NEW k \in Lines, k \notin present
          PROVE  line'[k] = line[k] /\ line[k] \in LineRecord
      BY <1>t, <2>3, <3>1 DEF TypeOK
    <3> QED BY <2>4, <3>1 DEF LineInv
  <2>6. line' \in [Lines -> LineRecord]
    BY <2>3, <2>5
  <2> QED BY <2>1, <2>4, <2>6, SetLinesInv DEF ItemStatus
<1>6. ASSUME NEW u \in Users, Checkout(u)
      PROVE  IInv'
  BY <1>6, SessionInv DEF Checkout
<1>7. ASSUME NEW u \in Users, Checkin(u)
      PROVE  IInv'
  BY <1>7, SessionInv DEF Checkin
<1>8. CASE ReleaseLock
  BY <1>8, SessionInv DEF ReleaseLock
<1>9. CASE Expire
  BY <1>9, <1>t, SessionInv DEF Expire, TypeOK
<1>10. ASSUME NEW u \in Users, NEW l \in present, NEW a \in GroupActions,
              NEW amt \in Amounts \cup {NULL}, GroupDecide(u, l, a, amt)
       PROVE  IInv'
  <2>1. status \in {"SUBMITTED", "FINALIZED"}
    BY <1>10, HolderIsInReview DEF GroupDecide
  <2>2. LineInv(line[l]) /\ WasRouted(line[l])
    BY <2>1, LineFacts
  <2>3. ApproverMayAct(line[l]) /\ SetLine(l, GroupDecision(line[l], a, amt))
    BY <1>10 DEF GroupDecide
  <2> QED BY <2>1, <2>2, <2>3, GroupDecisionInv, SetLineInv
<1>11. ASSUME NEW l \in present, Respond(l)
       PROVE  IInv'
  <2>1. RequesterMayRespond(line[l]) /\ SetLine(l, Response(line[l]))
    BY <1>11 DEF Respond
  <2>2. status \in {"SUBMITTED", "FINALIZED"}
    BY <2>1, FlaggedIsInReview
  <2>3. line[l] \in LineRecord /\ DecisionStands(line[l]) /\ WasRouted(line[l])
    BY <2>2, LineFacts
  <2> QED BY <2>1, <2>2, <2>3, ResponseInv, SetLineInv
<1>12. ASSUME NEW l \in present, NEW q \in Amounts, Adjust(l, q)
       PROVE  IInv'
  <2> DEFINE r == [line[l] EXCEPT !.requested = q]
  <2>1. RequesterMayRespond(line[l]) /\ SetLine(l, Response(r))
    BY <1>12 DEF Adjust
  <2>2. status \in {"SUBMITTED", "FINALIZED"}
    BY <2>1, FlaggedIsInReview
  <2>3. line[l] \in LineRecord /\ DecisionStands(line[l]) /\ WasRouted(line[l])
    BY <2>2, LineFacts
  <2>4. /\ r \in LineRecord
        /\ r.status = line[l].status
        /\ r.amount = line[l].amount /\ r.adminAmount = line[l].adminAmount
        /\ r.admin = line[l].admin /\ r.ag = line[l].ag
        /\ r.group = line[l].group /\ r.stage = line[l].stage
    BY <2>3, RepricedTyped
  <2>5. r.needsAction = line[l].needsAction
    BY <2>3, RepricedTyped, Zenon
  <2> HIDE DEF r
  <2>6. RequesterMayRespond(r)
    BY <2>1, <2>4, <2>5, Zenon DEF RequesterMayRespond, Awaiting
  <2>7. DecisionStands(r)
    BY <2>3, <2>4, <2>5, Zenon DEF DecisionStands
  <2>8. WasRouted(r)
    BY <2>3, <2>4 DEF WasRouted
  <2> QED BY <2>1, <2>2, <2>4, <2>6, <2>7, <2>8, ResponseInv, SetLineInv
<1>13. ASSUME NEW u \in Users, NEW l \in present, NEW a \in AdminActions,
              NEW amt \in Amounts \cup {NULL}, AdminDecide(u, l, a, amt)
       PROVE  IInv'
  <2>1. status \in {"SUBMITTED", "FINALIZED"}
    BY <1>13, HolderIsInReview DEF AdminDecide
  <2>2. LineInv(line[l]) /\ WasRouted(line[l])
    BY <2>1, LineFacts
  <2>3. /\ Awaiting(line[l]) \in {"ADMIN", "REVIEWER_GROUP"}
        /\ SetLine(l, AdminDecision(line[l], a, amt))
    BY <1>13 DEF AdminDecide
  <2> QED BY <2>1, <2>2, <2>3, AdminDecisionInv, SetLineInv
<1>14. ASSUME NEW u \in Users, NEW l \in present, AdminReset(u, l)
       PROVE  IInv'
  <2>1. status \in {"SUBMITTED", "FINALIZED"}
    BY <1>14, HolderIsInReview DEF AdminReset
  <2>2. line[l] \in LineRecord /\ WasRouted(line[l])
    BY <2>1, LineFacts
  <2>3. SetLine(l, ResetLine(line[l]))
    BY <1>14 DEF AdminReset
  <2> QED BY <2>1, <2>2, <2>3, ResetInv, SetLineInv
<1>15. ASSUME NEW u \in Users, NEW l \in present, ReturnLine(u, l)
       PROVE  IInv'
  <2>1. status \in {"SUBMITTED", "FINALIZED"}
    BY <1>15, HolderIsInReview DEF ReturnLine
  <2>2. line[l] \in LineRecord /\ WasRouted(line[l])
    BY <2>1, LineFacts
  <2>3. SetLine(l, ReturnedToGroup(line[l]))
    BY <1>15 DEF ReturnLine
  <2> QED BY <2>1, <2>2, <2>3, ReturnedInv, SetLineInv
<1>16. ASSUME NEW u \in Users, NEW l \in present, NEW g \in Groups, NEW q \in Amounts,
              ChangeAccount(u, l, g, q)
       PROVE  IInv'
  <2>1. status \in {"SUBMITTED", "FINALIZED"} /\ SetLine(l, Rebooked(line[l], g, q))
    BY <1>16 DEF ChangeAccount, AdminToolsOpen
  <2>2. line[l] \in LineRecord
    BY LineFacts
  <2> QED BY <2>1, <2>2, RebookedInv, SetLineInv
<1>17. ASSUME NEW u \in Users, NEW l \in Lines, NEW g \in Groups, NEW q \in Amounts,
              AddLine(u, l, g, q)
       PROVE  IInv'
  <2> DEFINE r == Routed(DraftLine(q, g), g)
  <2>1. LineInv(r) /\ WasRouted(r) /\ r \in LineRecord
    BY DraftLineTyped, DraftLineNeverReviewed, RoutedInv DEF LineInv
  <2>2. /\ status = "SUBMITTED" /\ present' = present \cup {l}
        /\ line' = [line EXCEPT ![l] = r]
        /\ UNCHANGED <<status, holder, live>>
    BY <1>17 DEF AddLine, AdminToolsOpen
  <2> HIDE DEF r
  <2>3. line' \in [Lines -> LineRecord] /\ \A k \in Lines : line'[k] = IF k = l THEN r ELSE line[k]
    BY <1>t, <2>1, <2>2 DEF TypeOK
  <2>4. TypeOK'
    BY <1>t, <2>2, <2>3 DEF TypeOK
  <2>5. \A k \in present' : LineInv(line'[k]) /\ WasRouted(line'[k])
    BY <1>t, <2>1, <2>2, <2>3, LineFacts DEF TypeOK
  <2>6. (\A k \in present : LineInv(line[k]))'
    BY <2>5 DEF LineInv, DecisionStands, FlagAnswerable
  <2>7. ReviewedLinesWereRouted'
    BY <2>2, <2>5 DEF ReviewedLinesWereRouted
  <2> QED BY <2>2, <2>4, <2>6, <2>7 DEF IInv, FinalizedIsCheckedIn
<1>18. CASE Finalize
  <2>1. /\ CanFinalize /\ status' = "FINALIZED"
        /\ line' = [l \in Lines |->
                      IF l \in present THEN FinalizedLine(line[l]) ELSE line[l]]
        /\ UNCHANGED <<holder, live, present>>
    BY <1>18 DEF Finalize
  <2>2. status = "SUBMITTED"
    BY <2>1, LineAssumption, LineFacts
       DEF CanFinalize, HasDecision, NeverReviewed, AdminTerminal, GroupTerminal, ReviewStatus
  <2>3. ASSUME NEW k \in present
        PROVE  LineInv(line'[k]) /\ WasRouted(line'[k])
    <3>1. line'[k] = FinalizedLine(line[k])
      BY <1>t, <2>1 DEF TypeOK
    <3>2. LineInv(line[k]) /\ WasRouted(line[k]) /\ line[k].status \notin Kickbacks
      BY <2>1, <2>2, LineFacts DEF CanFinalize
    <3> QED BY <3>1, <3>2, FinalizedInv
  <2>4. \A k \in Lines : line'[k] \in LineRecord
    <3>1. ASSUME NEW k \in Lines, k \notin present
          PROVE  line'[k] = line[k] /\ line[k] \in LineRecord
      BY <1>t, <2>1, <3>1 DEF TypeOK
    <3> QED BY <2>3, <3>1 DEF LineInv
  <2>5. line' \in [Lines -> LineRecord]
    BY <2>1, <2>4
  <2>6. ~CheckedOut
    BY <2>1 DEF CanFinalize
  <2> QED BY <2>1, <2>3, <2>5, <2>6, SetLinesInv DEF ItemStatus
<1>19. ASSUME NEW resetLines \in BOOLEAN, Unfinalize(resetLines)
       PROVE  IInv'
  <2>1. /\ status = "FINALIZED" /\ status' = "SUBMITTED"
        /\ line' = [l \in Lines |->
                      IF l \in present /\ resetLines THEN ResetLine(line[l]) ELSE line[l]]
        /\ UNCHANGED <<holder, live, present>>
    BY <1>19 DEF Unfinalize
  <2>2. ASSUME NEW k \in present
        PROVE  LineInv(line'[k]) /\ WasRouted(line'[k])
    <3>1. line'[k] = IF resetLines THEN ResetLine(line[k]) ELSE line[k]
      BY <1>t, <2>1 DEF TypeOK
    <3>2. line[k] \in LineRecord /\ LineInv(line[k]) /\ WasRouted(line[k])
      BY <2>1, LineFacts
    <3> QED BY <3>1, <3>2, ResetInv
  <2>3. \A k \in Lines : line'[k] \in LineRecord
    <3>1. ASSUME NEW k \in Lines, k \notin present
          PROVE  line'[k] = line[k] /\ line[k] \in LineRecord
      BY <1>t, <2>1, <3>1 DEF TypeOK
    <3> QED BY <2>2, <3>1 DEF LineInv
  <2>4. line' \in [Lines -> LineRecord]
    BY <2>1, <2>3
  <2> QED BY <2>1, <2>2, <2>4, SetLinesInv DEF ItemStatus
<1>20. CASE UNCHANGED vars
  BY <1>20 DEF vars, IInv, TypeOK, LineInv, DecisionStands, FlagAnswerable,
               ReviewedLinesWereRouted, FinalizedIsCheckedIn, CheckedOut
<1> QED
  BY <1>1, <1>2, <1>4, <1>5, <1>6, <1>7, <1>8, <1>9, <1>10, <1>11, <1>12,
     <1>13, <1>14, <1>15, <1>16, <1>17, <1>18, <1>19, <1>20 DEF Next, AdminStep

-----------------------------------------------------------------------------
(***************************************************************************)
(* The theorems.                                                           *)
(***************************************************************************)

\* The strengthened invariant holds in every reachable state.
THEOREM Invariance == Spec => []IInv
BY InitInv, NextInv, PTL DEF Spec

\* Every handler keeps the columns within their types: no write of review,
\* admin, dispatch or finalize code leaves a status outside its vocabulary.
THEOREM TypeCorrect == Spec => []TypeOK
<1>1. IInv => TypeOK
  BY DEF IInv
<1> QED BY <1>1, Invariance, PTL

\* An admin's terminal decision is the line's status and amount, and no line
\* carries an amount without one, whatever the reviewers, admins and the
\* requester do and in whatever order.
THEOREM DecisionStandsAlways == Spec => []AdminDecisionStands
<1>1. IInv => AdminDecisionStands
  BY DEF IInv, LineInv, AdminDecisionStands
<1> QED BY <1>1, Invariance, PTL

\* Every flagged line can be answered by its requester.
THEOREM FlagAlwaysAnswerable == Spec => []FlagMeansAnswerable
<1>1. IInv => FlagMeansAnswerable
  BY DEF IInv, LineInv, FlagMeansAnswerable
<1> QED BY <1>1, Invariance, PTL

\* Every line under review or finalized went through a group's queue, and a
\* request before dispatch has no trace of review.
THEOREM AlwaysRouted == Spec => []ReviewedLinesWereRouted
<1>1. IInv => ReviewedLinesWereRouted
  BY DEF IInv
<1> QED BY <1>1, Invariance, PTL

\* A finalized request is in nobody's review session.
THEOREM FinalizedAlwaysCheckedIn == Spec => []FinalizedIsCheckedIn
<1>1. IInv => FinalizedIsCheckedIn
  BY DEF IInv
<1> QED BY <1>1, Invariance, PTL

\* The step that finalizes decides every line and leaves none flagged.
THEOREM FinalizeAlwaysDecides == Spec => FinalizeDecidesEveryLine
<1> DEFINE A == status # "FINALIZED" /\ status' = "FINALIZED" =>
                  \A l \in present :
                      line'[l].status \in AdminTerminal /\ ~line'[l].needsAction
<1>1. IInv /\ [Next]_vars => A
  <2> SUFFICES ASSUME IInv, [Next]_vars, status # "FINALIZED", status' = "FINALIZED",
                      NEW l \in present
               PROVE  line'[l].status \in AdminTerminal /\ ~line'[l].needsAction
    OBVIOUS
  <2>1. Finalize
    BY DEF Next, vars, AdminStep, Submit, Recall, Assign, Dispatch, Checkout, Checkin,
           ReleaseLock, Expire, GroupDecide, Respond, Adjust, SetLine, AdminDecide,
           AdminReset, ReturnLine, ChangeAccount, AddLine, Unfinalize
  <2>2. l \in Lines /\ LineInv(line[l])
    BY LineFacts DEF IInv, TypeOK
  <2>3. line'[l] = FinalizedLine(line[l]) /\ line[l].status \notin Kickbacks
    BY <2>1, <2>2 DEF Finalize, CanFinalize
  <2> QED BY <2>2, <2>3, FinalizedInv
<1> QED BY <1>1, Invariance, PTL DEF Spec, FinalizeDecidesEveryLine

\* What DecidedLineIsFrozen says of one step.
Frozen ==
    \A l \in present :
        line[l].admin \in AdminTerminal =>
            line'[l] = line[l] \/ line'[l].admin = "PENDING"

\* A step that writes one line respects the decision on it when there is none,
\* or when what it writes withdraws it.
LEMMA SetLineFrozen ==
    ASSUME IInv, NEW l \in present, NEW r, SetLine(l, r),
           line[l].admin \notin AdminTerminal \/ r.admin = "PENDING"
    PROVE  Frozen
BY DEF Frozen, SetLine, IInv, TypeOK

\* A line whose decision stands has been decided for good: nobody is asked.
LEMMA DecidedIsDone ==
    ASSUME NEW r \in LineRecord, DecisionStands(r), r.admin \in AdminTerminal
    PROVE  ~r.needsAction /\ Awaiting(r) \notin {"ADMIN", "REVIEWER_GROUP"} /\ AdminResolved(r)
BY DEF DecisionStands, Awaiting, AdminResolved

\* What an admin decided does not move, whichever handler runs, unless that
\* handler withdraws the decision to PENDING.
THEOREM DecidedAlwaysFrozen == Spec => DecidedLineIsFrozen
<1>1. IInv /\ [Next]_vars => Frozen
  <2> SUFFICES ASSUME IInv, [Next]_vars PROVE Frozen
    OBVIOUS
  <2>l. \A l \in present : /\ l \in Lines /\ line[l] \in LineRecord
                            /\ DecisionStands(line[l])
    BY LineFacts DEF IInv, TypeOK
  <2>n. NULL \notin AdminTerminal
    BY LineAssumption DEF ReviewStatus, AdminTerminal, GroupTerminal
  <2>1. CASE UNCHANGED line
    BY <2>1 DEF Frozen
  <2>2. CASE status = "AWAITING_DISPATCH"
    <3>1. \A l \in present : line[l].admin = NULL
      BY <2>2, LineFacts DEF NeverReviewed
    <3> QED BY <2>n, <3>1 DEF Frozen
  <2>3. ASSUME NEW u \in Users, NEW l \in present, NEW a \in GroupActions,
               NEW amt \in Amounts \cup {NULL}, GroupDecide(u, l, a, amt)
        PROVE  Frozen
    BY <2>3, SetLineFrozen DEF GroupDecide, ApproverMayAct
  <2>4. ASSUME NEW l \in present, Respond(l)
        PROVE  Frozen
    BY <2>4, <2>l, SetLineFrozen, DecidedIsDone DEF Respond, RequesterMayRespond
  <2>5. ASSUME NEW l \in present, NEW q \in Amounts, Adjust(l, q)
        PROVE  Frozen
    BY <2>5, <2>l, SetLineFrozen, DecidedIsDone DEF Adjust, RequesterMayRespond
  <2>6. ASSUME NEW u \in Users, NEW l \in present, NEW a \in AdminActions,
               NEW amt \in Amounts \cup {NULL}, AdminDecide(u, l, a, amt)
        PROVE  Frozen
    BY <2>6, <2>l, SetLineFrozen, DecidedIsDone DEF AdminDecide
  <2>7. ASSUME NEW u \in Users, NEW l \in present, AdminReset(u, l)
        PROVE  Frozen
    <3>1. SetLine(l, ResetLine(line[l]))
      BY <2>7 DEF AdminReset
    <3>2. line[l].admin # NULL => ResetLine(line[l]).admin = "PENDING"
      BY <2>l, ResetTyped
    <3> QED BY <2>n, <3>1, <3>2, SetLineFrozen
  <2>8. ASSUME NEW u \in Users, NEW l \in present, ReturnLine(u, l)
        PROVE  Frozen
    <3>1. SetLine(l, ReturnedToGroup(line[l]))
      BY <2>8 DEF ReturnLine
    <3>2. line[l].admin # NULL => ReturnedToGroup(line[l]).admin = "PENDING"
      BY <2>l, ReturnedTyped
    <3> QED BY <2>n, <3>1, <3>2, SetLineFrozen
  <2>9. ASSUME NEW u \in Users, NEW l \in present, NEW g \in Groups, NEW q \in Amounts,
               ChangeAccount(u, l, g, q)
        PROVE  Frozen
    <3>1. SetLine(l, Rebooked(line[l], g, q))
      BY <2>9 DEF ChangeAccount
    <3>2. line[l].admin # NULL => Rebooked(line[l], g, q).admin = "PENDING"
      <4>1. line[l] \in LineRecord
        BY <2>l
      <4> QED BY <4>1, RebookedTyped, ZenonT(30)
    <3> QED BY <2>n, <3>1, <3>2, SetLineFrozen
  <2>10. ASSUME NEW u \in Users, NEW l \in Lines, NEW g \in Groups, NEW q \in Amounts,
                AddLine(u, l, g, q)
         PROVE  Frozen
    <3>1. \A k \in present : line'[k] = line[k]
      BY <2>10, <2>l DEF AddLine, IInv, TypeOK
    <3> QED BY <3>1 DEF Frozen
  <2>11. CASE Finalize
    <3>1. ASSUME NEW l \in present, line[l].admin \in AdminTerminal
          PROVE  line'[l] = line[l]
      <4>1. AdminResolved(line[l])
        BY <2>l, <3>1, DecidedIsDone
      <4> QED BY <2>l, <2>11, <4>1 DEF Finalize, FinalizedLine
    <3> QED BY <3>1 DEF Frozen
  <2>12. ASSUME NEW resetLines \in BOOLEAN, Unfinalize(resetLines)
         PROVE  Frozen
    <3>1. ASSUME NEW l \in present, line[l].admin \in AdminTerminal
          PROVE  line'[l] = line[l] \/ line'[l].admin = "PENDING"
      <4>1. line'[l] = IF resetLines THEN ResetLine(line[l]) ELSE line[l]
        BY <2>l, <2>12 DEF Unfinalize
      <4>2. line[l].admin # NULL
        BY <2>n, <3>1
      <4>3. ResetLine(line[l]).admin = "PENDING"
        BY <2>l, <4>2, ResetTyped
      <4> QED BY <4>1, <4>3
    <3> QED BY <3>1 DEF Frozen
  <2>13. \/ UNCHANGED line \/ status = "AWAITING_DISPATCH"
         \/ \E u \in Users, l \in present, a \in GroupActions, amt \in Amounts \cup {NULL} :
                GroupDecide(u, l, a, amt)
         \/ \E l \in present : Respond(l) \/ \E q \in Amounts : Adjust(l, q)
         \/ \E u \in Users : AdminStep(u)
         \/ Finalize \/ \E resetLines \in BOOLEAN : Unfinalize(resetLines)
    BY DEF Next, vars, Submit, Recall, Assign, Dispatch, Checkout, Checkin,
           ReleaseLock, Expire
  <2> QED BY <2>1, <2>2, <2>3, <2>4, <2>5, <2>6, <2>7, <2>8, <2>9, <2>10, <2>11,
             <2>12, <2>13 DEF AdminStep
<1>2. IInv /\ [Next]_vars =>
          \A l \in present :
              line[l].admin \in AdminTerminal =>
                  line'[l] = line[l] \/ line'[l].admin = "PENDING"
  BY <1>1 DEF Frozen
<1> QED BY <1>2, Invariance, PTL DEF Spec, DecidedLineIsFrozen

-----------------------------------------------------------------------------
(***************************************************************************)
(* Columns added up.                                                       *)
(***************************************************************************)

\* The element a fold takes first.
OneOf(s) == CHOOSE x \in s : TRUE

\* The function MapThenSumSet folds with.
Accumulates(g, w, S) ==
    g = [s \in SUBSET S |-> IF s = {} THEN 0 ELSE w[OneOf(s)] + g[s \ {OneOf(s)}]]

\* A sum is what the fold makes of the whole set.
LEMMA SumIsFold ==
    ASSUME NEW w, NEW S
    PROVE  SumOf(w, S) = (CHOOSE g : Accumulates(g, w, S))[S]
  BY DEF SumOf, MapThenSumSet, MapThenFoldSet, Accumulates, OneOf

\* A set of subsets of a finite set has a smallest member.
LEMMA Smallest ==
    ASSUME NEW S, IsFiniteSet(S), NEW B \in SUBSET SUBSET S, B # {}
    PROVE  \E T \in B : \A U \in B : U \subseteq T => U = T
  <1>1. IsWellFoundedOn(StrictSubsetOrdering(S), FiniteSubsetsOf(S))
    BY FS_StrictSubsetOrderingWellFounded
  <1>2. B \subseteq FiniteSubsetsOf(S)
    BY FS_FiniteSubsetsOfFinite
  <1>3. PICK T \in B : \A U \in B : ~(<<U, T>> \in StrictSubsetOrdering(S))
    BY <1>1, <1>2, WFMin
  <1> QED
    BY <1>3 DEF StrictSubsetOrdering

\* Induction over the naturals, for a set.
LEMMA AllNaturals ==
    ASSUME NEW B \in SUBSET Nat, 0 \in B, \A n \in B : n + 1 \in B
    PROVE  B = Nat
  <1> SUFFICES ASSUME Nat \ B # {} PROVE FALSE
    OBVIOUS
  <1>1. PICK n \in Nat \ B : \A m \in Nat \ B : ~(<<m, n>> \in OpToRel(<, Nat))
    BY NatLessThanWellFounded, WFMin
  <1>2. \A m \in Nat : m < n => m \in B
    BY <1>1 DEF OpToRel
  <1>3. n \in Nat /\ n \notin B /\ n # 0
    BY <1>1
  <1>4. PICK m \in Nat : n = m + 1
    BY <1>3
  <1>5. m \in B
    BY <1>2, <1>4
  <1> QED
    BY <1>3, <1>4, <1>5

\* A sum is defined: the recursion has a solution on the subsets of up to n
\* elements, for every n.
LEMMA SumDefined ==
    ASSUME NEW w, NEW S, IsFiniteSet(S)
    PROVE  \E g : Accumulates(g, w, S)
  <1> DEFINE Small(n) == {s \in SUBSET S : Cardinality(s) <= n}
             Upto(g, n) == g = [s \in Small(n) |->
                                  IF s = {} THEN 0 ELSE w[OneOf(s)] + g[s \ {OneOf(s)}]]
             P(n) == \E g : Upto(g, n)
  <1>1. P(0)
    <2> DEFINE g == [s \in Small(0) |-> 0]
    <2>1. \A s \in Small(0) : s = {}
      BY FS_Subset, FS_CardinalityType, FS_EmptySet
    <2>2. Upto(g, 0)
      BY <2>1
    <2> QED
      BY <2>2
  <1>2. ASSUME NEW n \in Nat, P(n) PROVE P(n + 1)
    <2>1. PICK g : Upto(g, n)
      BY <1>2
    <2> DEFINE V(s) == IF s = {} THEN 0 ELSE w[OneOf(s)] + g[s \ {OneOf(s)}]
               h == [s \in Small(n + 1) |-> V(s)]
    <2>2. ASSUME NEW s \in Small(n + 1), s # {}
          PROVE  s \ {OneOf(s)} \in Small(n)
      <3>1. IsFiniteSet(s) /\ OneOf(s) \in s
        BY <2>2, FS_Subset DEF OneOf
      <3>2. Cardinality(s \ {OneOf(s)}) = Cardinality(s) - 1 /\ Cardinality(s) \in Nat
        BY <3>1, FS_RemoveElement, FS_CardinalityType
      <3> QED
        BY <3>2
    <2>3. \A s \in Small(n) : g[s] = V(s)
      BY <2>1
    <2>4. Small(n) \subseteq Small(n + 1)
      BY FS_Subset, FS_CardinalityType
    <2>5. \A s \in Small(n) : h[s] = g[s]
      BY <2>3, <2>4
    <2> HIDE DEF Small
    <2>6. \A s \in Small(n + 1) : V(s) = IF s = {} THEN 0 ELSE w[OneOf(s)] + h[s \ {OneOf(s)}]
      BY <2>2, <2>5
    <2>7. Upto(h, n + 1)
      BY <2>6
    <2> QED
      BY <2>7
  <1> HIDE DEF P
  <1>3. ASSUME NEW n \in Nat PROVE P(n)
    <2> DEFINE B == {m \in Nat : P(m)}
    <2>1. 0 \in B
      BY <1>1
    <2>2. \A m \in B : m + 1 \in B
      BY <1>2
    <2> HIDE DEF B
    <2>3. B \in SUBSET Nat
      BY DEF B
    <2>4. B = Nat
      BY <2>1, <2>2, <2>3, AllNaturals
    <2> QED
      BY <2>4 DEF B
  <1>4. PICK g : Upto(g, Cardinality(S))
    BY <1>3, FS_CardinalityType DEF P
  <1>5. Small(Cardinality(S)) = SUBSET S
    BY FS_Subset
  <1> QED
    BY <1>4, <1>5 DEF Accumulates

\* Two solutions agree where both are defined.
LEMMA SumUnique ==
    ASSUME NEW w, NEW S, IsFiniteSet(S), NEW T \in SUBSET S,
           NEW g, Accumulates(g, w, S), NEW h, Accumulates(h, w, T)
    PROVE  \A s \in SUBSET T : g[s] = h[s]
  <1> DEFINE B == {s \in SUBSET T : g[s] # h[s]}
  <1>1. SUFFICES ASSUME B # {} PROVE FALSE
    OBVIOUS
  <1>2. IsFiniteSet(T)
    BY FS_Subset
  <1>3. PICK s \in B : \A u \in B : u \subseteq s => u = s
    <2>1. B \in SUBSET SUBSET T
      OBVIOUS
    <2> HIDE DEF B
    <2> QED
      BY <2>1, <1>1, <1>2, Smallest
  <1>4. /\ g[s] = IF s = {} THEN 0 ELSE w[OneOf(s)] + g[s \ {OneOf(s)}]
        /\ h[s] = IF s = {} THEN 0 ELSE w[OneOf(s)] + h[s \ {OneOf(s)}]
    BY DEF Accumulates
  <1>5. s # {}
    BY <1>4
  <1>6. OneOf(s) \in s
    BY <1>5 DEF OneOf
  <1>7. s \ {OneOf(s)} \notin B
    BY <1>3, <1>6
  <1> QED
    BY <1>4, <1>7

\* The sum, one element at a time.
LEMMA SumRecursive ==
    ASSUME NEW w, NEW S, IsFiniteSet(S)
    PROVE  SumOf(w, S) = IF S = {} THEN 0 ELSE w[OneOf(S)] + SumOf(w, S \ {OneOf(S)})
  <1> DEFINE It(T) == CHOOSE g : Accumulates(g, w, T)
             T == S \ {OneOf(S)}
  <1>1. IsFiniteSet(T)
    BY FS_Subset
  <1>2. Accumulates(It(S), w, S) /\ Accumulates(It(T), w, T)
    BY <1>1, SumDefined
  <1>3. SumOf(w, S) = It(S)[S] /\ SumOf(w, T) = It(T)[T]
    BY SumIsFold
  <1> HIDE DEF It
  <1>4. It(S)[T] = It(T)[T]
    <2>1. T \in SUBSET S /\ T \in SUBSET T
      OBVIOUS
    <2> HIDE DEF T
    <2>2. ASSUME NEW g, Accumulates(g, w, S), NEW h, Accumulates(h, w, T)
          PROVE  g[T] = h[T]
      BY <2>1, <2>2, SumUnique
    <2> QED
      BY <2>2, <1>2
  <1>5. It(S)[S] = IF S = {} THEN 0 ELSE w[OneOf(S)] + It(S)[T]
    BY <1>2 DEF Accumulates
  <1> QED
    BY <1>3, <1>4, <1>5

\* Induction over the subsets of a finite set.
LEMMA SetInduction ==
    ASSUME NEW S, IsFiniteSet(S), NEW B \in SUBSET SUBSET S,
           {} \in B, \A T \in B : \A x \in S \ T : T \cup {x} \in B
    PROVE  S \in B
  <1> SUFFICES ASSUME S \notin B PROVE FALSE
    OBVIOUS
  <1> DEFINE C == (SUBSET S) \ B
  <1>1. PICK T \in C : \A U \in C : U \subseteq T => U = T
    <2>1. C \in SUBSET SUBSET S /\ C # {}
      OBVIOUS
    <2> HIDE DEF C
    <2> QED
      BY <2>1, Smallest
  <1>2. PICK x \in T : TRUE
    BY <1>1
  <1>3. T \ {x} \in B
    BY <1>1, <1>2
  <1>4. (T \ {x}) \cup {x} = T /\ x \in S \ (T \ {x})
    BY <1>2
  <1>5. T \in B
    BY <1>3, <1>4
  <1> QED
    BY <1>1, <1>5

\* A sum of naturals is one, and does not depend on the order.
LEMMA SumAdd ==
    ASSUME NEW w, NEW S, IsFiniteSet(S), \A x \in S : w[x] \in Nat
    PROVE  /\ SumOf(w, S) \in Nat
           /\ \A x \in S : SumOf(w, S) = w[x] + SumOf(w, S \ {x})
  <1> DEFINE Good(T) == /\ SumOf(w, T) \in Nat
                        /\ \A x \in T : SumOf(w, T) = w[x] + SumOf(w, T \ {x})
             B == {T \in SUBSET S : ~Good(T)}
  <1>1. SUFFICES ASSUME B # {} PROVE FALSE
    OBVIOUS
  <1>2. PICK T \in B : \A U \in B : U \subseteq T => U = T
    <2>1. B \in SUBSET SUBSET S
      OBVIOUS
    <2> HIDE DEF B
    <2> QED
      BY <2>1, <1>1, Smallest
  <1>3. IsFiniteSet(T) /\ \A U \in SUBSET T : IsFiniteSet(U)
    BY FS_Subset
  <1>4. \A U \in SUBSET T : U # T => Good(U)
    BY <1>2
  <1>5. T # {}
    <2>1. SumOf(w, {}) = 0
      BY FS_EmptySet, SumRecursive
    <2>2. Good({})
      BY <2>1
    <2> HIDE DEF Good
    <2> QED
      BY <2>2, <1>2
  <1> DEFINE p == OneOf(T)
  <1>6. p \in T /\ SumOf(w, T) = w[p] + SumOf(w, T \ {p})
    BY <1>3, <1>5, SumRecursive DEF OneOf
  <1> HIDE DEF p
  <1>7. SumOf(w, T \ {p}) \in Nat /\ SumOf(w, T) \in Nat
    BY <1>4, <1>6
  <1>8. ASSUME NEW x \in T, x # p
        PROVE  SumOf(w, T) = w[x] + SumOf(w, T \ {x})
    <2>1. /\ T \ {p} # T /\ x \in T \ {p} /\ p \in T \ {x} /\ T \ {x} # T
          /\ (T \ {p}) \ {x} = (T \ {x}) \ {p} /\ (T \ {x}) \ {p} # T
      BY <1>6, <1>8
    <2>2. SumOf(w, T \ {p}) = w[x] + SumOf(w, (T \ {x}) \ {p})
      BY <2>1, <1>4
    <2>3. SumOf(w, T \ {x}) = w[p] + SumOf(w, (T \ {x}) \ {p})
      BY <2>1, <1>4
    <2>4. SumOf(w, (T \ {x}) \ {p}) \in Nat
      BY <2>1, <1>4
    <2>5. w[x] \in Nat /\ w[p] \in Nat
      BY <1>6
    <2> QED
      BY <2>2, <2>3, <2>4, <2>5, <1>6
  <1> QED
    BY <1>2, <1>6, <1>7, <1>8

\* Nothing adds up to 0.
LEMMA SumEmpty == \A w : SumOf(w, {}) = 0
  BY SumRecursive, FS_EmptySet

\* What induction over a finite set does for a sum: one more element.
LEMMA SumInsert ==
    ASSUME NEW w, NEW S, IsFiniteSet(S), NEW x, x \notin S, \A y \in S \cup {x} : w[y] \in Nat
    PROVE  SumOf(w, S \cup {x}) = w[x] + SumOf(w, S) /\ SumOf(w, S) \in Nat
  <1>1. IsFiniteSet(S \cup {x}) /\ (S \cup {x}) \ {x} = S
    BY FS_AddElement
  <1> QED
    BY <1>1, SumAdd

\* Two columns added line by line.
LEMMA SumPlus ==
    ASSUME NEW u, NEW v, NEW w, NEW S, IsFiniteSet(S),
           \A x \in S : v[x] \in Nat /\ w[x] \in Nat /\ u[x] = v[x] + w[x]
    PROVE  SumOf(u, S) = SumOf(v, S) + SumOf(w, S)
  <1> DEFINE B == {T \in SUBSET S : SumOf(u, T) = SumOf(v, T) + SumOf(w, T)}
  <1>1. {} \in B
    BY SumEmpty
  <1>2. ASSUME NEW T \in B, NEW x \in S \ T PROVE T \cup {x} \in B
    <2>1. IsFiniteSet(T) /\ T \cup {x} \subseteq S
      BY FS_Subset
    <2>2. \A y \in T \cup {x} : v[y] \in Nat /\ w[y] \in Nat /\ u[y] \in Nat
      BY <2>1
    <2>3. /\ SumOf(u, T \cup {x}) = u[x] + SumOf(u, T)
          /\ SumOf(v, T \cup {x}) = v[x] + SumOf(v, T) /\ SumOf(v, T) \in Nat
          /\ SumOf(w, T \cup {x}) = w[x] + SumOf(w, T) /\ SumOf(w, T) \in Nat
      BY <2>1, <2>2, SumInsert
    <2>4. SumOf(u, T) = SumOf(v, T) + SumOf(w, T)
      OBVIOUS
    <2>5. u[x] = v[x] + w[x] /\ v[x] \in Nat /\ w[x] \in Nat
      OBVIOUS
    <2>6. SumOf(u, T \cup {x}) = SumOf(v, T \cup {x}) + SumOf(w, T \cup {x})
      BY <2>3, <2>4, <2>5
    <2> QED
      BY <2>1, <2>6
  <1>3. B \in SUBSET SUBSET S
    OBVIOUS
  <1> HIDE DEF B
  <1>4. S \in B
    BY <1>1, <1>2, <1>3, SetInduction
  <1> QED
    BY <1>4 DEF B

\* So do zeros.
LEMMA SumNothing ==
    ASSUME NEW w, NEW S, IsFiniteSet(S), \A x \in S : w[x] = 0
    PROVE  SumOf(w, S) = 0
  <1>1. SumOf(w, S) = SumOf(w, S) + SumOf(w, S)
    BY SumPlus
  <1>2. SumOf(w, S) \in Nat
    BY SumAdd
  <1>3. \A n \in Nat : n = n + n => n = 0
    OBVIOUS
  <1> QED
    BY <1>1, <1>2, <1>3, Zenon

\* Columns that agree on a set have one sum over it.
LEMMA SumSame ==
    ASSUME NEW u, NEW v, NEW S, IsFiniteSet(S), \A x \in S : v[x] \in Nat /\ u[x] = v[x]
    PROVE  SumOf(u, S) = SumOf(v, S)
  <1> DEFINE w == [x \in S |-> 0]
  <1>1. SumOf(w, S) = 0
    BY SumNothing
  <1>2. \A x \in S : v[x] \in Nat /\ w[x] \in Nat /\ u[x] = v[x] + w[x]
    OBVIOUS
  <1> HIDE DEF w
  <1>3. SumOf(u, S) = SumOf(v, S) + SumOf(w, S)
    BY <1>2, SumPlus
  <1>4. SumOf(v, S) \in Nat
    BY SumAdd
  <1> QED
    BY <1>1, <1>3, <1>4

\* Counting is summing ones.
LEMMA SumOfOnes ==
    ASSUME NEW w, NEW S, IsFiniteSet(S), \A x \in S : w[x] = 1
    PROVE  SumOf(w, S) = Cardinality(S)
  <1> DEFINE B == {T \in SUBSET S : SumOf(w, T) = Cardinality(T)}
  <1>1. {} \in B
    BY SumEmpty, FS_EmptySet
  <1>2. ASSUME NEW T \in B, NEW x \in S \ T PROVE T \cup {x} \in B
    <2>1. IsFiniteSet(T) /\ T \cup {x} \subseteq S
      BY FS_Subset
    <2>2. \A y \in T \cup {x} : w[y] \in Nat
      BY <2>1
    <2>3. SumOf(w, T \cup {x}) = w[x] + SumOf(w, T)
      BY <2>1, <2>2, SumInsert
    <2>4. Cardinality(T \cup {x}) = Cardinality(T) + 1 /\ Cardinality(T) \in Nat
      BY <2>1, FS_AddElement, FS_CardinalityType
    <2>5. w[x] = 1 /\ SumOf(w, T) = Cardinality(T)
      OBVIOUS
    <2> QED
      BY <2>1, <2>3, <2>4, <2>5
  <1>3. B \in SUBSET SUBSET S
    OBVIOUS
  <1> HIDE DEF B
  <1>4. S \in B
    BY <1>1, <1>2, <1>3, SetInduction
  <1> QED
    BY <1>4 DEF B

\* Two disjoint parts.
LEMMA SumSplit ==
    ASSUME NEW w, NEW S, NEW U, IsFiniteSet(S), IsFiniteSet(U), S \cap U = {},
           \A x \in S \cup U : w[x] \in Nat
    PROVE  SumOf(w, S \cup U) = SumOf(w, S) + SumOf(w, U)
  <1> DEFINE B == {T \in SUBSET S : SumOf(w, T \cup U) = SumOf(w, T) + SumOf(w, U)}
  <1>0. SumOf(w, U) \in Nat
    BY SumAdd
  <1>1. {} \in B
    <2>1. {} \cup U = U
      OBVIOUS
    <2> QED
      BY <1>0, <2>1, SumEmpty
  <1>2. ASSUME NEW T \in B, NEW x \in S \ T PROVE T \cup {x} \in B
    <2>1. IsFiniteSet(T) /\ IsFiniteSet(T \cup U) /\ T \cup {x} \subseteq S
      BY FS_Subset, FS_Union
    <2>2. x \notin T \cup U /\ (T \cup {x}) \cup U = (T \cup U) \cup {x}
      OBVIOUS
    <2>3. \A y \in (T \cup U) \cup {x} : w[y] \in Nat
      BY <2>1
    <2>4. SumOf(w, (T \cup {x}) \cup U) = w[x] + SumOf(w, T \cup U)
      BY <2>1, <2>2, <2>3, SumInsert
    <2>5. SumOf(w, T \cup {x}) = w[x] + SumOf(w, T) /\ SumOf(w, T) \in Nat
      BY <2>1, <2>3, SumInsert
    <2>6. SumOf(w, T \cup U) = SumOf(w, T) + SumOf(w, U) /\ w[x] \in Nat
      OBVIOUS
    <2> QED
      BY <1>0, <2>1, <2>4, <2>5, <2>6
  <1>3. B \in SUBSET SUBSET S
    OBVIOUS
  <1> HIDE DEF B
  <1>4. S \in B
    BY <1>1, <1>2, <1>3, SetInduction
  <1> QED
    BY <1>4 DEF B

\* Bucket by bucket: part[k] are disjoint parts of S.
LEMMA SumByBucket ==
    ASSUME NEW w, NEW S, IsFiniteSet(S), \A x \in S : w[x] \in Nat,
           NEW K, IsFiniteSet(K), NEW part, \A k \in K : part[k] \subseteq S,
           \A j, k \in K : j # k => part[j] \cap part[k] = {},
           NEW total, \A k \in K : total[k] = SumOf(w, part[k])
    PROVE  SumOf(total, K) = SumOf(w, UNION {part[k] : k \in K})
  <1> DEFINE All(J) == UNION {part[k] : k \in J}
             B == {J \in SUBSET K : SumOf(total, J) = SumOf(w, All(J))}
  <1>1. {} \in B
    BY SumEmpty
  <1>2. ASSUME NEW J \in B, NEW k \in K \ J PROVE J \cup {k} \in B
    <2>1. IsFiniteSet(J) /\ J \cup {k} \subseteq K
      BY FS_Subset
    <2>2. All(J) \subseteq S /\ part[k] \subseteq S /\ All(J) \cap part[k] = {}
      OBVIOUS
    <2>3. All(J \cup {k}) = All(J) \cup part[k]
      OBVIOUS
    <2>4. IsFiniteSet(All(J)) /\ IsFiniteSet(part[k])
      BY <2>2, FS_Subset
    <2>5. \A j \in K : total[j] \in Nat
      <3> TAKE j \in K
      <3>1. IsFiniteSet(part[j]) /\ \A x \in part[j] : w[x] \in Nat
        BY FS_Subset
      <3> QED
        BY <3>1, SumAdd
    <2>6. SumOf(total, J \cup {k}) = total[k] + SumOf(total, J)
      BY <2>1, <2>5, SumInsert
    <2>7. SumOf(total, J) = SumOf(w, All(J)) /\ total[k] = SumOf(w, part[k])
      OBVIOUS
    <2>8. \A x \in All(J) \cup part[k] : w[x] \in Nat
      BY <2>2
    <2> HIDE DEF All
    <2>9. SumOf(w, All(J) \cup part[k]) = SumOf(w, All(J)) + SumOf(w, part[k])
      BY <2>2, <2>4, <2>8, SumSplit
    <2>10. SumOf(w, All(J)) \in Nat /\ SumOf(w, part[k]) \in Nat
      BY <2>4, <2>8, SumAdd
    <2>11. SumOf(total, J \cup {k}) = SumOf(w, All(J \cup {k}))
      <3>1. \A m, n \in Nat : m + n = n + m
        OBVIOUS
      <3> QED
        BY <2>3, <2>6, <2>7, <2>9, <2>10, <3>1, Zenon
    <2> QED
      BY <2>1, <2>11
  <1>3. B \in SUBSET SUBSET K
    OBVIOUS
  <1> HIDE DEF B
  <1>4. K \in B
    BY <1>1, <1>2, <1>3, SetInduction
  <1> QED
    BY <1>4 DEF B

-----------------------------------------------------------------------------
(***************************************************************************)
(* Queues and reports.                                                     *)
(***************************************************************************)

\* The request's lines are finitely many, and typed.
LEMMA LinesTyped ==
    ASSUME IInv
    PROVE  /\ IsFiniteSet(present) /\ present \subseteq Lines
           /\ \A l \in present : line[l] \in LineRecord
<1>1. present \subseteq Lines
  BY DEF IInv, TypeOK
<1> QED BY <1>1, ReportsAssumption, FS_Subset DEF IInv, TypeOK

\* A queue that counts something has something.
LEMMA CountedIsThere ==
    ASSUME IInv, NEW S
    PROVE  CountOf(S) > 0 <=> \E l \in present : line[l].status \in S
<1> DEFINE T == {l \in present : line[l].status \in S}
<1>1. IsFiniteSet(T)
  BY LinesTyped, FS_Subset
<1>2. CountOf(S) = Cardinality(T)
  BY DEF CountOf, LinesThat
<1>3. Cardinality(T) \in Nat /\ (Cardinality(T) = 0 <=> T = {})
  BY <1>1, FS_CardinalityType, FS_EmptySet
<1> HIDE DEF T
<1>4. CountOf(S) > 0 <=> T # {}
  BY <1>2, <1>3
<1> QED BY <1>4 DEF T

\* While a request is under review, every line that no admin has decided and the
\* group has not rejected is in a queue of its group or of the admins.
THEOREM QueuesForgetNoLine == Spec => []NoLineIsForgotten
<1>1. ASSUME IInv PROVE NoLineIsForgotten
  <2> SUFFICES ASSUME status = "SUBMITTED", NEW l \in present,
                      line[l].admin \notin AdminTerminal, line[l].ag # "REJECTED"
               PROVE  Listed(l)
    BY DEF NoLineIsForgotten
  <2>1. line[l] \in LineRecord /\ line[l].ag # NULL
    BY <1>1, LineFacts DEF WasRouted
  <2>2. line[l].ag \in {"PENDING", "APPROVED", "APPROVED_NEEDS_REVIEW"} \cup Kickbacks
    BY <2>1 DEF LineRecord, ReviewStatus, GroupTerminal
  <2>3. line[l].admin \in {NULL, "PENDING", "NEEDS_INFO"}
    BY <2>1 DEF LineRecord, AdminStatus
  <2>4. CASE line[l].ag = "PENDING"
    BY <2>4 DEF Listed, GroupPending, LinesThat
  <2>5. CASE line[l].ag \in Kickbacks
    BY <2>5 DEF Listed, GroupKickedBack, LinesThat
  <2>6. CASE line[l].admin = "PENDING"
    BY <2>6 DEF Listed, ReadyForReview, AdminReady, LinesThat
  <2>7. CASE line[l].admin = "NEEDS_INFO"
    BY <2>7 DEF Listed, AdminKickedBack, Kickbacks, LinesThat
  <2>8. CASE line[l].admin = NULL /\ line[l].ag \in {"APPROVED", "APPROVED_NEEDS_REVIEW"}
    BY <2>8 DEF Listed, ReadyForReview, AdminReady, LinesThat
  <2> QED BY <2>2, <2>3, <2>4, <2>5, <2>6, <2>7, <2>8
<1> QED BY <1>1, Invariance, PTL

\* A department is told to respond exactly while some line accepts a response,
\* and never while the admins could finalize.
THEOREM ShownStatusAlwaysActionable == Spec => []ShownStatusIsActionable
<1>1. ASSUME IInv PROVE ShownStatusIsActionable
  <2> SUFFICES ASSUME status = "SUBMITTED"
               PROVE  /\ EffectiveStatus \in AsksForResponse <=>
                            \E l \in present : RequesterMayRespond(line[l])
                      /\ EffectiveStatus \in AsksForResponse => ~CanFinalize
    BY DEF ShownStatusIsActionable
  <2> DEFINE asked == \E l \in present : line[l].status \in Kickbacks
  <2>1. \A k \in Kickbacks : CountOf({k}) > 0 <=> \E l \in present : line[l].status = k
    BY <1>1, CountedIsThere
  <2>2. EffectiveStatus \in AsksForResponse <=> asked
    <3>1. CASE asked
      <4>1. CountOf({"NEEDS_INFO"}) > 0 \/ CountOf({"NEEDS_ADJUSTMENT"}) > 0
        BY <2>1, <3>1 DEF Kickbacks
      <4> QED BY <3>1, <4>1 DEF EffectiveStatus, AsksForResponse, Kickbacks
    <3>2. CASE ~asked
      <4>1. /\ ~(CountOf({"NEEDS_INFO"}) > 0) /\ ~(CountOf({"NEEDS_ADJUSTMENT"}) > 0)
            /\ ~(\A k \in Kickbacks : CountOf({k}) > 0)
        BY <2>1, <3>2 DEF Kickbacks
      <4> QED BY <3>2, <4>1 DEF EffectiveStatus, AsksForResponse, Kickbacks
    <3> QED BY <3>1, <3>2
  <2>3. \A l \in present : RequesterMayRespond(line[l]) <=> line[l].status \in Kickbacks
    BY <1>1, LineFacts DEF LineInv, FlagAnswerable, RequesterMayRespond
  <2> QED BY <2>2, <2>3 DEF CanFinalize
<1> QED BY <1>1, Invariance, PTL

\* The columns the reports add up.
LEMMA ColumnsTyped ==
    ASSUME IInv, NEW l \in present
    PROVE  /\ RequestedOf[l] = line[l].requested /\ RequestedOf[l] \in Nat
           /\ ApprovedOf[l] = (IF line[l].amount = NULL THEN 0 ELSE line[l].amount)
           /\ ApprovedOf[l] \in Nat
           /\ CoalescedOf[l] = (IF line[l].amount = NULL THEN line[l].requested
                                ELSE line[l].amount)
           /\ CoalescedOf[l] \in Nat
           /\ line[l].status # "APPROVED" => ApprovedOf[l] = 0
<1>1. l \in Lines /\ line[l] \in LineRecord
  BY LinesTyped
<1>2. line[l].requested \in Nat /\ (line[l].amount # NULL => line[l].amount \in Nat)
  BY <1>1, LineAssumption DEF LineRecord
<1>3. line[l].status # "APPROVED" => line[l].amount \in {NULL, 0}
  BY LineFacts DEF LineInv, WorthNothing
<1> QED BY <1>1, <1>2, <1>3 DEF RequestedOf, ApprovedOf, CoalescedOf

\* Only approved lines carry money, so adding it up over all lines or over the
\* approved ones is the same.
LEMMA OnlyApprovedCount ==
    ASSUME IInv, NEW S \in SUBSET present
    PROVE  /\ SumOf(ApprovedOf, S) =
                 SumOf(ApprovedOf, {l \in S : line[l].status = "APPROVED"})
           /\ SumOf(ApprovedOf, S) \in Nat
<1> DEFINE A == {l \in S : line[l].status = "APPROVED"}
           R == {l \in S : line[l].status # "APPROVED"}
<1>1. IsFiniteSet(S) /\ IsFiniteSet(A) /\ IsFiniteSet(R)
  BY LinesTyped, FS_Subset
<1>2. A \cup R = S /\ A \cap R = {} /\ A \subseteq present
  OBVIOUS
<1>3. \A l \in A \cup R : ApprovedOf[l] \in Nat
  BY ColumnsTyped
<1>4. \A l \in R : ApprovedOf[l] = 0
  BY ColumnsTyped
<1> HIDE DEF A, R
<1>5. SumOf(ApprovedOf, R) = 0
  BY <1>1, <1>4, SumNothing
<1>6. SumOf(ApprovedOf, A) \in Nat
  BY <1>1, <1>3, SumAdd
<1>7. SumOf(ApprovedOf, A \cup R) = SumOf(ApprovedOf, A) + SumOf(ApprovedOf, R)
  BY <1>1, <1>2, <1>3, SumSplit
<1>8. SumOf(ApprovedOf, S) = SumOf(ApprovedOf, A)
  BY <1>2, <1>5, <1>6, <1>7
<1> QED BY <1>6, <1>8 DEF A

\* A verdict counts from the moment it is given.
LEMMA VerdictsCount == ASSUME IInv PROVE VerdictsAreCounted
<1> SUFFICES ASSUME status # "DRAFT", NEW l \in present, line[l].admin \in AdminTerminal
             PROVE  /\ PipelineBucket(l) = line[l].admin
                    /\ line[l].admin = "APPROVED" => CoalescedOf[l] = line[l].adminAmount
  BY DEF VerdictsAreCounted
<1>1. DecisionStands(line[l])
  BY LineFacts
<1>2. PipelineBucket(l) = line[l].admin
  BY <1>1 DEF DecisionStands, PipelineBucket
<1>3. line[l].admin = "APPROVED" => CoalescedOf[l] = line[l].adminAmount
  BY <1>1, ColumnsTyped DEF DecisionStands
<1> QED BY <1>2, <1>3

\* What the SQL reports ask for, bucket by bucket, is what the page asks for.
LEMMA BucketsCoverRequests ==
    ASSUME IInv
    PROVE  DepartmentRow.totals.requested + DepartmentRow.totals.draft
               = WorkItemTotals.requested
<1> DEFINE D == InBucket("DRAFT")
           I == InBucket("IN_REVIEW")
           A == InBucket("APPROVED")
           R == InBucket("REJECTED")
<1>1. /\ D \cap (I \cup (A \cup R)) = {} /\ I \cap (A \cup R) = {} /\ A \cap R = {}
      /\ present = D \cup (I \cup (A \cup R))
  BY DEF InBucket, PipelineBucket, AdminTerminal
<1>2. IsFiniteSet(D) /\ IsFiniteSet(I) /\ IsFiniteSet(A) /\ IsFiniteSet(R)
  BY LinesTyped, FS_Subset DEF InBucket
<1>3. \A l \in D \cup (I \cup (A \cup R)) : RequestedOf[l] \in Nat
  BY <1>1, ColumnsTyped
<1>4. DepartmentRow.totals.requested + DepartmentRow.totals.draft =
        SumOf(RequestedOf, I) + SumOf(RequestedOf, A) + SumOf(RequestedOf, R)
          + SumOf(RequestedOf, D)
  BY DEF DepartmentRow, PipelineTotals
<1>5. WorkItemTotals.requested = SumOf(RequestedOf, present)
  BY DEF WorkItemTotals, TotalsOver
<1> HIDE DEF D, I, A, R
<1>6. IsFiniteSet(A \cup R) /\ IsFiniteSet(I \cup (A \cup R))
  BY <1>2, FS_Union
<1>7. SumOf(RequestedOf, A \cup R) = SumOf(RequestedOf, A) + SumOf(RequestedOf, R)
  BY <1>1, <1>2, <1>3, SumSplit
<1>8. SumOf(RequestedOf, I \cup (A \cup R)) = SumOf(RequestedOf, I) + SumOf(RequestedOf, A \cup R)
  BY <1>1, <1>2, <1>3, <1>6, SumSplit
<1>9. SumOf(RequestedOf, D \cup (I \cup (A \cup R))) =
        SumOf(RequestedOf, D) + SumOf(RequestedOf, I \cup (A \cup R))
  BY <1>1, <1>2, <1>3, <1>6, SumSplit
<1>10. /\ SumOf(RequestedOf, D) \in Nat /\ SumOf(RequestedOf, I) \in Nat
       /\ SumOf(RequestedOf, A) \in Nat /\ SumOf(RequestedOf, R) \in Nat
  BY <1>2, <1>3, SumAdd
<1> QED BY <1>1, <1>4, <1>5, <1>7, <1>8, <1>9, <1>10

\* The group subtotals, bucket by bucket, are the page's totals.
LEMMA SubtotalsAddUp == ASSUME IInv PROVE SubtotalsOver(present) = WorkItemTotals
<1> DEFINE K == SubtotalKeys(present)
           part == [g \in K |-> {l \in present : line[l].group = g}]
           won == [g \in K |-> {l \in part[g] : line[l].status = "APPROVED"}]
           asked == [g \in K |-> GroupSubtotals(present)[g].requested]
           got == [g \in K |-> GroupSubtotals(present)[g].approved]
           A == {l \in present : line[l].status = "APPROVED"}
<1>1. IsFiniteSet(present) /\ IsFiniteSet(A) /\ IsFiniteSet(K)
  <2>1. K \subseteq Groups \cup {NULL}
    BY LinesTyped DEF SubtotalKeys, LineRecord
  <2>2. IsFiniteSet(Groups \cup {NULL})
    BY ReportsAssumption, FS_AddElement
  <2> HIDE DEF K
  <2> QED BY <2>1, <2>2, LinesTyped, FS_Subset
<1>2. /\ \A g \in K : part[g] \subseteq present /\ won[g] \subseteq A
      /\ \A g, h \in K : g # h => part[g] \cap part[h] = {} /\ won[g] \cap won[h] = {}
      /\ UNION {part[g] : g \in K} = present /\ UNION {won[g] : g \in K} = A
  <2>1. \A l \in present : line[l].group \in K
    BY DEF SubtotalKeys
  <2> HIDE DEF K
  <2> QED BY <2>1
<1>3. /\ \A l \in present : RequestedOf[l] \in Nat
      /\ \A l \in A : ApprovedOf[l] \in Nat
  BY ColumnsTyped
<1>4. \A g \in K : /\ asked[g] = SumOf(RequestedOf, part[g])
                   /\ got[g] = SumOf(ApprovedOf, won[g])
  BY DEF GroupSubtotals, TotalsOver
<1>5. /\ SubtotalsOver(present) = [requested |-> SumOf(asked, K), approved |-> SumOf(got, K)]
      /\ WorkItemTotals = [requested |-> SumOf(RequestedOf, present),
                           approved |-> SumOf(ApprovedOf, A)]
  BY DEF SubtotalsOver, WorkItemTotals, TotalsOver
<1> HIDE DEF K, part, won, asked, got, A
<1>6. SumOf(asked, K) = SumOf(RequestedOf, UNION {part[g] : g \in K})
  <2>1. \A g \in K : part[g] \subseteq present
    BY <1>2
  <2>2. \A g, h \in K : g # h => part[g] \cap part[h] = {}
    BY <1>2
  <2>3. \A g \in K : asked[g] = SumOf(RequestedOf, part[g])
    BY <1>4
  <2> QED BY <1>1, <1>3, <2>1, <2>2, <2>3, SumByBucket
<1>7. SumOf(got, K) = SumOf(ApprovedOf, UNION {won[g] : g \in K})
  <2>1. \A g \in K : won[g] \subseteq A
    BY <1>2
  <2>2. \A g, h \in K : g # h => won[g] \cap won[h] = {}
    BY <1>2
  <2>3. \A g \in K : got[g] = SumOf(ApprovedOf, won[g])
    BY <1>4
  <2> QED BY <1>1, <1>3, <2>1, <2>2, <2>3, SumByBucket
<1> QED BY <1>2, <1>5, <1>6, <1>7

\* Of a finalized request the SQL reports exceed the page by the approvals that
\* carry no amount.
LEMMA FinalizedExcess ==
    ASSUME IInv, status = "FINALIZED"
    PROVE  DepartmentRow.totals.approved - WorkItemTotals.approved
               = SumOf(RequestedOf, {l \in present :
                           line[l].status = "APPROVED" /\ line[l].amount = NULL})
<1> DEFINE A == {l \in present : line[l].status = "APPROVED"}
           N == {l \in present : line[l].status = "APPROVED" /\ line[l].amount = NULL}
           M == {l \in present : line[l].status = "APPROVED" /\ line[l].amount # NULL}
           missing == [l \in Lines |-> IF line[l].amount = NULL THEN line[l].requested ELSE 0]
<1>1. IsFiniteSet(A) /\ IsFiniteSet(N) /\ IsFiniteSet(M)
  BY LinesTyped, FS_Subset
<1>2. A = N \cup M /\ N \cap M = {}
  OBVIOUS
<1>3. \A l \in A : /\ ApprovedOf[l] \in Nat /\ missing[l] \in Nat
                   /\ CoalescedOf[l] = ApprovedOf[l] + missing[l]
  <2> TAKE l \in A
  <2>1. missing[l] = IF line[l].amount = NULL THEN line[l].requested ELSE 0
    BY LinesTyped
  <2> QED BY <2>1, ColumnsTyped
<1>4. /\ \A l \in N : missing[l] = RequestedOf[l] /\ RequestedOf[l] \in Nat
      /\ \A l \in M : missing[l] = 0
  BY LinesTyped, ColumnsTyped
<1>5. DepartmentRow.totals.approved = SumOf(CoalescedOf, A)
  <2>1. InBucket("APPROVED") = A
    BY DEF InBucket, PipelineBucket, AdminTerminal
  <2> QED BY <2>1 DEF DepartmentRow, PipelineTotals
<1>6. WorkItemTotals.approved = SumOf(ApprovedOf, A)
  BY DEF WorkItemTotals, TotalsOver
<1> HIDE DEF A, N, M, missing
<1>7. SumOf(CoalescedOf, A) = SumOf(ApprovedOf, A) + SumOf(missing, A)
  BY <1>1, <1>3, SumPlus
<1>8. SumOf(missing, A) = SumOf(missing, N) + SumOf(missing, M)
  BY <1>1, <1>2, <1>3, SumSplit
<1>9. SumOf(missing, M) = 0
  BY <1>1, <1>4, SumNothing
<1>10. SumOf(missing, N) = SumOf(RequestedOf, N)
  BY <1>1, <1>4, SumSame
<1>11. SumOf(ApprovedOf, A) \in Nat /\ SumOf(RequestedOf, N) \in Nat
  BY <1>1, <1>3, <1>4, SumAdd
<1>12. SumOf(CoalescedOf, A) - SumOf(ApprovedOf, A) = SumOf(RequestedOf, N)
  BY <1>7, <1>8, <1>9, <1>10, <1>11
<1> QED BY <1>5, <1>6, <1>12 DEF N

\* The same money on every page.
LEMMA MoneyReconciles == ASSUME IInv PROVE TotalsReconcile
<1>1. WorkItemTotals.approved = SumOf(ApprovedOf, present)
  BY OnlyApprovedCount DEF WorkItemTotals, TotalsOver
<1>2. LineReport.approved = WorkItemTotals.approved
  BY <1>1 DEF LineReport
<1>3. status = "FINALIZED" => BoardTopline = WorkItemTotals.approved
  BY <1>1 DEF BoardTopline
<1> QED BY <1>2, <1>3, BucketsCoverRequests, SubtotalsAddUp, FinalizedExcess DEF TotalsReconcile

\* A finite set in two or three parts.
LEMMA TwoParts ==
    ASSUME NEW S, NEW T, IsFiniteSet(S), IsFiniteSet(T), S \cap T = {}
    PROVE  /\ IsFiniteSet(S \cup T)
           /\ Cardinality(S \cup T) = Cardinality(S) + Cardinality(T)
           /\ Cardinality(S) \in Nat /\ Cardinality(T) \in Nat
<1>1. Cardinality(S) \in Nat /\ Cardinality(T) \in Nat /\ Cardinality({}) = 0
  BY FS_CardinalityType, FS_EmptySet
<1>2. /\ IsFiniteSet(S \cup T)
      /\ Cardinality(S \cup T) = Cardinality(S) + Cardinality(T) - Cardinality({})
  BY FS_Union
<1> QED BY <1>1, <1>2

\* What the queue has waiting is what the progress bar has pending.
LEMMA ProgressMatchesQueue ==
    ASSUME IInv, NEW g \in Groups
    PROVE  GroupProgress(g).pending = PendingRequest(g).pending
<1> DEFINE rows == {l \in present : line[l].group = g /\ line[l].ag # NULL}
           D == {l \in rows : line[l].ag \in GroupTerminal}
           W == {l \in rows : line[l].ag \in Kickbacks}
           P == {l \in present : line[l].group = g /\ line[l].ag = "PENDING"}
<1>1. IsFiniteSet(D) /\ IsFiniteSet(W) /\ IsFiniteSet(P)
  BY LinesTyped, FS_Subset
<1>2. rows = D \cup (W \cup P) /\ W \cap P = {} /\ D \cap (W \cup P) = {}
  BY LinesTyped, LineAssumption DEF LineRecord, ReviewStatus, GroupTerminal, Kickbacks
<1>3. /\ GroupProgress(g).pending = Cardinality(rows) - Cardinality(D) - Cardinality(W)
      /\ PendingRequest(g).pending = Cardinality(P)
  BY DEF GroupProgress, PendingRequest, GroupPending, LinesThat
<1> HIDE DEF rows, D, W, P
<1>4. IsFiniteSet(W \cup P) /\ Cardinality(W \cup P) = Cardinality(W) + Cardinality(P)
  BY <1>1, <1>2, TwoParts
<1>5. /\ Cardinality(rows) = Cardinality(D) + Cardinality(W \cup P)
      /\ Cardinality(D) \in Nat /\ Cardinality(W) \in Nat /\ Cardinality(P) \in Nat
  BY <1>1, <1>2, <1>4, TwoParts
<1> QED BY <1>3, <1>4, <1>5

\* Each line is in one column of its row of the reviewer-group report.
LEMMA OverviewAddsUp ==
    ASSUME IInv, NEW g
    PROVE  LET o == GroupOverview(g)
           IN  o.lines = o.pending + o.needsInfo + o.approved + o.rejected
<1> DEFINE mine == {l \in present : EffectiveGroup(l) = g}
           P == {l \in mine : line[l].status \in {"PENDING"}}
           N == {l \in mine : line[l].status \in Kickbacks}
           A == {l \in mine : line[l].status \in {"APPROVED", "APPROVED_NEEDS_REVIEW"}}
           R == {l \in mine : line[l].status \in {"REJECTED"}}
           o == GroupOverview(g)
<1>1. IsFiniteSet(P) /\ IsFiniteSet(N) /\ IsFiniteSet(A) /\ IsFiniteSet(R)
  BY LinesTyped, FS_Subset
<1>2. /\ mine = (P \cup N) \cup (A \cup R)
      /\ P \cap N = {} /\ A \cap R = {} /\ (P \cup N) \cap (A \cup R) = {}
  BY LinesTyped DEF LineRecord, ReviewStatus, GroupTerminal, Kickbacks
<1>3. /\ o.lines = Cardinality(mine)
      /\ o.pending = Cardinality(P) /\ o.needsInfo = Cardinality(N)
      /\ o.approved = Cardinality(A) /\ o.rejected = Cardinality(R)
  BY DEF GroupOverview
<1> HIDE DEF mine, P, N, A, R, o
<1>4. /\ IsFiniteSet(P \cup N) /\ Cardinality(P \cup N) = Cardinality(P) + Cardinality(N)
      /\ Cardinality(P) \in Nat /\ Cardinality(N) \in Nat
  BY <1>1, <1>2, TwoParts
<1>5. /\ IsFiniteSet(A \cup R) /\ Cardinality(A \cup R) = Cardinality(A) + Cardinality(R)
      /\ Cardinality(A) \in Nat /\ Cardinality(R) \in Nat
  BY <1>1, <1>2, TwoParts
<1>6. Cardinality(mine) = Cardinality(P \cup N) + Cardinality(A \cup R)
  BY <1>2, <1>4, <1>5, TwoParts
<1> QED BY <1>3, <1>4, <1>5, <1>6 DEF o

\* Each line is in one row of the reviewer-group report.
LEMMA OverviewsCover ==
    ASSUME IInv
    PROVE  SumOf([g \in Groups \cup {NULL} |-> GroupOverview(g).lines], Groups \cup {NULL})
               = Cardinality(present)
<1> DEFINE K == Groups \cup {NULL}
           part == [g \in K |-> {l \in present : EffectiveGroup(l) = g}]
           lines == [g \in K |-> GroupOverview(g).lines]
           one == [l \in present |-> 1]
<1>1. IsFiniteSet(present) /\ IsFiniteSet(K)
  BY LinesTyped, ReportsAssumption, FS_AddElement
<1>2. \A l \in present : EffectiveGroup(l) \in K
  BY LinesTyped, ReportsAssumption DEF EffectiveGroup, LineRecord
<1>3. \A g \in K : lines[g] = Cardinality(part[g])
  BY DEF GroupOverview
<1>4. \A l \in present : one[l] = 1 /\ one[l] \in Nat
  OBVIOUS
<1> HIDE DEF K, lines, one
<1>5. /\ \A g \in K : part[g] \subseteq present
      /\ \A g, h \in K : g # h => part[g] \cap part[h] = {}
      /\ UNION {part[g] : g \in K} = present
  BY <1>2
<1> HIDE DEF part
<1>6. ASSUME NEW g \in K PROVE lines[g] = SumOf(one, part[g])
  <2>1. IsFiniteSet(part[g]) /\ \A l \in part[g] : one[l] = 1
    BY <1>1, <1>4, <1>5, <1>6, FS_Subset
  <2> QED BY <1>3, <1>6, <2>1, SumOfOnes
<1>7. SumOf(lines, K) = SumOf(one, UNION {part[g] : g \in K})
  BY <1>1, <1>4, <1>5, <1>6, SumByBucket
<1>8. SumOf(one, present) = Cardinality(present)
  BY <1>1, <1>4, SumOfOnes
<1> QED BY <1>5, <1>7, <1>8 DEF lines, K

\* Queues, progress bars, totals, the pipeline and the reviewer-group report
\* tell one story of a request: verdicts count from the moment they are given,
\* every page has the same money, and the tallies add up, for any number of
\* lines and groups and any amounts.
THEOREM ReportsAlwaysAgree == Spec => []ReportsAgree
<1>1. ASSUME IInv PROVE ReportsAgree
  <2>1. TalliesAddUp
    BY <1>1, ProgressMatchesQueue, OverviewAddsUp, OverviewsCover DEF TalliesAddUp
  <2> QED BY <1>1, <2>1, VerdictsCount, MoneyReconciles DEF ReportsAgree
<1> QED BY <1>1, Invariance, PTL
=============================================================================
