----------------------------- MODULE BudgetLine -----------------------------
(***************************************************************************)
(* One line of a BUDGET request and its two reviews: the columns of        *)
(* WorkLine, of its APPROVAL_GROUP WorkLineReview (ag) and of its          *)
(* ADMIN_FINAL WorkLineReview (admin), as one record, and what each review *)
(* operation does to that record.  Pure operators, no state: BudgetReview  *)
(* decides when an operation may run, this module what it does.            *)
(*                                                                         *)
(* A review that has no row is NULL.  The AG row always belongs to the     *)
(* routed group, so the group is one field.                                *)
(***************************************************************************)
EXTENDS Naturals, FiniteSetsExt

CONSTANTS
    Groups,     \* approval groups
    Amounts,    \* amounts in cents a line can be requested or approved at
    NULL        \* SQL NULL, and "no review row"

Kickbacks     == {"NEEDS_INFO", "NEEDS_ADJUSTMENT"}
AdminTerminal == {"APPROVED", "REJECTED"}
GroupTerminal == {"APPROVED", "REJECTED", "APPROVED_NEEDS_REVIEW"}
ReviewStatus  == {"PENDING"} \cup Kickbacks \cup GroupTerminal
AdminStatus   == {"PENDING", "NEEDS_INFO"} \cup AdminTerminal

GroupActions  == {"APPROVE", "APPROVE_NEEDS_REVIEW", "REJECT",
                  "NEEDS_INFO", "NEEDS_ADJUSTMENT"}
AdminActions  == {"APPROVE", "REJECT", "NEEDS_INFO"}

\* NULL is none of the values a nullable column can hold.
ASSUME LineAssumption ==
    /\ Amounts \subseteq Nat
    /\ 0 \in Amounts
    /\ NULL \notin Amounts \cup Groups
    /\ NULL \notin ReviewStatus \cup {"APPROVAL_GROUP", "ADMIN_FINAL"}

LineRecord ==
    [status      : ReviewStatus,                           \* WorkLine.status
     stage       : {NULL, "APPROVAL_GROUP", "ADMIN_FINAL"},
     amount      : Amounts \cup {NULL},                    \* approved_amount_cents
     needsAction : BOOLEAN,                                \* needs_requester_action
     group       : Groups \cup {NULL},                     \* routed_approval_group_id
     requested   : Amounts,                                \* quantity * unit price
     ag          : ReviewStatus \cup {NULL},
     agAmount    : Amounts \cup {NULL},
     admin       : AdminStatus \cup {NULL},
     adminAmount : Amounts \cup {NULL}]

\* A column added up over a set of lines, as reports do in Python or SQL.
SumOf(column, S) == MapThenSumSet(LAMBDA l : column[l], S)

\* A line as the draft editor leaves it.
DraftLine(requested, group) ==
    [status |-> "PENDING", stage |-> NULL, amount |-> NULL,
     needsAction |-> FALSE, group |-> group, requested |-> requested,
     ag |-> NULL, agAmount |-> NULL, admin |-> NULL, adminAmount |-> NULL]

-----------------------------------------------------------------------------
(***************************************************************************)
(* The read-model every review screen and most handlers consult.           *)
(***************************************************************************)

\* get_line_review_state, for a work type with an admin-final stage.
Awaiting(r) ==
    IF {r.admin, r.ag} \cap Kickbacks # {}   THEN "REQUESTER"
    ELSE IF r.admin \in AdminTerminal        THEN "DONE"
    ELSE IF r.ag \in {NULL, "PENDING"}       THEN "REVIEWER_GROUP"
    ELSE "ADMIN"

\* The review a response reopens: the admin stage wins.
KickbackStage(r) ==
    IF r.admin \in Kickbacks THEN "ADMIN_FINAL" ELSE "APPROVAL_GROUP"

-----------------------------------------------------------------------------
(***************************************************************************)
(* Approval-group stage.                                                   *)
(***************************************************************************)

\* sync_line_status: the line takes the status its review just got.
SyncLineStatus(r, reviewStatus) ==
    [r EXCEPT !.status = reviewStatus,
              !.needsAction = reviewStatus \in Kickbacks]

\* VALID_TRANSITIONS: what each approver action turns PENDING into.
GroupVerdict ==
    [APPROVE              |-> "APPROVED",
     APPROVE_NEEDS_REVIEW |-> "APPROVED_NEEDS_REVIEW",
     REJECT               |-> "REJECTED",
     NEEDS_INFO           |-> "NEEDS_INFO",
     NEEDS_ADJUSTMENT     |-> "NEEDS_ADJUSTMENT"]

\* Seeded fault: the final-admin-decision check of the validator is dropped.
ApproverMayActUnguarded(r) == r.ag \in {NULL, "PENDING"}

\* validate_review_transition, APPROVER role: a missing review is created
\* PENDING first, and an admin's terminal decision shuts the group out.
ApproverMayAct(r) ==
    /\ r.ag \in {NULL, "PENDING"}
    /\ r.admin \notin AdminTerminal

\* apply_review_decision by the approval group.
GroupDecision(r, action, amount) ==
    LET verdict == GroupVerdict[action]
        keepsAmount == action \notin {"APPROVE", "APPROVE_NEEDS_REVIEW"}
                       \/ amount = NULL
    IN  SyncLineStatus([r EXCEPT !.ag = verdict,
                                 !.agAmount = IF keepsAmount THEN @ ELSE amount],
                       verdict)

\* validate_review_transition, REQUESTER role, behind line_respond's check.
RequesterMayRespond(r) ==
    /\ Awaiting(r) = "REQUESTER"
    /\ r.needsAction

\* apply_review_decision(RESPOND) on the review that kicked the line back.
Response(r) ==
    SyncLineStatus(IF KickbackStage(r) = "ADMIN_FINAL"
                       THEN [r EXCEPT !.admin = "PENDING"]
                       ELSE [r EXCEPT !.ag = "PENDING"],
                   "PENDING")

-----------------------------------------------------------------------------
(***************************************************************************)
(* Admin-final stage.                                                      *)
(***************************************************************************)

\* The amount an admin approval books: the one typed, else the group's
\* recommendation, else the requested total.
ApprovalAmount(r, typed) ==
    IF typed # NULL           THEN typed
    ELSE IF r.agAmount # NULL THEN r.agAmount
    ELSE r.requested

\* apply_admin_final_decision.
AdminDecision(r, action, typed) ==
    LET staged == [r EXCEPT !.stage = "ADMIN_FINAL"]
        booked == ApprovalAmount(r, typed)
    IN  CASE action = "APPROVE" ->
               [staged EXCEPT !.admin = "APPROVED", !.adminAmount = booked,
                              !.status = "APPROVED", !.amount = booked]
          [] action = "REJECT" ->
               [staged EXCEPT !.admin = "REJECTED", !.status = "REJECTED",
                              !.amount = NULL]
          [] action = "NEEDS_INFO" ->
               [staged EXCEPT !.admin = "NEEDS_INFO", !.status = "NEEDS_INFO",
                              !.needsAction = TRUE]

\* A review row that exists goes back to PENDING; a missing one stays missing.
Reopened(review) == IF review = NULL THEN NULL ELSE "PENDING"

\* Seeded fault: the reset keeps the approved amount.
ResetLineKeepsAmount(r) ==
    [r EXCEPT !.admin = Reopened(@), !.status = "PENDING",
              !.needsAction = FALSE]

\* reset_line_for_rereview; unfinalize with reset_lines does the same to every
\* line.  The AG review and the stage are left as they are.
ResetLine(r) ==
    [r EXCEPT !.admin = Reopened(@), !.status = "PENDING",
              !.amount = NULL, !.needsAction = FALSE]

\* return_line_to_reviewer_group.
ReturnedToGroup(r) ==
    [ResetLine(r) EXCEPT !.ag = Reopened(@), !.agAmount = NULL,
                         !.stage = "APPROVAL_GROUP"]

\* change_line_expense_account: reroute, re-price, and start review over.
Rebooked(r, group, requested) ==
    [ResetLine(r) EXCEPT !.group = group, !.requested = requested,
                         !.ag = "PENDING", !.agAmount = NULL,
                         !.stage = "APPROVAL_GROUP"]

\* A line that enters review: dispatch, and admin_add_line.
Routed(r, group) ==
    [r EXCEPT !.group = group, !.ag = "PENDING", !.stage = "APPROVAL_GROUP"]

\* finalize_work_item skips the lines an admin already decided.
AdminResolved(r) ==
    r.stage = "ADMIN_FINAL" /\ r.status \in AdminTerminal

\* The amount finalize books on a line it resolves.
FinalAmount(r) ==
    IF r.status = "REJECTED" THEN 0
    ELSE IF r.status \in {"APPROVED", "APPROVED_NEEDS_REVIEW"} /\ r.agAmount # NULL
         THEN r.agAmount
    ELSE r.requested

\* What finalize_work_item does to one line.
FinalizedLine(r) ==
    LET verdict == IF r.status = "REJECTED" THEN "REJECTED" ELSE "APPROVED"
    IN  IF AdminResolved(r) THEN r
        ELSE [r EXCEPT !.admin = verdict, !.status = verdict,
                       !.adminAmount = FinalAmount(r), !.amount = FinalAmount(r),
                       !.stage = "ADMIN_FINAL"]
=============================================================================
