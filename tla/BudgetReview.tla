---------------------------- MODULE BudgetReview ----------------------------
(***************************************************************************)
(* One PRIMARY budget request from draft to FINALIZED and back: the item's *)
(* status, its review session (checkout) and its lines.  One action per    *)
(* POST handler; a handler is one step, so this module is about requests   *)
(* that do not overlap.  ReviewSessions takes the review handlers apart.   *)
(*                                                                         *)
(* The clock is abstracted to one bit: live says that the checkout's       *)
(* expiry lies in the future, and Expire lets the time pass.               *)
(***************************************************************************)
EXTENDS BudgetLine, FiniteSets

CONSTANTS
    Lines,          \* line numbers the request can ever have
    Users,          \* reviewers and admins
    BudgetAdmins,   \* work-type admins of BUDGET and super admins
    SuperAdmins,
    GroupsOf        \* GroupsOf[u]: approval groups u belongs to

ASSUME UserAssumption ==
    /\ SuperAdmins \subseteq BudgetAdmins
    /\ BudgetAdmins \subseteq Users
    /\ GroupsOf \in [Users -> SUBSET Groups]
    /\ NULL \notin Users

VARIABLES
    status,     \* WorkItem.status
    holder,     \* checked_out_by_user_id
    live,       \* checked_out_expires_at lies in the future
    present,    \* the lines the request has
    line        \* their records

vars == <<status, holder, live, present, line>>

ItemStatus == {"DRAFT", "AWAITING_DISPATCH", "SUBMITTED", "FINALIZED"}

TypeOK ==
    /\ status \in ItemStatus
    /\ holder \in Users \cup {NULL}
    /\ live \in BOOLEAN
    /\ present \in SUBSET Lines
    /\ line \in [Lines -> LineRecord]

\* A draft with at least one line, each priced and perhaps routed already.
Init ==
    /\ status = "DRAFT"
    /\ holder = NULL
    /\ live = FALSE
    /\ present \in (SUBSET Lines) \ {{}}
    /\ line \in [Lines -> {DraftLine(q, g) : q \in Amounts, g \in Groups \cup {NULL}}]

-----------------------------------------------------------------------------
(***************************************************************************)
(* Who may do what.                                                        *)
(***************************************************************************)

\* is_reviewer_for_line, for a work type that is not group-final.
IsReviewerFor(u, l) ==
    u \in SuperAdmins \/ line[l].group \in GroupsOf[u]

\* build_work_item_perms: an admin, or in the group of some line.
IsReviewer(u) ==
    u \in BudgetAdmins \/ \E l \in present : line[l].group \in GroupsOf[u]

\* is_checked_out.
CheckedOut == holder # NULL /\ live

\* user_holds_checkout and decision_lock_satisfied: neither reads the expiry.
HoldsCheckout(u) == holder = u

-----------------------------------------------------------------------------
(***************************************************************************)
(* Lifecycle up to review.                                                 *)
(***************************************************************************)

\* work_item_submit; uses_dispatch, so no reviews yet.
Submit ==
    /\ status = "DRAFT"
    /\ present # {}
    /\ status' = "AWAITING_DISPATCH"
    /\ UNCHANGED <<holder, live, present, line>>

\* work_item_recall.
Recall ==
    /\ status = "AWAITING_DISPATCH"
    /\ status' = "DRAFT"
    /\ UNCHANGED <<holder, live, present, line>>

\* The routing a dispatch form saves: NULL where a field was left empty.
Assigned(choice) ==
    [l \in Lines |->
        IF l \in present /\ choice[l] # NULL
            THEN [line[l] EXCEPT !.group = choice[l]]
            ELSE line[l]]

\* assign_approval_groups.
Assign(choice) ==
    /\ status = "AWAITING_DISPATCH"
    /\ line' = Assigned(choice)
    /\ UNCHANGED <<status, holder, live, present>>

\* dispatch_to_queue: save the form, insist on a group everywhere, create the
\* AG reviews.
Dispatch(choice) ==
    /\ status = "AWAITING_DISPATCH"
    /\ \A l \in present : Assigned(choice)[l].group # NULL
    /\ line' = [l \in Lines |->
                  IF l \in present
                      THEN Routed(line[l], Assigned(choice)[l].group)
                      ELSE line[l]]
    /\ status' = "SUBMITTED"
    /\ UNCHANGED <<holder, live, present>>

-----------------------------------------------------------------------------
(***************************************************************************)
(* The review session.                                                     *)
(***************************************************************************)

\* work_item_checkout.
Checkout(u) ==
    /\ status = "SUBMITTED"
    /\ ~CheckedOut
    /\ IsReviewer(u)
    /\ holder' = u
    /\ live' = TRUE
    /\ UNCHANGED <<status, present, line>>

\* work_item_checkin: the holder, or an admin by force; only while unexpired.
Checkin(u) ==
    /\ CheckedOut
    /\ holder = u \/ u \in BudgetAdmins
    /\ holder' = NULL
    /\ live' = FALSE
    /\ UNCHANGED <<status, present, line>>

\* /admin/locks: release_lock (any holder) and release_expired (expired only).
ReleaseLock ==
    /\ SuperAdmins # {}
    /\ holder # NULL
    /\ holder' = NULL
    /\ live' = FALSE
    /\ UNCHANGED <<status, present, line>>

\* The expiry passes.  Nothing is written: the holder stays on the row.
Expire ==
    /\ live
    /\ live' = FALSE
    /\ UNCHANGED <<status, holder, present, line>>

-----------------------------------------------------------------------------
(***************************************************************************)
(* Review.                                                                 *)
(***************************************************************************)

\* The write all line operations end in.
SetLine(l, r) ==
    /\ line' = [line EXCEPT ![l] = r]
    /\ UNCHANGED <<status, holder, live, present>>

\* _handle_review_action.  It does not read Awaiting.
GroupDecide(u, l, action, amount) ==
    /\ HoldsCheckout(u)
    /\ status # "DRAFT"
    /\ IsReviewerFor(u, l)
    /\ ApproverMayAct(line[l])
    /\ SetLine(l, GroupDecision(line[l], action, amount))

\* line_respond.
Respond(l) ==
    /\ status # "DRAFT"
    /\ RequesterMayRespond(line[l])
    /\ SetLine(l, Response(line[l]))

\* line_adjust: new quantity or price, then the same response.
Adjust(l, requested) ==
    /\ status # "DRAFT"
    /\ RequesterMayRespond(line[l])
    /\ SetLine(l, Response([line[l] EXCEPT !.requested = requested]))

\* _handle_admin_decision: no look at the item's status.
AdminDecide(u, l, action, amount) ==
    /\ u \in BudgetAdmins
    /\ HoldsCheckout(u)
    /\ Awaiting(line[l]) \in {"ADMIN", "REVIEWER_GROUP"}
    /\ SetLine(l, AdminDecision(line[l], action, amount))

\* line_reset and line_return_to_group: no look at the item's status either.
AdminReset(u, l) ==
    /\ u \in BudgetAdmins
    /\ HoldsCheckout(u)
    /\ SetLine(l, ResetLine(line[l]))

ReturnLine(u, l) ==
    /\ u \in BudgetAdmins
    /\ HoldsCheckout(u)
    /\ SetLine(l, ReturnedToGroup(line[l]))

\* The guard of both admin line tools: under review, and nobody else inside.
AdminToolsOpen(u) ==
    /\ u \in BudgetAdmins
    /\ status = "SUBMITTED"
    /\ CheckedOut => holder = u

\* line_change_account_submit.
ChangeAccount(u, l, group, requested) ==
    /\ AdminToolsOpen(u)
    /\ SetLine(l, Rebooked(line[l], group, requested))

\* line_add_submit.
AddLine(u, l, group, requested) ==
    /\ AdminToolsOpen(u)
    /\ l \notin present
    /\ present' = present \cup {l}
    /\ line' = [line EXCEPT ![l] = Routed(DraftLine(requested, group), group)]
    /\ UNCHANGED <<status, holder, live>>

-----------------------------------------------------------------------------
(***************************************************************************)
(* Finalization.                                                           *)
(***************************************************************************)

HasDecision(r) == r.admin \in AdminTerminal \/ r.ag \in GroupTerminal

\* Seeded fault: a line that waits for its requester no longer blocks.
CanFinalizeKickedBack ==
    /\ status \in {"AWAITING_DISPATCH", "SUBMITTED"}
    /\ ~CheckedOut
    /\ \E l \in present : HasDecision(line[l])

\* can_finalize_work_item.
CanFinalize ==
    /\ status \in {"AWAITING_DISPATCH", "SUBMITTED"}
    /\ ~CheckedOut
    /\ \A l \in present : line[l].status \notin Kickbacks
    /\ \E l \in present : HasDecision(line[l])

\* finalize_work_item: every line is resolved in the same transaction.
Finalize ==
    /\ CanFinalize
    /\ line' = [l \in Lines |->
                  IF l \in present THEN FinalizedLine(line[l]) ELSE line[l]]
    /\ status' = "FINALIZED"
    /\ UNCHANGED <<holder, live, present>>

\* unfinalize_work_item, with or without the reset of every line.
Unfinalize(resetLines) ==
    /\ status = "FINALIZED"
    /\ line' = [l \in Lines |->
                  IF l \in present /\ resetLines THEN ResetLine(line[l]) ELSE line[l]]
    /\ status' = "SUBMITTED"
    /\ UNCHANGED <<holder, live, present>>

-----------------------------------------------------------------------------
Routing == [Lines -> Groups \cup {NULL}]

AdminStep(u) ==
    \/ \E l \in present : AdminReset(u, l) \/ ReturnLine(u, l)
    \/ \E l \in present, a \in AdminActions, amt \in Amounts \cup {NULL} :
           AdminDecide(u, l, a, amt)
    \/ \E l \in present, g \in Groups, q \in Amounts : ChangeAccount(u, l, g, q)
    \/ \E l \in Lines, g \in Groups, q \in Amounts : AddLine(u, l, g, q)

Next ==
    \/ Submit \/ Recall
    \/ \E choice \in Routing : Assign(choice) \/ Dispatch(choice)
    \/ \E u \in Users : Checkout(u) \/ Checkin(u) \/ AdminStep(u)
    \/ ReleaseLock \/ Expire
    \/ \E u \in Users, l \in present, a \in GroupActions, amt \in Amounts \cup {NULL} :
           GroupDecide(u, l, a, amt)
    \/ \E l \in present : Respond(l) \/ \E q \in Amounts : Adjust(l, q)
    \/ Finalize
    \/ \E resetLines \in BOOLEAN : Unfinalize(resetLines)

Spec == Init /\ [][Next]_vars

-----------------------------------------------------------------------------
(***************************************************************************)
(* What review promises.                                                   *)
(***************************************************************************)

DecisionStands(r) ==
    /\ r.admin \in AdminTerminal =>
          /\ r.status = r.admin
          /\ r.stage = "ADMIN_FINAL"
          /\ ~r.needsAction
          /\ r.admin = "APPROVED" => r.amount # NULL
    /\ r.amount # NULL =>
          /\ r.admin \in AdminTerminal
          /\ r.amount = r.adminAmount

\* An admin's decision is the line's: while the ADMIN_FINAL review stands
\* APPROVED or REJECTED the line has that status, at that stage, and an
\* approved line carries exactly the review's amount; and no line carries an
\* amount without such a review ("AUTHORITATIVE", apply_admin_final_decision).
AdminDecisionStands == \A l \in present : DecisionStands(line[l])

FlagAnswerable(r) ==
    /\ r.needsAction <=> r.status \in Kickbacks
    /\ r.needsAction => Awaiting(r) = "REQUESTER"

\* A line flagged for the requester is one the requester can answer: flag and
\* line status agree, some review really is a kickback, and the line waits for
\* the requester, so line_respond accepts (needs_requester_action is written by
\* five functions and read by a sixth).
FlagMeansAnswerable == \A l \in present : FlagAnswerable(line[l])

WasRouted(r) == r.ag # NULL /\ r.group # NULL /\ r.stage # NULL

NeverReviewed(r) ==
    /\ r.status = "PENDING" /\ ~r.needsAction
    /\ {r.stage, r.amount, r.ag, r.agAmount, r.admin, r.adminAmount} = {NULL}

\* Every line under review or finalized went through a group's queue, so that
\* finalize auto-approves no line a reviewer never had the chance to see; and a
\* request not yet dispatched has no trace of review, so that recall is the
\* clean reversal it claims to be.
ReviewedLinesWereRouted ==
    \A l \in present :
        IF status \in {"SUBMITTED", "FINALIZED"}
            THEN WasRouted(line[l])
            ELSE NeverReviewed(line[l])

\* A finalized request is in nobody's review session.
FinalizedIsCheckedIn == status = "FINALIZED" => ~CheckedOut

\* Finalizing leaves no line undecided and forgets no requester: every line is
\* approved or rejected by the step that finalizes, and none is still flagged.
FinalizeDecidesEveryLine ==
    [][status # "FINALIZED" /\ status' = "FINALIZED" =>
          \A l \in present :
              line'[l].status \in AdminTerminal /\ ~line'[l].needsAction]_vars

\* What an admin decided does not move: a line whose ADMIN_FINAL review is
\* terminal changes in no column (status, amount, price, group, AG verdict)
\* unless the same step withdraws the decision to PENDING.
DecidedLineIsFrozen ==
    [][\A l \in present :
          line[l].admin \in AdminTerminal =>
              line'[l] = line[l] \/ line'[l].admin = "PENDING"]_vars

-----------------------------------------------------------------------------
(***************************************************************************)
(* What the repository says and the code does not do.                      *)
(***************************************************************************)

\* finalize_work_item's comment: resolving by denylist keeps AG-approved lines
\* from falling through with a null amount.
FinalizedApprovalsHaveAmounts ==
    [][status # "FINALIZED" /\ status' = "FINALIZED" =>
          \A l \in present :
              line'[l].status = "APPROVED" => line'[l].amount # NULL]_vars

\* can_decide_line's docstring: the one rule every decision route reads, so a
\* group decides only a line that awaits the group.
GroupDecidesOnlyItsTurn ==
    [][\A l \in present :
          line[l].ag # line'[l].ag /\ line'[l].ag \in GroupTerminal \cup Kickbacks =>
              Awaiting(line[l]) = "REVIEWER_GROUP"]_vars
=============================================================================
