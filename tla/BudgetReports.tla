---------------------------- MODULE BudgetReports ----------------------------
(***************************************************************************)
(* What the screens and reports say of a request in BudgetReview: the      *)
(* queues of the two review stages, the status a department is shown, the  *)
(* totals and the pipeline report.  Each is computed on its own from line  *)
(* and review columns, some in Python and some in SQL, and nothing makes   *)
(* them agree.  No state of its own: every operator reads BudgetReview's.  *)
(*                                                                         *)
(* The request stands for the set of budget requests a report selects; an  *)
(* archived request or portfolio is left out of all of them alike.         *)
(***************************************************************************)
EXTENDS BudgetReview

CONSTANT Suggested      \* the reviewer group of the account each line books on

ASSUME ReportsAssumption ==
    /\ Suggested \in [Lines -> Groups \cup {NULL}]
    /\ IsFiniteSet(Lines) /\ IsFiniteSet(Groups)

LinesThat(P(_)) == {l \in present : P(line[l])}

\* get_line_amount_cents, and "approved_amount_cents or 0".
RequestedOf == [l \in Lines |-> line[l].requested]
ApprovedOf == [l \in Lines |-> IF line[l].amount = NULL THEN 0 ELSE line[l].amount]

-----------------------------------------------------------------------------
(***************************************************************************)
(* Totals of a request, and the status its department is shown.            *)
(***************************************************************************)

\* compute_work_item_totals; compute_portfolio_totals adds them up.
TotalsOver(S) ==
    [requested |-> SumOf(RequestedOf, S),
     approved  |-> SumOf(ApprovedOf, {l \in S : line[l].status = "APPROVED"})]

WorkItemTotals == TotalsOver(present)

\* compute_group_subtotals: one bucket per routed group, "Unassigned" for NULL.
SubtotalKeys(S) == {line[l].group : l \in S}
GroupSubtotals(S) ==
    [g \in SubtotalKeys(S) |-> TotalsOver({l \in S : line[l].group = g})]

\* filter_lines_for_user, for a viewer who is neither admin nor requester.
VisibleLines(u) ==
    IF GroupsOf[u] = {} THEN present
    ELSE {l \in present : line[l].group \in GroupsOf[u]}

CountOf(S) == Cardinality(LinesThat(LAMBDA r : r.status \in S))

\* Seeded fault: the item's status is consulted before the kickbacks.
EffectiveStatusItemFirst ==
    IF status # "SUBMITTED"                          THEN status
    ELSE IF CountOf({"PENDING"}) > 0                 THEN "UNDER_REVIEW"
    ELSE IF CountOf(Kickbacks) = 0                   THEN "SUBMITTED"
    ELSE "NEEDS_RESPONSE"

\* compute_line_status_summary's effective_status; that a FINALIZED budget may
\* show as held for the board is EventBudgets' matter.
EffectiveStatus ==
    IF status # "SUBMITTED"                          THEN status
    ELSE IF \A k \in Kickbacks : CountOf({k}) > 0    THEN "NEEDS_RESPONSE"
    ELSE IF CountOf({"NEEDS_INFO"}) > 0              THEN "NEEDS_INFO"
    ELSE IF CountOf({"NEEDS_ADJUSTMENT"}) > 0        THEN "NEEDS_ADJUSTMENT"
    ELSE IF CountOf({"PENDING"}) > 0                 THEN "UNDER_REVIEW"
    ELSE "SUBMITTED"

AsksForResponse == Kickbacks \cup {"NEEDS_RESPONSE"}

\* The counts of compute_line_status_summary, approved split by stage.
SummaryCounts ==
    [pending         |-> CountOf({"PENDING"}),
     needsInfo       |-> CountOf({"NEEDS_INFO"}),
     needsAdjustment |-> CountOf({"NEEDS_ADJUSTMENT"}),
     agApproved      |-> Cardinality(LinesThat(LAMBDA r :
                            r.status = "APPROVED" /\ r.stage # "ADMIN_FINAL")),
     finalApproved   |-> Cardinality(LinesThat(LAMBDA r :
                            r.status = "APPROVED" /\ r.stage = "ADMIN_FINAL")),
     rejected        |-> CountOf({"REJECTED"})]

\* get_finalization_summary: whatever is nothing else is pending.
FinalizationSummary ==
    [approved   |-> CountOf({"APPROVED"}),
     rejected   |-> CountOf({"REJECTED"}),
     kickedBack |-> CountOf(Kickbacks),
     pending    |-> CountOf(ReviewStatus \ (AdminTerminal \cup Kickbacks)),
     totals     |-> WorkItemTotals]

-----------------------------------------------------------------------------
(***************************************************************************)
(* The review queues.                                                      *)
(***************************************************************************)

\* build_approval_queues: by the group's review rows, whatever the request's
\* status; the lines are routed to the group whose row it is.
GroupPending(g) == LinesThat(LAMBDA r : r.group = g /\ r.ag = "PENDING")
GroupKickedBack(g) == LinesThat(LAMBDA r : r.group = g /\ r.ag \in Kickbacks)
GroupDecided(g) == LinesThat(LAMBDA r : r.group = g /\ r.ag \in AdminTerminal)

\* The request rows of the pending queue: its waiting lines, all the group's
\* lines, and what those ask for.
PendingRequest(g) ==
    [pending   |-> Cardinality(GroupPending(g)),
     total     |-> Cardinality(LinesThat(LAMBDA r : r.group = g)),
     requested |-> SumOf(RequestedOf, LinesThat(LAMBDA r : r.group = g))]

\* group_progress_for_items; what is neither decided nor waiting is pending.
GroupProgress(g) ==
    LET rows == LinesThat(LAMBDA r : r.group = g /\ r.ag # NULL)
        decided == {l \in rows : line[l].ag \in GroupTerminal}
        waiting == {l \in rows : line[l].ag \in Kickbacks}
    IN  [total   |-> Cardinality(rows),
         decided |-> Cardinality(decided),
         waiting |-> Cardinality(waiting),
         pending |-> Cardinality(rows) - Cardinality(decided) - Cardinality(waiting)]

\* Seeded fault: a recommendation flagged for review is not ready for the admin.
AdminReadyUnflagged(r) ==
    \/ r.admin = "PENDING"
    \/ r.admin = NULL /\ r.ag = "APPROVED"

\* build_admin_queues, line by line: the admin's review where there is one,
\* else the group's recommendation, if it recommends.
AdminReady(r) ==
    \/ r.admin = "PENDING"
    \/ r.admin = NULL /\ r.ag \in {"APPROVED", "APPROVED_NEEDS_REVIEW"}

ReadyForReview == IF status = "SUBMITTED" THEN LinesThat(AdminReady) ELSE {}
AdminKickedBack ==
    IF status = "SUBMITTED" THEN LinesThat(LAMBDA r : r.admin \in Kickbacks) ELSE {}

\* The request row: a recommendation of zero counts as none ("or line_total").
RecommendedOf ==
    [l \in Lines |-> IF line[l].agAmount \in {NULL, 0} THEN line[l].requested
                     ELSE line[l].agAmount]
ReadyRequest ==
    [ready       |-> Cardinality(ReadyForReview),
     total       |-> Cardinality(present),
     requested   |-> SumOf(RequestedOf, ReadyForReview),
     recommended |-> SumOf(RecommendedOf, ReadyForReview)]

Listed(l) ==
    \/ l \in GroupPending(line[l].group) \cup GroupKickedBack(line[l].group)
    \/ l \in ReadyForReview \cup AdminKickedBack

-----------------------------------------------------------------------------
(***************************************************************************)
(* The pipeline report, and the reports that count by group.               *)
(***************************************************************************)

\* Seeded fault: decided means finalized, the predicate the docstring of
\* get_pipeline_bucket_expr recalls.
PipelineBucketOnceFinalized(l) ==
    IF status = "DRAFT" THEN "DRAFT"
    ELSE IF status = "FINALIZED" /\ line[l].status \in AdminTerminal THEN line[l].status
    ELSE "IN_REVIEW"

\* get_pipeline_bucket_expr.
PipelineBucket(l) ==
    LET decided == line[l].stage = "ADMIN_FINAL" \/ status = "FINALIZED"
    IN  IF status = "DRAFT" THEN "DRAFT"
        ELSE IF decided /\ line[l].status \in AdminTerminal THEN line[l].status
        ELSE "IN_REVIEW"

InBucket(b) == {l \in present : PipelineBucket(l) = b}

\* get_pipeline_sum_columns: coalesce(approved_amount_cents, requested).
CoalescedOf ==
    [l \in Lines |-> IF line[l].amount = NULL THEN line[l].requested ELSE line[l].amount]

\* One row of the master ledger or the department summary, and its properties.
PipelineTotals ==
    LET draft    == SumOf(RequestedOf, InBucket("DRAFT"))
        inReview == SumOf(RequestedOf, InBucket("IN_REVIEW"))
        askedFor == SumOf(RequestedOf, InBucket("APPROVED"))
        approved == SumOf(CoalescedOf, InBucket("APPROVED"))
        rejected == SumOf(RequestedOf, InBucket("REJECTED"))
    IN  [draft |-> draft, inReview |-> inReview, approved |-> approved,
         rejected |-> rejected, requested |-> inReview + askedFor + rejected,
         reduced |-> askedFor - approved, ceiling |-> approved + inReview]

\* A row of the department summary: lines are counted from their details,
\* unsubmitted drafts from the requests, which need no line.
DepartmentRow ==
    [totals        |-> PipelineTotals,
     lines         |-> Cardinality(present),
     requests      |-> IF present # {} \/ status = "DRAFT" THEN 1 ELSE 0,
     draftRequests |-> IF status = "DRAFT" THEN 1 ELSE 0]

\* The expense-account and warehouse reports list lines whatever their status
\* and add up their amount column.
LineReport ==
    [lines     |-> Cardinality(present),
     requested |-> SumOf(RequestedOf, present),
     approved  |-> SumOf(ApprovedOf, present)]

\* What the board is asked to approve: the same sum over the held budgets.
BoardTopline == IF status = "FINALIZED" THEN SumOf(ApprovedOf, present) ELSE 0

\* The group a line counts for before it is dispatched: routed, else suggested.
EffectiveGroup(l) == IF line[l].group # NULL THEN line[l].group ELSE Suggested[l]

\* build_reviewer_group_overview, one row; NULL is "Unassigned".
GroupOverview(g) ==
    LET mine == {l \in present : EffectiveGroup(l) = g}
        Tally(S) == Cardinality({l \in mine : line[l].status \in S})
    IN  [lines      |-> Cardinality(mine),
         dispatched |-> Cardinality({l \in mine : line[l].group # NULL}),
         pending    |-> Tally({"PENDING"}),
         needsInfo  |-> Tally(Kickbacks),
         approved   |-> Tally({"APPROVED", "APPROVED_NEEDS_REVIEW"}),
         rejected   |-> Tally({"REJECTED"})]

\* get_workload_data: the lines its WHERE keeps for a group.
WorkloadLines(g) ==
    IF status \notin {"SUBMITTED", "AWAITING_DISPATCH"} THEN {}
    ELSE LinesThat(LAMBDA r : r.group = g /\ r.status \in {"PENDING"} \cup Kickbacks)

\* "status = PENDING AND stage IN ('APPROVAL_GROUP', NULL)" in SQL: IN a list
\* with a NULL is true on a match and NULL, never false, without one.
CountsAsPending(l) ==
    IF line[l].status # "PENDING" THEN FALSE
    ELSE IF line[l].stage = "APPROVAL_GROUP" THEN TRUE
    ELSE NULL

\* SUM skips the NULLs and is NULL where there is nothing else.
WorkloadPending(g) ==
    LET counted == {l \in WorkloadLines(g) : CountsAsPending(l) \in BOOLEAN}
    IN  IF counted = {} THEN NULL
        ELSE Cardinality({l \in counted : CountsAsPending(l)})

-----------------------------------------------------------------------------
(***************************************************************************)
(* What the screens promise.                                               *)
(***************************************************************************)

\* Nobody has to remember a request: while it is under review, each line
\* without an admin verdict is on the list of its group or of the admins,
\* waiting or kicked back, unless the group rejected it and no admin has looked
\* (finalize resolves that one).  Resets, returns and kickbacks by either stage
\* all have to leave a review row that some queue selects.
NoLineIsForgotten ==
    status = "SUBMITTED" =>
        \A l \in present :
            \/ line[l].admin \in AdminTerminal
            \/ line[l].ag = "REJECTED"
            \/ Listed(l)

\* The department is told to respond exactly when it can: of a request under
\* review the shown status asks for a response iff some line accepts one, and
\* then the admins cannot finalize; the two read different columns.
ShownStatusIsActionable ==
    status = "SUBMITTED" =>
        LET asks == EffectiveStatus \in AsksForResponse
        IN  /\ asks <=> \E l \in present : RequesterMayRespond(line[l])
            /\ asks => ~CanFinalize

\* A verdict counts from the moment it is given: outside drafts the pipeline
\* report books every line an admin decided under that verdict, at the amount
\* the admin's review holds.
VerdictsAreCounted ==
    status # "DRAFT" =>
        \A l \in present :
            line[l].admin \in AdminTerminal =>
                /\ PipelineBucket(l) = line[l].admin
                /\ line[l].admin = "APPROVED" => CoalescedOf[l] = line[l].adminAmount

\* The subtotals of every bucket, added up.
SubtotalsOver(S) ==
    LET keys == SubtotalKeys(S)
    IN  [requested |-> SumOf([g \in keys |-> GroupSubtotals(S)[g].requested], keys),
         approved  |-> SumOf([g \in keys |-> GroupSubtotals(S)[g].approved], keys)]

\* The same money on every page: the SQL reports ask for what the request page
\* does; the group subtotals add up to the page's totals; the line reports and
\* the board's topline, which add up the amounts of all lines, approve what the
\* page approves, so no line that lost its approval kept its amount; and in a
\* finalized request the SQL reports exceed the page by exactly the approvals
\* that carry no amount.
TotalsReconcile ==
    /\ DepartmentRow.totals.requested + DepartmentRow.totals.draft
           = WorkItemTotals.requested
    /\ LineReport.approved = WorkItemTotals.approved
    /\ status = "FINALIZED" => BoardTopline = WorkItemTotals.approved
    /\ SubtotalsOver(present) = WorkItemTotals
    /\ status = "FINALIZED" =>
          DepartmentRow.totals.approved - WorkItemTotals.approved
              = SumOf(RequestedOf, {l \in present :
                          line[l].status = "APPROVED" /\ line[l].amount = NULL})

\* What the group's queue has waiting is what the progress bar has pending, and
\* each line is in one column of the reviewer-group report.
TalliesAddUp ==
    /\ \A g \in Groups : GroupProgress(g).pending = PendingRequest(g).pending
    /\ \A g \in Groups \cup {NULL} :
          LET o == GroupOverview(g)
          IN  o.lines = o.pending + o.needsInfo + o.approved + o.rejected
    /\ SumOf([g \in Groups \cup {NULL} |-> GroupOverview(g).lines], Groups \cup {NULL})
          = Cardinality(present)

\* What queues, totals, pipeline and reviewer reports say of the request can be
\* held against each other at any time.
ReportsAgree == VerdictsAreCounted /\ TotalsReconcile /\ TalliesAddUp

-----------------------------------------------------------------------------
(***************************************************************************)
(* What the repository says and the code does not do.                      *)
(***************************************************************************)

\* get_pipeline_bucket_expr's docstring: a reviewer's approval or rejection is
\* a recommendation the admin can overturn, so it stays IN_REVIEW.
RecommendationsStayInReview ==
    status = "SUBMITTED" =>
        \A l \in InBucket("APPROVED") \cup InBucket("REJECTED") :
            line[l].admin \in AdminTerminal

\* get_workload_data reads a group's pending count as a number ("row.pending_lines
\* > 0") wherever the group has a row.
WorkloadRowsAreNumbers ==
    \A g \in Groups : WorkloadLines(g) # {} => WorkloadPending(g) # NULL

\* build_approval_queues's docstring: the pending queue holds requests with
\* PENDING lines.
QueuedRequestsArePending ==
    \A g \in Groups : \A l \in GroupPending(g) : line[l].status = "PENDING"
=============================================================================
