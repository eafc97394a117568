----------------------------- MODULE GroupPages -----------------------------
(***************************************************************************)
(* What the pages of the TECHOPS staff make of the request of GroupReview: *)
(* the progress strip on every request, the team queues and counts of the  *)
(* admin home, and the planning worklist with its totals.  They read the   *)
(* review rows, each by a query of its own; the line keeps a copy of its   *)
(* review's status that overlapping requests can leave behind.             *)
(***************************************************************************)
EXTENDS GroupReview

CONSTANTS
    Teams,          \* approval groups of the work type
    TeamOf,         \* the group a line is routed to
    Affirmations    \* lines that say a space needs nothing: NO_SERVICES

ASSUME PagesAssumption ==
    /\ IsFiniteSet(Lines)
    /\ TeamOf \in [Lines -> Teams]
    /\ Affirmations \subseteq Lines

Filed == status # "DRAFT"

\* The APPROVAL_GROUP reviews a query joined with the lines returns.
ReviewsOf(t, S) == {l \in lines : TeamOf[l] = t /\ review[l] \in S}

-----------------------------------------------------------------------------
(* review_state.py: who acts next on a line, and how far a group has got.  *)

Awaiting(l) ==
    CASE review[l] \in Kickbacks         -> "REQUESTER"
      [] review[l] \in Verdicts          -> "DONE"
      [] review[l] \in {NULL, "PENDING"} -> "REVIEWER_GROUP"

\* group_progress_for_items: pending is what remains of the total.
Progress(t) ==
    LET total   == Cardinality(ReviewsOf(t, ReviewStatus))
        decided == Cardinality(ReviewsOf(t, Verdicts))
        waiting == Cardinality(ReviewsOf(t, Kickbacks))
    IN  [total |-> total, decided |-> decided, waiting |-> waiting,
         pending |-> total - decided - waiting]

-----------------------------------------------------------------------------
(* home.py: the cards of the admin home.                                   *)

\* unfinished_request_count, of this request.
Unfinished == status = "SUBMITTED"

\* team_queues reads the requests that are not drafts.
Queue(t) ==
    IF Filed THEN Progress(t)
    ELSE [total |-> 0, decided |-> 0, waiting |-> 0, pending |-> 0]

\* departments_not_submitted: does the card list the department's draft.
DraftOnly == ~Filed

-----------------------------------------------------------------------------
(* worklist.py.                                                            *)

\* Seeded fault: the status is the line's own copy.
WorklistStatusOfLine(l) ==
    CASE line[l].status \in {"APPROVED", "APPROVED_NEEDS_REVIEW"} -> "approved"
      [] line[l].status = "REJECTED"                             -> "rejected"
      [] line[l].status \in Kickbacks                            -> "waiting"
      [] line[l].status = "PENDING"                              -> "pending"

\* _STATUS_BY_REVIEW.
WorklistStatus(l) ==
    CASE review[l] \in {"APPROVED", "APPROVED_NEEDS_REVIEW"} -> "approved"
      [] review[l] = "REJECTED"                             -> "rejected"
      [] review[l] \in Kickbacks                            -> "waiting"
      [] review[l] = "PENDING"                              -> "pending"

\* _STATUSES_SHOWN.
Shown ==
    [not_rejected |-> {"approved", "pending", "waiting"},
     approved     |-> {"approved"},
     pending      |-> {"pending", "waiting"},
     all          |-> {"approved", "pending", "waiting", "rejected"}]

\* worklist_rows, filtered to some teams and a status filter.
WorklistRows(T, filter) ==
    {l \in lines \ Affirmations :
        /\ Filed
        /\ review[l] # NULL /\ TeamOf[l] \in T
        /\ WorklistStatus(l) \in Shown[filter]}

\* worklist_totals: rejected rows count toward nothing.
Totals(rows) ==
    [approved |-> Cardinality({l \in rows : WorklistStatus(l) = "approved"}),
     pending  |-> Cardinality({l \in rows : WorklistStatus(l) \in {"pending", "waiting"}})]

-----------------------------------------------------------------------------

\* The staff's pages tell one story, whatever overlaps: a request counts as
\* unfinished exactly while some team's queue shows a line to act on; what a
\* queue shows is what the worklist's default and "pending" filters total, with
\* the affirmations the worklist leaves out; the strip calls the same lines
\* waiting as the line's page does; and the department of a draft that was sent
\* back is listed again, with no strip left over.
StaffPagesAgree ==
    /\ Unfinished <=> \E t \in Teams : Queue(t).pending + Queue(t).waiting > 0
    /\ \A t \in Teams :
          LET said == Cardinality(ReviewsOf(t, {"PENDING"} \cup Kickbacks) \cap Affirmations)
              open == Queue(t).pending + Queue(t).waiting - said
          IN  /\ Totals(WorklistRows({t}, "pending")).pending = open
              /\ Totals(WorklistRows({t}, "not_rejected")).pending = open
              /\ Totals(WorklistRows({t}, "not_rejected"))
                    = Totals(WorklistRows({t}, "all"))
              /\ Queue(t).waiting =
                    Cardinality({l \in lines : TeamOf[l] = t /\ Awaiting(l) = "REQUESTER"})
    /\ DraftOnly <=> \A t \in Teams : Progress(t).total = 0
=============================================================================
