---------------------------- MODULE GroupReview ----------------------------
(***************************************************************************)
(* One request of a work type whose approval group has the last word       *)
(* (TECHOPS: no dispatch, no review session, no admin stage), from the     *)
(* draft form to FINALIZED and back, with requests of several people under *)
(* way at once.                                                            *)
(*                                                                         *)
(* A handler is two steps.  Begin loads rows and makes the checks that     *)
(* come before any lock.  Finish takes the locks, reads again what the     *)
(* handler refreshes, checks, writes and commits; a handler that holds the *)
(* row of the request keeps every other locking handler out until it       *)
(* commits, so that this part is one step.  Who asks does not matter: the  *)
(* roles are checked against tables these handlers do not write, so an     *)
(* operation stands for somebody entitled to it.                           *)
(***************************************************************************)
EXTENDS Naturals, FiniteSets

CONSTANTS
    Lines,          \* line numbers of the request
    Slots,          \* HTTP requests that can be under way together
    Actions,        \* the approver actions explored
    FormOverlaps,   \* may other requests commit while a form save is under way
    NULL            \* no row

Kickbacks    == {"NEEDS_INFO", "NEEDS_ADJUSTMENT"}
Verdicts     == {"APPROVED", "REJECTED", "APPROVED_NEEDS_REVIEW"}
ReviewStatus == {"PENDING"} \cup Kickbacks \cup Verdicts

\* VALID_TRANSITIONS from PENDING, the APPROVER rows.
Verdict ==
    [APPROVE              |-> "APPROVED",
     APPROVE_NEEDS_REVIEW |-> "APPROVED_NEEDS_REVIEW",
     REJECT               |-> "REJECTED",
     NEEDS_INFO           |-> "NEEDS_INFO",
     NEEDS_ADJUSTMENT     |-> "NEEDS_ADJUSTMENT"]

LineOps    == Actions \cup {"REOPEN", "RESPOND"}
FormOps    == {"SAVE", "SAVE_AND_SUBMIT"}
ReturnOps  == {"PULL_BACK", "SEND_BACK"}
Ops        == LineOps \cup FormOps \cup ReturnOps \cup {"SUBMIT"}

Columns == [status : ReviewStatus, needsAction : BOOLEAN]

\* seen: the columns of the line when it was loaded; gone: a row it loaded has
\* been deleted since, which makes its flush or its refresh fail.
Request == [op : Ops, line : Lines \cup {NULL},
            seen : Columns \cup {NULL}, gone : BOOLEAN]

ASSUME GroupAssumption ==
    /\ Actions \subseteq DOMAIN Verdict
    /\ FormOverlaps \in BOOLEAN
    /\ NULL \notin ReviewStatus \cup Request

VARIABLES
    status,         \* WorkItem.status
    lines,          \* the lines the request has now
    line,           \* status and needs_requester_action of each
    review,         \* status of its APPROVAL_GROUP review, NULL without a row
    deadlinePassed, \* is the event's TechOps deadline over
    req             \* the requests under way

vars == <<status, lines, line, review, deadlinePassed, req>>
itemVars == <<status, lines, line, review>>

Fresh == [status |-> "PENDING", needsAction |-> FALSE]

Init ==
    /\ status = "DRAFT"
    /\ lines \in SUBSET Lines
    /\ line = [l \in Lines |-> Fresh]
    /\ review = [l \in Lines |-> NULL]
    /\ deadlinePassed \in BOOLEAN
    /\ req = [s \in Slots |-> NULL]

-----------------------------------------------------------------------------
(***************************************************************************)
(* What is loaded and checked before the locks.                            *)
(***************************************************************************)

Opens(s, op, l, seen) ==
    /\ req[s] = NULL
    /\ req' = [req EXCEPT ![s] =
                   [op |-> op, line |-> l, seen |-> seen, gone |-> FALSE]]
    /\ UNCHANGED <<itemVars, deadlinePassed>>

\* techops_request_submit: build_work_item_perms wants a draft with lines.
BeginSubmit(s) ==
    /\ status = "DRAFT"
    /\ lines # {}
    /\ Opens(s, "SUBMIT", NULL, NULL)

\* _load_draft: the edit form loads the request once and asks for a draft.
BeginForm(s) ==
    /\ status = "DRAFT"
    /\ \E op \in FormOps : Opens(s, op, NULL, NULL)

\* _load_locked loads the request; it decides only after the lock.
BeginReturn(s) ==
    \E op \in ReturnOps : Opens(s, op, NULL, NULL)

\* _handle_review_action, line_reopen and line_respond load the line and its
\* review.  A line without a review is refused: it has no routed group, or the
\* request is a draft again.
BeginOnLine(s, l) ==
    /\ l \in lines
    /\ review[l] # NULL
    /\ \E op \in LineOps :
        /\ op = "REOPEN"  => review[l] \in {"APPROVED", "REJECTED"}
        /\ op = "RESPOND" => review[l] \in Kickbacks
        /\ Opens(s, op, l, line[l])

-----------------------------------------------------------------------------
(***************************************************************************)
(* Decisions: apply_review_decision.                                       *)
(***************************************************************************)

\* VALID_TRANSITIONS, on the review as refreshed under its lock.  The flag a
\* response is checked against is the one the handler loaded.
TransitionAllowed(r) ==
    CASE r.op = "REOPEN"  -> review[r.line] \in {"APPROVED", "REJECTED"}
      [] r.op = "RESPOND" -> review[r.line] \in Kickbacks /\ r.seen.needsAction
      [] OTHER            -> review[r.line] = "PENDING"

\* Seeded fault: the review is not read again under its lock, so that a decision
\* taken on a stale page replaces the one that came before it.
DecisionAcceptedStale(r) ==
    /\ ~r.gone
    /\ status # "DRAFT"
    /\ r.op = "RESPOND" => r.seen.needsAction

\* The guards of apply_review_decision after it has locked request and review.
DecisionAccepted(r) ==
    /\ ~r.gone
    /\ status # "DRAFT"
    /\ TransitionAllowed(r)

\* The status an action leads to.
Result(op) == IF op \in {"REOPEN", "RESPOND"} THEN "PENDING" ELSE Verdict[op]

\* sync_line_status through the unit of work: a column that already had the new
\* value when the line was loaded is not written.
SyncedLine(seen, newStatus, current) ==
    LET flag == newStatus \in Kickbacks
    IN  [status      |-> IF newStatus = seen.status THEN current.status
                         ELSE newStatus,
         needsAction |-> IF flag = seen.needsAction THEN current.needsAction
                         ELSE flag]

\* Seeded fault: a question to the department does not keep the request open.
UndecidedIgnoringQuestions(reviews) ==
    {l \in Lines : reviews[l] = "PENDING"}

\* Reviews that keep try_auto_finalize from finalizing.
Undecided(reviews) ==
    {l \in Lines : reviews[l] \in {"PENDING"} \cup Kickbacks}

\* try_auto_finalize: the request has reviews and all of them are decided.
AutoFinalized(itemStatus, reviews) ==
    IF /\ \E l \in Lines : reviews[l] # NULL
       /\ Undecided(reviews) = {}
    THEN "FINALIZED" ELSE itemStatus

\* A reopened line takes the request out of FINALIZED.
StatusAfter(op) ==
    IF op = "REOPEN" /\ status = "FINALIZED" THEN "SUBMITTED" ELSE status

Decision(r) ==
    LET l == r.line
    IN  /\ review' = [review EXCEPT ![l] = Result(r.op)]
        /\ line' = [line EXCEPT ![l] = SyncedLine(r.seen, Result(r.op), @)]
        /\ status' = AutoFinalized(StatusAfter(r.op), review')
        /\ UNCHANGED lines

-----------------------------------------------------------------------------
(***************************************************************************)
(* Submit, and the two ways back.                                          *)
(***************************************************************************)

\* submit_work_item neither locks nor asks again for a draft; what stops a
\* second submit is the unique key of the reviews it inserts.
SubmitAccepted(r) ==
    /\ ~r.gone
    /\ \A l \in lines : review[l] = NULL

Submitted ==
    /\ status' = "SUBMITTED"
    /\ review' = [l \in Lines |-> IF l \in lines THEN "PENDING" ELSE review[l]]
    /\ UNCHANGED <<lines, line>>

\* Seeded fault: _all_reviews_pending is not asked again after the lock.
PullBackAcceptedUnchecked == status = "SUBMITTED" /\ ~deadlinePassed

\* techops_return_options for a department editor, computed under the lock.
PullBackAccepted ==
    /\ status = "SUBMITTED"
    /\ ~deadlinePassed
    /\ \A l \in lines : review[l] \in {NULL, "PENDING"}

\* techops_return_options for a TechOps admin.
SendBackAccepted == status \in {"SUBMITTED", "FINALIZED"}

\* reset_submitted_to_draft: reviews are deleted, the lines start over.
Returned ==
    /\ status' = "DRAFT"
    /\ line' = [l \in Lines |-> IF l \in lines THEN Fresh ELSE line[l]]
    /\ review' = [l \in Lines |-> IF l \in lines THEN NULL ELSE review[l]]
    /\ UNCHANGED lines

\* replace_lines deletes the lines it loaded, their reviews with them, and
\* writes new ones; the unique line numbers fail one of two overlapping saves.
Saved(newLines) ==
    /\ lines' = newLines
    /\ line' = [l \in Lines |-> Fresh]
    /\ review' = [l \in Lines |-> NULL]
    /\ UNCHANGED status

-----------------------------------------------------------------------------
(***************************************************************************)
(* The second half of each handler.                                        *)
(***************************************************************************)

\* Rows deleted by this step are gone for the others that loaded them.
Closes(s, lost) ==
    req' = [t \in Slots |->
               IF t = s THEN NULL
               ELSE IF req[t] # NULL /\ req[t].op \in lost
                    THEN [req[t] EXCEPT !.gone = TRUE]
                    ELSE req[t]]

\* What the instance leaves out when it does not let a form save overlap.
FormLetsPass(s) ==
    FormOverlaps \/ \A t \in Slots \ {s} :
                        req[t] # NULL => req[t].op \notin FormOps

FinishDecision(s) ==
    /\ req[s].op \in LineOps
    /\ DecisionAccepted(req[s])
    /\ Decision(req[s])
    /\ Closes(s, {})

FinishSubmit(s) ==
    /\ req[s].op = "SUBMIT"
    /\ SubmitAccepted(req[s])
    /\ Submitted
    /\ Closes(s, {})

FinishReturn(s) ==
    /\ \/ req[s].op = "PULL_BACK" /\ PullBackAccepted
       \/ req[s].op = "SEND_BACK" /\ SendBackAccepted
    /\ Returned
    /\ Closes(s, LineOps)

FinishSave(s) ==
    /\ req[s].op = "SAVE"
    /\ ~req[s].gone
    /\ \E S \in SUBSET Lines : Saved(S)
    /\ Closes(s, LineOps \cup FormOps \cup {"SUBMIT"})

\* The form's own submit: the save commits, then the same handler goes on to
\* submit what it reads back, and does not ask for a draft again.
FinishSaveAndSubmit(s) ==
    /\ req[s].op = "SAVE_AND_SUBMIT"
    /\ ~req[s].gone
    /\ \E S \in (SUBSET Lines) \ {{}} : Saved(S)
    /\ req' = [t \in Slots |->
                  IF t = s THEN [req[s] EXCEPT !.op = "SUBMIT"]
                  ELSE IF req[t] # NULL /\ req[t].op \notin ReturnOps
                       THEN [req[t] EXCEPT !.gone = TRUE]
                       ELSE req[t]]

\* Everything else a handler can find ends it without a trace.
Refused(s) ==
    LET r == req[s]
        accepted == CASE r.op \in LineOps    -> DecisionAccepted(r)
                      [] r.op = "SUBMIT"    -> SubmitAccepted(r)
                      [] r.op = "PULL_BACK" -> PullBackAccepted
                      [] r.op = "SEND_BACK" -> SendBackAccepted
                      [] OTHER              -> ~r.gone
    IN  /\ ~accepted
        /\ Closes(s, {})
        /\ UNCHANGED itemVars

Begin(s) ==
    \/ BeginSubmit(s)
    \/ BeginForm(s)
    \/ BeginReturn(s)
    \/ \E l \in Lines : BeginOnLine(s, l)

Finish(s) ==
    /\ req[s] # NULL
    /\ FormLetsPass(s)
    /\ \/ FinishDecision(s)
       \/ FinishSubmit(s)
       \/ FinishReturn(s)
       \/ FinishSave(s)
       \/ FinishSaveAndSubmit(s)
       \/ Refused(s)
    /\ UNCHANGED deadlinePassed

\* Time passes, or an admin moves the event's deadline.
DeadlineMoves ==
    /\ deadlinePassed' = ~deadlinePassed
    /\ UNCHANGED <<itemVars, req>>

Next ==
    \/ \E s \in Slots : Begin(s) \/ Finish(s)
    \/ DeadlineMoves

Spec == Init /\ [][Next]_vars

-----------------------------------------------------------------------------
(***************************************************************************)
(* Properties.                                                             *)
(***************************************************************************)

TypeOK ==
    /\ status \in {"DRAFT", "SUBMITTED", "FINALIZED"}
    /\ lines \subseteq Lines
    /\ line \in [Lines -> Columns]
    /\ review \in [Lines -> ReviewStatus \cup {NULL}]
    /\ deadlinePassed \in BOOLEAN
    /\ req \in [Slots -> Request \cup {NULL}]

\* A request is FINALIZED exactly when every line it has was decided: two
\* reviewers deciding the last two lines at once do not both leave it open, and
\* reopening one line brings it back (try_auto_finalize, apply_review_decision).
FinalizedIffDecided ==
    status # "DRAFT" =>
        (status = "FINALIZED" <=> \A l \in lines : review[l] \in Verdicts)

\* Reviews exist exactly while the request is out of the department's hands;
\* none of a draft that was sent back is left for a reviewer's stale page.
ReviewsWhileSubmitted ==
    \A l \in Lines : review[l] # NULL <=> status # "DRAFT" /\ l \in lines

\* A department that takes its request back erases no decision and no question
\* of a reviewer, also when one lands between its page and its click.
PullBackErasesNothing ==
    [][\A s \in Slots :
          /\ req[s] # NULL /\ req'[s] = NULL
          /\ req[s].op = "PULL_BACK" /\ status' # status
          => \A l \in lines : review[l] = "PENDING"]_vars

\* The request as its department sees it.
Promise == INSTANCE ItemReview WITH
    NONE    <- NULL,
    phase   <- CASE status = "DRAFT"     -> "DRAFT"
                 [] status = "SUBMITTED" -> "OPEN"
                 [] status = "FINALIZED" -> "CLOSED",
    asked   <- IF status = "DRAFT" THEN {} ELSE lines,
    verdict <- [l \in Lines |-> IF review[l] \in Verdicts THEN review[l] ELSE NULL]

\* The handlers, overlapping as they may, keep the promise of ItemReview.
KeepsPromise == Promise!Spec

-----------------------------------------------------------------------------
(* What the repository says and the code does not do.                      *)

\* Every line of a submitted request is before its group: what a form writes
\* never replaces lines that are under review (replace_lines calls itself safe
\* because only drafts reach it).
SubmittedLinesHaveReviews ==
    status # "DRAFT" => \A l \in lines : review[l] # NULL

\* The line tells its readers what its review says, and a line its group has a
\* question about is one its department can answer (sync_line_status).
LineMirrorsReview ==
    \A l \in lines : review[l] # NULL =>
        /\ line[l].status = review[l]
        /\ line[l].needsAction <=> review[l] \in Kickbacks
=============================================================================
