---------------------------- MODULE EventBudgets ----------------------------
(***************************************************************************)
(* The budget requests of one department at one event, above their review: *)
(* creation, submission, dispatch, finalization and its undoing, the       *)
(* pausing of supplementary requests while their primary is open, and the  *)
(* board's approval of the event, which releases every finalized budget    *)
(* and queues the mail that tells the department.                          *)
(*                                                                         *)
(* A handler is two steps.  Begin loads rows, takes the row lock the code  *)
(* takes with FOR UPDATE, and checks.  Finish writes and commits; it waits *)
(* for the rows it writes to be free.  What a handler read without a lock  *)
(* may have changed by then, and the code does not look again.  The review *)
(* of the lines is BudgetReview, the queue behind the mail is EmailOutbox: *)
(* here an admin may finalize any submitted request, and a queued mail is  *)
(* sent in one step.                                                       *)
(***************************************************************************)
EXTENDS Naturals, FiniteSets

CONSTANTS
    Primaries,          \* rows that may become PRIMARY requests
    Supplementaries,    \* rows that may become SUPPLEMENTARY requests
    Slots,              \* HTTP requests that can be under way together
    MaxStamps,          \* releases and automatic releases explored
    MaxFinals,          \* finalizations of one request explored
    NULL

ASSUME EventAssumption ==
    /\ Primaries \cap Supplementaries = {}
    /\ "EVENT" \notin Primaries \cup Supplementaries
    /\ MaxStamps \in Nat /\ MaxFinals \in Nat
    /\ NULL \notin Slots \cup (1 .. MaxStamps)

Items    == Primaries \cup Supplementaries
Stamps   == 1 .. MaxStamps
Statuses == {"NONE", "DRAFT", "AWAITING_DISPATCH", "SUBMITTED", "PAUSED", "FINALIZED"}
Ops      == {"CREATE", "SUBMIT", "RECALL", "DISPATCH", "FINALIZE", "UNFINALIZE", "RELEASE"}

VARIABLES
    status,     \* WorkItem.status, NONE before the row exists
    reviewed,   \* have its lines WorkLineReview rows of the approval group
    released,   \* WorkItem.board_released_at
    finals,     \* how often the request has been finalized
    receipts,   \* submission receipts queued since it was last a draft
    approvedAt, \* EventCycle.board_approved_at
    early,      \* EventCycle.allow_early_supplementary
    live,       \* will the finalized template send for this event
    mail,       \* the outbox rows of the finalized template
    clock,      \* the last release time given out
    lock,       \* who holds the row of an item, or of the event
    req,        \* the handlers under way
    crossed     \* has one written over rows that changed after it read them

itemVars  == <<status, reviewed, released, finals, receipts>>
eventVars == <<approvedAt, early, live>>
vars      == <<itemVars, eventVars, mail, clock, lock, req, crossed>>

\* at: the release time it will write; others: the further rows it read;
\* approved: had the board approved when a finalize began.
Request == [op : Ops, item : Items \cup {NULL}, at : Stamps \cup {NULL},
            others : SUBSET Items, approved : BOOLEAN]
Mail == [item : Items, stamp : Stamps, final : 1 .. MaxFinals,
         state : {"QUEUED", "SENT", "CANCELLED"}]

Init ==
    /\ status = [i \in Items |-> "NONE"]
    /\ reviewed = [i \in Items |-> FALSE]
    /\ released = [i \in Items |-> NULL]
    /\ finals = [i \in Items |-> 0]
    /\ receipts = [i \in Items |-> 0]
    /\ approvedAt = NULL
    /\ early \in BOOLEAN
    /\ live = TRUE
    /\ mail = {}
    /\ clock = 0
    /\ lock = [r \in Items \cup {"EVENT"} |-> NULL]
    /\ req = [s \in Slots |-> NULL]
    /\ crossed = FALSE

-----------------------------------------------------------------------------
(***************************************************************************)
(* The rows a handler finds.                                               *)
(***************************************************************************)

Exists(i) == status[i] # "NONE"

\* The primaries of the portfolio; the code takes the first it finds.
MayCreate(i) ==
    IF i \in Primaries
    THEN \A p \in Primaries : ~Exists(p)
    ELSE \E p \in Primaries : Exists(p) /\ (status[p] = "FINALIZED" \/ early)

\* get_held_budgets
Held == {i \in Items : status[i] = "FINALIZED" /\ released[i] = NULL}

\* Supplementaries a finalized primary lets go on, or an open one holds up.
Resumable == {i \in Supplementaries : status[i] = "PAUSED" /\ reviewed[i]}
Pausable  == {i \in Supplementaries : status[i] = "SUBMITTED"}

\* Seeded fault: only a primary request releases by itself.
ReleasesOnFinalizeIfPrimary(i) == i \in Primaries /\ approvedAt # NULL

\* finalize_work_item: the board has approved already.
ReleasesOnFinalize(i) == i \in Items /\ approvedAt # NULL

-----------------------------------------------------------------------------
(***************************************************************************)
(* The queue of release mail.                                              *)
(***************************************************************************)

\* enqueue_email behind notify_work_item_finalized: one row for each item and
\* release time, none at all when the template is dark.
Enqueued(items, at, count) ==
    IF ~live \/ at = NULL THEN mail
    ELSE mail \cup
         {[item |-> i, stamp |-> at, final |-> count[i], state |-> "QUEUED"] :
             i \in {j \in items : \A m \in mail :
                                      m.item # j \/ m.stamp # at \/ m.state = "CANCELLED"}}

\* Seeded fault: the unsent rows stay when a budget goes back to review.
WithdrawnNever(i) == mail

\* _cancel_pending_release_emails
Withdrawn(i) ==
    {IF m.item = i /\ m.state = "QUEUED" THEN [m EXCEPT !.state = "CANCELLED"] ELSE m :
        m \in mail}

\* The drainer reaches a row: it is sent, or ended when the template is dark.
Drain(m) ==
    /\ m.state = "QUEUED"
    /\ mail' = (mail \ {m}) \cup
               {[m EXCEPT !.state = IF live THEN "SENT" ELSE "CANCELLED"]}
    /\ UNCHANGED <<itemVars, eventVars, clock, lock, req, crossed>>

\* An admin silences the template for the event, or opens it again.
ToggleTemplate ==
    /\ live' = ~live
    /\ UNCHANGED <<itemVars, approvedAt, early, mail, clock, lock, req, crossed>>

-----------------------------------------------------------------------------
(***************************************************************************)
(* Handlers begin.                                                         *)
(***************************************************************************)

Opens(s, op, i, at, others) ==
    /\ req[s] = NULL
    /\ req' = [req EXCEPT ![s] = [op |-> op, item |-> i, at |-> at, others |-> others,
                                  approved |-> op = "FINALIZE" /\ approvedAt # NULL]]
    /\ UNCHANGED <<itemVars, eventVars, mail, crossed>>

Takes(s, row) ==
    /\ lock[row] = NULL
    /\ lock' = [lock EXCEPT ![row] = s]

BeginCreate(s, i) ==
    /\ ~Exists(i)
    /\ \A t \in Slots : req[t] # NULL => req[t].op # "CREATE" \/ req[t].item # i
    /\ MayCreate(i)
    /\ Opens(s, "CREATE", i, NULL, {})
    /\ UNCHANGED <<clock, lock>>

BeginSubmit(s, i) ==
    /\ status[i] = "DRAFT"
    /\ Opens(s, "SUBMIT", i, NULL, {})
    /\ UNCHANGED <<clock, lock>>

BeginRecall(s, i) ==
    /\ status[i] = "AWAITING_DISPATCH"
    /\ Opens(s, "RECALL", i, NULL, {})
    /\ UNCHANGED <<clock, lock>>

\* The status is checked on the instance loaded before the lock.
BeginDispatch(s, i) ==
    /\ status[i] = "AWAITING_DISPATCH"
    /\ Opens(s, "DISPATCH", i, NULL, {})
    /\ UNCHANGED <<clock, lock>>

BeginFinalize(s, i) ==
    /\ Takes(s, i)
    /\ status[i] = "SUBMITTED"
    /\ finals[i] < MaxFinals
    /\ IF ReleasesOnFinalize(i)
       THEN clock < MaxStamps /\ clock' = clock + 1
       ELSE UNCHANGED clock
    /\ Opens(s, "FINALIZE", i,
             IF ReleasesOnFinalize(i) THEN clock + 1 ELSE NULL,
             IF i \in Primaries THEN Resumable ELSE {})

BeginUnfinalize(s, i) ==
    /\ Takes(s, i)
    /\ status[i] = "FINALIZED"
    /\ Opens(s, "UNFINALIZE", i, NULL, IF i \in Primaries THEN Pausable ELSE {})
    /\ UNCHANGED clock

\* Seeded fault: a release locks nothing.
TakesEventNever(s) == UNCHANGED lock

TakesEvent(s) == Takes(s, "EVENT")

\* A dark template refuses the whole release, unless nothing is held.
BeginRelease(s) ==
    /\ TakesEvent(s)
    /\ live \/ Held = {}
    /\ clock < MaxStamps
    /\ clock' = clock + 1
    /\ Opens(s, "RELEASE", NULL, clock + 1, Held)

-----------------------------------------------------------------------------
(***************************************************************************)
(* Handlers finish.                                                        *)
(***************************************************************************)

Freed(s) == [r \in DOMAIN lock |-> IF lock[r] = s THEN NULL ELSE lock[r]]

\* The handler of s commits: its rows are free of others, its locks go.
Closes(s, rows) ==
    /\ \A i \in rows : lock[i] \in {NULL, s}
    /\ lock' = Freed(s)
    /\ req' = [req EXCEPT ![s] = NULL]
    /\ UNCHANGED <<early, live, clock>>

\* What the handler read without a lock has changed since.
Notes(stale) == crossed' = (crossed \/ stale)

FinishCreate(s) ==
    LET i == req[s].item IN
    /\ Closes(s, {i})
    /\ status' = [status EXCEPT ![i] = "DRAFT"]
    /\ UNCHANGED <<reviewed, released, finals, receipts, approvedAt, mail, crossed>>

FinishSubmit(s) ==
    LET i == req[s].item IN
    /\ Closes(s, {i})
    /\ status' = [status EXCEPT ![i] = "AWAITING_DISPATCH"]
    /\ receipts' = [receipts EXCEPT ![i] = @ + 1]
    /\ Notes(status[i] # "DRAFT")
    /\ UNCHANGED <<reviewed, released, finals, approvedAt, mail>>

FinishRecall(s) ==
    LET i == req[s].item IN
    /\ Closes(s, {i})
    /\ status' = [status EXCEPT ![i] = "DRAFT"]
    /\ receipts' = [receipts EXCEPT ![i] = 0]
    /\ Notes(status[i] # "AWAITING_DISPATCH")
    /\ UNCHANGED <<reviewed, released, finals, approvedAt, mail>>

\* A line may get another group than in an earlier dispatch.
FinishDispatch(s) ==
    LET i == req[s].item IN
    /\ Closes(s, {i})
    /\ status' = [status EXCEPT ![i] = "SUBMITTED"]
    /\ reviewed' = [reviewed EXCEPT ![i] = TRUE]
    /\ Notes(status[i] # "AWAITING_DISPATCH")
    /\ UNCHANGED <<released, finals, receipts, approvedAt, mail>>

\* A second review row of a line, stage and group breaks the unique constraint.
FailDispatch(s) ==
    /\ reviewed[req[s].item]
    /\ Closes(s, {req[s].item})
    /\ UNCHANGED <<itemVars, approvedAt, mail, crossed>>

\* i takes one status, the supplementaries read with it another.
StatusWith(i, mine, others, theirs) ==
    [j \in Items |-> IF j = i THEN mine ELSE IF j \in others THEN theirs ELSE status[j]]

\* Seeded fault: the supplementaries stay paused.
AfterFinalizeStillPaused(i, others) == StatusWith(i, "FINALIZED", {}, "SUBMITTED")

AfterFinalize(i, others) == StatusWith(i, "FINALIZED", others, "SUBMITTED")

AfterUnfinalize(i, others) == StatusWith(i, "SUBMITTED", others, "PAUSED")

FinishFinalize(s) ==
    LET i == req[s].item
        at == req[s].at
        others == req[s].others
        count == [finals EXCEPT ![i] = @ + 1]
    IN
    /\ Closes(s, {i} \cup others)
    /\ status' = AfterFinalize(i, others)
    /\ released' = [released EXCEPT ![i] = IF at # NULL THEN at ELSE @]
    /\ finals' = count
    /\ mail' = Enqueued({i}, at, count)
    /\ Notes((~req[s].approved /\ approvedAt # NULL) \/ \E j \in others : status[j] # "PAUSED")
    /\ UNCHANGED <<reviewed, receipts, approvedAt>>

FinishUnfinalize(s) ==
    LET i == req[s].item
        others == req[s].others
    IN
    /\ Closes(s, {i} \cup others)
    /\ status' = AfterUnfinalize(i, others)
    /\ released' = [released EXCEPT ![i] = NULL]
    /\ mail' = Withdrawn(i)
    /\ Notes(\E j \in others : status[j] # "SUBMITTED")
    /\ UNCHANGED <<reviewed, finals, receipts, approvedAt>>

\* The board's date is written once.
Latch(at) == IF approvedAt = NULL THEN at ELSE approvedAt

FinishRelease(s) ==
    LET at == req[s].at
        held == req[s].others
    IN
    /\ Closes(s, held)
    /\ approvedAt' = Latch(at)
    /\ released' = [i \in Items |-> IF i \in held THEN at ELSE released[i]]
    /\ mail' = Enqueued(held, at, finals)
    /\ Notes(\/ ~(Held \subseteq held)
             \/ \E i \in held : \/ status[i] # "FINALIZED"
                               \/ \E m \in mail : m.item = i /\ m.final = finals[i] /\ m.stamp > at)
    /\ UNCHANGED <<status, reviewed, finals, receipts>>

Begin(s) ==
    \/ \E i \in Items :
         \/ BeginCreate(s, i) \/ BeginSubmit(s, i) \/ BeginRecall(s, i)
         \/ BeginDispatch(s, i) \/ BeginFinalize(s, i) \/ BeginUnfinalize(s, i)
    \/ BeginRelease(s)

Finish(s) ==
    /\ req[s] # NULL
    /\ \/ req[s].op = "CREATE"     /\ FinishCreate(s)
       \/ req[s].op = "SUBMIT"     /\ FinishSubmit(s)
       \/ req[s].op = "RECALL"     /\ FinishRecall(s)
       \/ req[s].op = "DISPATCH"   /\ FinishDispatch(s)
       \/ req[s].op = "DISPATCH"   /\ FailDispatch(s)
       \/ req[s].op = "FINALIZE"   /\ FinishFinalize(s)
       \/ req[s].op = "UNFINALIZE" /\ FinishUnfinalize(s)
       \/ req[s].op = "RELEASE"    /\ FinishRelease(s)

Next ==
    \/ \E s \in Slots : Begin(s) \/ Finish(s)
    \/ \E m \in mail : Drain(m)
    \/ ToggleTemplate

Spec == Init /\ [][Next]_vars

-----------------------------------------------------------------------------
(***************************************************************************)
(* Properties.                                                             *)
(***************************************************************************)

\* Every row and handler keeps its shape, and an item row is held only by a
\* handler under way.
TypeOK ==
    /\ status \in [Items -> Statuses]
    /\ reviewed \in [Items -> BOOLEAN]
    /\ released \in [Items -> Stamps \cup {NULL}]
    /\ finals \in [Items -> 0 .. MaxFinals]
    /\ receipts \in [Items -> 0 .. Cardinality(Slots)]
    /\ approvedAt \in Stamps \cup {NULL}
    /\ early \in BOOLEAN /\ live \in BOOLEAN /\ crossed \in BOOLEAN
    /\ mail \subseteq Mail
    /\ clock \in 0 .. MaxStamps
    /\ req \in [Slots -> Request \cup {NULL}]
    /\ lock \in [Items \cup {"EVENT"} -> Slots \cup {NULL}]
    /\ \A r \in DOMAIN lock : lock[r] # NULL => req[lock[r]] # NULL

\* Unfinalize promises that no mail calls a budget final that is back in
\* review: as long as no handler wrote over rows that changed after it read
\* them, a queued release mail names a finalized budget and its release.
QueuedMailIsTrue ==
    ~crossed => \A m \in mail :
                   m.state = "QUEUED" => status[m.item] = "FINALIZED" /\ released[m.item] = m.stamp

\* Overlapping releases are serialised so that a department hears of one
\* finalization once: two rows of one finalization never stand together.
ToldOncePerFinalization ==
    ~crossed => \A m, n \in mail :
                   m.item = n.item /\ m.final = n.final /\ m # n
                       => "CANCELLED" \in {m.state, n.state}

\* FINALIZED after the board's approval means released: once the event is
\* approved no finalized budget is left waiting.
ReleasedOnceApproved ==
    ~crossed => \A i \in Items :
                   approvedAt # NULL /\ status[i] = "FINALIZED" => released[i] # NULL

\* A supplementary is paused only while a primary is open again: whoever
\* overlaps, a finalized primary leaves none behind.
PausedOnlyWhilePrimaryOpen ==
    \A i \in Items : status[i] = "PAUSED" =>
        \E p \in Primaries : Exists(p) /\ status[p] # "FINALIZED"

-----------------------------------------------------------------------------
(* What the repository says and the code does not do.                      *)

\* recall_to_draft: at AWAITING_DISPATCH no reviews exist yet, so this is a
\* clean reversal.
DraftHasNoReviews == \A i \in Items : status[i] = "DRAFT" => ~reviewed[i]

\* email_enqueue: a duplicate click inside one submission still collides.
OneReceiptPerSubmission == \A i \in Items : receipts[i] <= 1

\* unfinalize_work_item withdraws the unsent rows rather than mailing a
\* budget back in review.
NoMailForABudgetInReview ==
    \A m \in mail : m.state = "QUEUED" => status[m.item] = "FINALIZED"
=============================================================================
