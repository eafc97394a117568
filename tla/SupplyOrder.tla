---------------------------- MODULE SupplyOrder ----------------------------
(***************************************************************************)
(* One supply order, from the cart to FINALIZED (routes/work/supply/).     *)
(*                                                                         *)
(* A requester fills the cart from the catalog, saves and submits it; the  *)
(* approval group decides each line or sends it back with a question; an   *)
(* admin of the work type sets the approved quantities and finalizes.      *)
(*                                                                         *)
(* A handler loads the order, decides from what it loaded, and commits.    *)
(* The requests of one slow client are two steps, Begin and Finish, with   *)
(* whole requests of anybody else between them; every handler body is one  *)
(* operator over what it loaded, used for both.  The requester's browser   *)
(* may show a page older than either.                                      *)
(*                                                                         *)
(* Of a quantity it matters whether it is zero.  Not here: the answers an  *)
(* order must carry before it is submitted (pickup time, spaces,           *)
(* confidence, notes), each a refusal that writes nothing, and the review  *)
(* session a group member must hold.                                       *)
(***************************************************************************)
EXTENDS Integers, FiniteSets, FiniteSetsExt

CONSTANTS Lines,         \* bound: line numbers the order reaches, 1..n
          Items,         \* catalog items, all active and routed to a group
          Verdicts,      \* bound: the group's decisions explored
          NULL           \* no row, or a column that is NULL

VARIABLES status,   \* WorkItem.status
          lines,    \* [Lines -> Line \cup {NULL}], the rows of the order
          page,     \* [Lines -> Items \cup {NULL}], the order page on screen
          slow      \* the request under way, or NULL

vars == <<status, lines, page, slow>>

Kickbacks == {"NEEDS_INFO", "NEEDS_ADJUSTMENT"}
Statuses  == {"PENDING", "APPROVED", "REJECTED"} \cup Kickbacks

\* said is the item the page named with which the quantity was last saved.
Line == [item : Items, said : Items,
         status : Statuses, needsAction : BOOLEAN,
         review : Statuses \cup {NULL},                    \* APPROVAL_GROUP
         admin : {"APPROVED", "REJECTED", NULL},           \* ADMIN_FINAL
         noted : BOOLEAN,                                  \* its note
         approved : {"none", "some", NULL}]                \* quantity_approved

Ops == {"add", "save", "save_and_submit", "submit_after_save", "submit",
        "update", "finalize"}

\* gone: numbers whose loaded row has been deleted since.
Loaded == [op : Ops, status : {"DRAFT", "SUBMITTED", "FINALIZED"},
           lines : [Lines -> Line \cup {NULL}],
           page : [Lines -> Items \cup {NULL}], gone : SUBSET Lines]

ASSUME SupplyAssumption ==
    /\ Lines \subseteq Nat /\ 0 \notin Lines
    /\ Verdicts \subseteq Statuses \ {"PENDING"}
    /\ NULL \notin Items \cup Line \cup Loaded \cup Statuses \cup {"none", "some"}

TypeOK ==
    /\ status \in {"DRAFT", "SUBMITTED", "FINALIZED"}
    /\ lines \in [Lines -> Line \cup {NULL}]
    /\ page \in [Lines -> Items \cup {NULL}]
    /\ slow \in Loaded \cup {NULL}

NoPage == [n \in Lines |-> NULL]

Rows(order) == {n \in Lines : order[n] # NULL}

Init ==
    /\ status = "DRAFT"
    /\ lines = [n \in Lines |-> NULL]
    /\ page = NoPage
    /\ slow = NULL

-----------------------------------------------------------------------------
(* The cart: supply_line_add, supply_line_update, supply_order_save.       *)

NewLine(item) ==
    [item |-> item, said |-> item, status |-> "PENDING", needsAction |-> FALSE,
     review |-> NULL, admin |-> NULL, noted |-> FALSE, approved |-> NULL]

NextNumber(order) == 1 + Max({0} \cup Rows(order))

\* The number comes from the lines loaded; uq(work_item_id, line_number)
\* fails the insert of a number that was taken since.
Add(r, item) ==
    LET n == NextNumber(r.lines)
    IN  /\ r.status = "DRAFT"
        /\ n \in Lines                   \* bound
        /\ lines[n] = NULL
        /\ lines' = [lines EXCEPT ![n] = NewLine(item)]
        /\ UNCHANGED status

\* is_line_kickback_editable
KickbackEditable(line) == line.needsAction /\ line.status = "NEEDS_ADJUSTMENT"

\* Seeded fault: the page's idea of the line is not compared with the line.
SameItemAssumed(shown, line) == TRUE

\* "Refuse, never overwrite."
SameItem(shown, line) == shown = line.item

\* The catalog and item pages post the item they show; the form of a kicked
\* back line on the order page does not.
Update(r, n, posted) ==
    /\ n \in Rows(r.lines) \ r.gone
    /\ r.status = "DRAFT" \/ KickbackEditable(r.lines[n])
    /\ posted = NULL => KickbackEditable(r.lines[n])
    /\ posted # NULL => SameItem(posted, r.lines[n])
    /\ lines' = [lines EXCEPT ![n].said = IF posted = NULL THEN @ ELSE posted]
    /\ UNCHANGED status

\* The whole page: a line the page does not show is left alone, one whose item
\* is another now refuses the save.  An UPDATE of a deleted row fails it too,
\* but a value that did not change makes no UPDATE: untouched are those lines.
Save(r, untouched, remove) ==
    LET posted == {n \in Rows(r.lines) : r.page[n] # NULL}
        saved  == posted \ (untouched \cup remove)
    IN  /\ r.status = "DRAFT"
        /\ \A n \in posted : SameItem(r.page[n], r.lines[n])
        /\ saved \cup remove \subseteq Rows(r.lines) \ r.gone
        /\ lines' = [n \in Lines |->
              IF n \in remove THEN NULL
              ELSE IF n \in saved THEN [lines[n] EXCEPT !.said = r.page[n]]
              ELSE lines[n]]
        /\ UNCHANGED status

-----------------------------------------------------------------------------
(* Submit: submit_order over submit_work_item.  The unique review key is   *)
(* what refuses a line that was submitted since it was loaded.             *)

Routed(order) ==
    [n \in Lines |-> IF n \in order THEN [lines[n] EXCEPT !.review = "PENDING"] ELSE lines[n]]

Submits(order, gone) ==
    /\ order # {}
    /\ gone \cap order = {}
    /\ \A n \in order : lines[n].review = NULL
    /\ lines' = Routed(order)
    /\ status' = "SUBMITTED"

Submit(r) == r.status = "DRAFT" /\ Submits(Rows(r.lines), r.gone)

\* After its first commit the save-and-submit handler sees fresh rows, and asks
\* nobody again whether the order is a draft.
SubmitAfterSave == Submits(Rows(lines), {})

-----------------------------------------------------------------------------
(* The approval group.  apply_review_decision locks and refreshes order    *)
(* and review, so that a decision is one step.                             *)

Decide(n, verdict) ==
    /\ status # "DRAFT"
    /\ n \in Rows(lines)
    /\ lines[n].review = "PENDING"
    /\ lines[n].admin = NULL
    /\ lines' = [lines EXCEPT ![n].review = verdict, ![n].status = verdict,
                              ![n].needsAction = verdict \in Kickbacks]
    /\ UNCHANGED <<status, page, slow>>

Respond(n) ==
    /\ status # "DRAFT"
    /\ n \in Rows(lines)
    /\ lines[n].review \in Kickbacks
    /\ lines[n].needsAction
    /\ lines' = [lines EXCEPT ![n].review = "PENDING", ![n].status = "PENDING",
                              ![n].needsAction = FALSE]
    /\ UNCHANGED <<status, page, slow>>

-----------------------------------------------------------------------------
(* supply_admin_finalize.  The order is loaded, then its row is locked;    *)
(* the lock's read does not replace the loaded columns, so that the status *)
(* and the flags are as loaded.  The group's reviews are queried after the *)
(* lock, and are current.                                                  *)

\* Seeded fault: the reviews are those of the rows loaded before the lock.
GroupReviewAsLoaded(r, n) == r.lines[n].review

GroupReview(r, n) == lines[n].review

\* _is_line_kicked_back
KickedBack(r, n) == r.lines[n].needsAction \/ GroupReview(r, n) \in Kickbacks

\* Seeded fault: only turning an approval down counts as overriding.
OverridingDownOnly(review, quantity) == review = "APPROVED" /\ quantity = "none"

Overriding(review, quantity) ==
    \/ review = "APPROVED" /\ quantity = "none"
    \/ review = "REJECTED" /\ quantity = "some"

Outcome(quantity) == IF quantity = "some" THEN "APPROVED" ELSE "REJECTED"

\* Line and detail are written where they differ from what was loaded; the
\* admin review is read under its own lock.
Decided(line, loaded, quantity, note) ==
    [line EXCEPT !.admin = Outcome(quantity), !.noted = note,
                 !.approved = IF quantity = loaded.approved THEN @ ELSE quantity,
                 !.status = IF Outcome(quantity) = loaded.status THEN @
                            ELSE Outcome(quantity)]

Finalize(r, quantities, notes) ==
    LET order == Rows(r.lines)
    IN  /\ r.status = "SUBMITTED"
        /\ r.gone \cap order = {}
        /\ \A n \in order : ~ KickedBack(r, n)
        /\ \A n \in order : Overriding(GroupReview(r, n), quantities[n]) => notes[n]
        /\ lines' = [n \in Lines |->
              IF n \in order THEN Decided(lines[n], r.lines[n], quantities[n], notes[n])
              ELSE lines[n]]
        /\ status' = "FINALIZED"

-----------------------------------------------------------------------------
(* What the admin sees: the finalize queue and the finalize screen.        *)

\* supply_admin_queue: a line without a review does not count.
Ready ==
    LET reviewed == {n \in Rows(lines) : lines[n].review # NULL}
    IN  /\ status = "SUBMITTED"
        /\ reviewed # {}
        /\ \A n \in reviewed : lines[n].review \in {"APPROVED", "REJECTED"}

\* Seeded fault: the screen always starts from the quantity requested.
DefaultAsRequested(review) == "some"

\* _build_finalize_view: the quantity the screen starts from.
Default(review) == IF review = "REJECTED" THEN "none" ELSE "some"

-----------------------------------------------------------------------------
(* Requests.                                                               *)

\* What a handler that loads the order now works with; the pages of a save are
\* the only ones that list lines.
Load(op) ==
    [op |-> op, status |-> status, lines |-> lines, gone |-> {},
     page |-> IF op \in {"save", "save_and_submit"} THEN page ELSE NoPage]

\* The status a handler asks for as soon as it has loaded the order.
Opens(op) ==
    CASE op = "finalize" -> status = "SUBMITTED"
      [] op = "update"   -> \E n \in Rows(lines) :
                                status = "DRAFT" \/ KickbackEditable(lines[n])
      [] OTHER           -> status = "DRAFT"

Begin(op) ==
    /\ slow = NULL
    /\ Opens(op)
    /\ slow' = Load(op)
    /\ UNCHANGED <<status, lines, page>>

\* The body of a handler, over what it loaded.
Body(r) ==
    \/ /\ r.op = "add"
       /\ \E item \in Items : Add(r, item)
    \/ /\ r.op = "update"
       /\ \E n \in Lines, posted \in Items \cup {NULL} : Update(r, n, posted)
    \/ /\ r.op = "save"
       /\ \E untouched \in SUBSET Lines, remove \in {{}} \cup {{n} : n \in Lines} :
             Save(r, untouched, remove)
    \/ /\ r.op = "submit"
       /\ Submit(r)
    \/ /\ r.op = "finalize"
       /\ \E quantities \in [Lines -> {"none", "some"}], notes \in [Lines -> BOOLEAN] :
             Finalize(r, quantities, notes)

\* Somebody else's whole request, between two steps of the slow one.
Request ==
    /\ \E op \in Ops : Body(Load(op))
    /\ slow' = IF slow = NULL THEN NULL
               ELSE [slow EXCEPT !.gone = @ \cup {n \in Rows(lines) : lines'[n] = NULL}]
    /\ UNCHANGED page

Finish ==
    /\ slow # NULL
    /\ Body(slow)
    /\ slow' = NULL
    /\ UNCHANGED page

\* Saved and committed; the submit half has still to run.
FinishSave ==
    /\ slow # NULL
    /\ slow.op = "save_and_submit"
    /\ \E untouched \in SUBSET Lines : Save(slow, untouched, {})
    /\ slow' = [slow EXCEPT !.op = "submit_after_save"]
    /\ UNCHANGED page

FinishSubmitAfterSave ==
    /\ slow # NULL
    /\ slow.op = "submit_after_save"
    /\ SubmitAfterSave
    /\ slow' = NULL
    /\ UNCHANGED page

\* Refused, or failed on a key or a deleted row: nothing is written.
Fail ==
    /\ slow # NULL
    /\ slow' = NULL
    /\ UNCHANGED <<status, lines, page>>

\* The requester opens the order page.
View ==
    /\ page' = [n \in Lines |-> IF lines[n] = NULL THEN NULL ELSE lines[n].item]
    /\ UNCHANGED <<status, lines, slow>>

Next ==
    \/ \E op \in Ops \ {"submit_after_save"} : Begin(op)
    \/ Request \/ Finish \/ FinishSave \/ FinishSubmitAfterSave \/ Fail \/ View
    \/ \E n \in Lines : Respond(n) \/ \E verdict \in Verdicts : Decide(n, verdict)

Spec == Init /\ [][Next]_vars

-----------------------------------------------------------------------------
(* Properties.                                                             *)

\* No line of a finalized order waits for the department: neither a kickback
\* that arrived while the admin's request was between its load and its lock,
\* nor one after it (admin.py: finalize "must hard-block until the requester
\* resolves it", and the group may not decide once an admin has).
FinalizedIsAnswered ==
    status = "FINALIZED" => \A n \in Rows(lines) : lines[n].review \notin Kickbacks

\* An approved quantity that contradicts the group's verdict carries a note,
\* against the verdict that stands and not the one the finalize screen showed
\* (supply_admin_finalize: "Overriding a review-group decision ... requires a
\* note").
OverridesAreNoted ==
    \A n \in Rows(lines) :
        <<lines[n].review, lines[n].approved>> \in
            {<<"APPROVED", "none">>, <<"REJECTED", "some">>} => lines[n].noted

\* The badge of the queue is true: an order it calls ready can be finalized at
\* once from its screen, no line blocks it and no default overrides the group,
\* although the badge reads the reviews and the block reads the lines' flags.
ReadyIsFinalizable ==
    Ready => \A n \in Rows(lines) :
                /\ ~ KickedBack(Load("finalize"), n)
                /\ ~ Overriding(lines[n].review, Default(lines[n].review))

\* A quantity on the order was entered for the item it now stands next to,
\* although numbers are reused after a delete and pages go stale (order.py:
\* "a stale page can name a line that now holds another item. Refuse, never
\* overwrite").
QuantityIsForItsItem == \A n \in Rows(lines) : lines[n].said = lines[n].item

-----------------------------------------------------------------------------
(* What the repository says and the code does not do.                      *)

\* What the comment on the lock says: the status is checked again "in case
\* another request finalized it" (admin.py:410-413), so the quantities of a
\* finalized order stand.  They do not: the check reads the loaded status.
FinalizedStands ==
    [][status = "FINALIZED" =>
         \A n \in Rows(lines) \cap Rows(lines') :
             lines[n].approved # NULL => lines'[n].approved = lines[n].approved]_vars

=============================================================================
