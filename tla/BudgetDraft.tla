----------------------------- MODULE BudgetDraft -----------------------------
(***************************************************************************)
(* One budget request while its department writes it: the line form, the   *)
(* fixed-cost and badge tabs, the hotel wizard, deletion, submission,      *)
(* recall and dispatch, and the finance settings that decide which form an *)
(* account belongs to.                                                     *)
(*                                                                         *)
(* Nothing locks the request.  Begin is a handler loading the request, its *)
(* lines and the accounts and passing its checks; Finish is its commit,    *)
(* and other handlers may commit in between.  Quantity, description,       *)
(* confidence, frequency and priority are left out: a line stands for one  *)
(* unit, and a tab posts "wanted" or not for each of its accounts.         *)
(***************************************************************************)
EXTENDS Naturals, FiniteSets, FiniteSetsExt

CONSTANTS
    Accounts,       \* expense accounts
    Rooms,          \* those the hotel wizard names by their code
    Finance,        \* [Accounts -> sets of Setting], how finance may set them
    Prices,         \* what a requester may type
    Groups,         \* approval groups
    Requests,       \* HTTP requests that can be under way together
    MaxIds,         \* lines ever created
    MaxLines,       \* lines the request has at a time
    NULL

Tabs  == {"HOTEL", "BADGE"}
Kinds == {"STANDARD", "FIXED", "HOTEL", "BADGE"}
Ops   == {"EDIT", "SUBMIT", "RECALL", "ASSIGN", "DISPATCH"}

\* An account's columns and its override for the event.  An override with
\* no fixed flag leaves the kind alone, one with no price leaves the price.
Override == [fixed : BOOLEAN \cup {NULL}, tab : Tabs \cup {NULL}, price : Nat \cup {NULL}]
Setting  == [fixed : BOOLEAN, tab : Tabs \cup {NULL}, price : Nat, over : Override,
             shown : BOOLEAN, spend : BOOLEAN]

ASSUME DraftAssumption ==
    /\ IsFiniteSet(Accounts) /\ Rooms \subseteq Accounts
    /\ \A a \in Accounts : Finance[a] # {} /\ \A s \in Finance[a] : s \in Setting
    /\ Prices \subseteq Nat /\ Groups # {} /\ MaxIds \in Nat /\ MaxLines \in Nat
    /\ NULL \notin Nat \cup BOOLEAN \cup Tabs \cup Groups

VARIABLES
    status,     \* WorkItem.status
    lines,      \* its WorkLine rows with their BudgetLineDetail
    reviewed,   \* ids of the lines that have a WorkLineReview
    settings,   \* the accounts' columns and overrides
    nextId,     \* the primary key the next line gets
    req,        \* the handlers under way
    late,       \* ids written when the request had left the requester's hands
    doubled     \* accounts that came by several lines, and not by two tab saves

vars == <<status, lines, reviewed, settings, nextId, req, late, doubled>>

Line == [id : 1 .. MaxIds, number : 1 .. MaxIds, account : Accounts, price : Nat,
         group : Groups \cup {NULL}]

\* Which of the edit forms an EDIT is shows when it finishes: all load the
\* same.  clean: since it loaded, no line has been deleted or moved to another
\* account, and no save that had lost a line that way has numbered a new one.
Row == [id : 1 .. MaxIds, number : 1 .. MaxIds, account : Accounts]
Request == [op : Ops, lines : SUBSET Row, kinds : [Accounts -> Kinds \cup {"HIDDEN"}],
            clean : BOOLEAN]

-----------------------------------------------------------------------------
(***************************************************************************)
(* Accounts under an event's overrides.                                    *)
(***************************************************************************)

\* get_effective_account_type: is it fixed-cost here
FixedUnderOverride(s) == IF s.over.fixed # NULL THEN s.over.fixed ELSE s.fixed

TabUnderOverride(s) == IF s.over.fixed # NULL THEN s.over.tab ELSE s.tab

\* get_categorized_expense_accounts, classify_account
KindOf(s) ==
    IF ~FixedUnderOverride(s) THEN "STANDARD"
    ELSE IF TabUnderOverride(s) = NULL THEN "FIXED" ELSE TabUnderOverride(s)

Category(a) == IF settings[a].shown THEN KindOf(settings[a]) ELSE "HIDDEN"

\* get_effective_fixed_cost_settings
LockedPrice(a) ==
    IF settings[a].over.price # NULL THEN settings[a].over.price ELSE settings[a].price

-----------------------------------------------------------------------------
(***************************************************************************)
(* What the edit page shows.                                               *)
(***************************************************************************)

Of(ls, a) == {l \in ls : l.account = a}

\* The line a tab keeps for an account: the last one it meets.
Kept(ls, a) == CHOOSE l \in Of(ls, a) : \A k \in Of(ls, a) : k.number <= l.number

\* work_item_edit: every line in the table or the hotel list, and one line for
\* each account of the other two tabs.
Shown(l) ==
    \/ Category(l.account) \notin {"FIXED", "BADGE"}
    \/ l = Kept(lines, l.account)

-----------------------------------------------------------------------------
(***************************************************************************)
(* Handlers begin.                                                         *)
(***************************************************************************)

Init ==
    /\ status = "DRAFT"
    /\ lines = {}
    /\ reviewed = {}
    /\ settings \in {f \in [Accounts -> UNION {Finance[a] : a \in Accounts}] :
                        \A a \in Accounts : f[a] \in Finance[a]}
    /\ nextId = 1
    /\ req = [r \in Requests |-> NULL]
    /\ late = {}
    /\ doubled = {}

\* require_work_item_edit for an edit, can_recall for a recall, the status the
\* dispatcher's handlers find.
MayOpen(op) ==
    IF op \in {"EDIT", "SUBMIT"} THEN status = "DRAFT" ELSE status = "AWAITING_DISPATCH"

Rows(ls) == {[id |-> l.id, number |-> l.number, account |-> l.account] : l \in ls}

Begin(r, op) ==
    /\ req[r] = NULL
    /\ MayOpen(op)
    /\ op = "SUBMIT" => lines # {}
    /\ req' = [req EXCEPT ![r] =
                 [op |-> op, clean |-> TRUE,
                  lines |-> IF op \in {"SUBMIT", "RECALL"} THEN {} ELSE Rows(lines),
                  kinds |-> [a \in Accounts |-> IF op = "EDIT" THEN Category(a) ELSE "HIDDEN"]]]
    /\ UNCHANGED <<status, lines, reviewed, settings, nextId, late, doubled>>

-----------------------------------------------------------------------------
(***************************************************************************)
(* Handlers finish.                                                        *)
(***************************************************************************)

\* get_next_line_number, over the lines the handler loaded
NextNumber(ls) == Max({l.number : l \in ls} \cup {0}) + 1

\* Ids that no dispatcher's list holds: the request was already submitted, or
\* a dispatcher had loaded it.
Missed(ids) ==
    IF status # "DRAFT" \/ \E s \in Requests : req[s] # NULL /\ req[s].op = "DISPATCH"
    THEN ids ELSE {}

Several(ls) == {a \in Accounts : Cardinality(Of(ls, a)) > 1}

\* The lines a save numbers.
Added(after) == {l \in after : l.id \notin {k.id : k \in lines}}

\* What an edit under way still counts on is gone: a line it loaded, or that
\* whoever numbers a line starts from the last one.
Misleads(r, after) ==
    ~(Rows(lines) \subseteq Rows(after)) \/ (~req[r].clean /\ Added(after) # {})

\* The handler's commit.  several: the accounts it means to give several lines.
Writes(r, after, several) ==
    LET gone == {l.id : l \in lines} \ {l.id : l \in after}
    IN  /\ lines' = after
        /\ reviewed' = reviewed \ gone
        /\ nextId' = nextId + Cardinality(Added(after))
        /\ late' = (late \ gone) \cup Missed({l.id : l \in after \ lines})
        /\ doubled' = doubled \cup several
                        \cup IF req[r].clean THEN {} ELSE {l.account : l \in Added(after)}
        /\ req' = [s \in Requests |->
                      IF s = r THEN NULL
                      ELSE IF req[s] # NULL /\ req[s].op = "EDIT" /\ Misleads(r, after)
                           THEN [req[s] EXCEPT !.clean = FALSE] ELSE req[s]]
        /\ UNCHANGED <<status, settings>>

\* New rows for the accounts in made, numbered on from the loaded list.
\* uq_work_line_number_per_item rolls the whole save back on a taken number.
Inserted(r, made, price, kept) ==
    {kept \cup new :
        new \in {{[id |-> nextId + k[a], number |-> NextNumber(req[r].lines) + k[a],
                   account |-> a, price |-> price[a], group |-> NULL] : a \in made} :
                    k \in {f \in [made -> 0 .. Cardinality(made) - 1] :
                              \A a, b \in made : f[a] = f[b] => a = b}}}

Fits(ls) == Cardinality(ls) <= MaxLines
Numbered(ls) == \A k, l \in ls : k.number = l.number => k.id = l.id

\* line_create: a standard account the department sees, at a price it types.
FinishCreate(r) ==
    \E a \in Accounts, p \in Prices :
        /\ req[r].kinds[a] = "STANDARD" /\ settings[a].spend
        /\ nextId <= MaxIds
        /\ \E after \in Inserted(r, {a}, [b \in {a} |-> p], lines) :
              Fits(after) /\ Numbered(after) /\ Writes(r, after, Several(after))

\* line_update: any line of the request moves to a standard account; its
\* routed group stays.
FinishUpdate(r) ==
    \E l \in req[r].lines, a \in Accounts, p \in Prices :
        /\ req[r].kinds[a] = "STANDARD" /\ settings[a].spend
        /\ \E now \in lines :
              /\ now.id = l.id
              /\ LET after == (lines \ {now}) \cup {[now EXCEPT !.account = a, !.price = p]}
                 IN  Writes(r, after, Several(after))

\* line_delete, work_item_edit_save
FinishDelete(r) ==
    \E ids \in SUBSET {l.id : l \in req[r].lines} :
        Writes(r, {l \in lines : l.id \notin ids}, {})

\* Seeded fault: the save does not look for lines that are there.
ExistingNone(ls, a) == {}

\* existing_line_ids_by_account: the line the save knows of.
Existing(ls, a) == IF Of(ls, a) = {} THEN {} ELSE {Kept(ls, a)}

\* work_item_fixed_costs_save, work_item_badges_save.  posted: the accounts of
\* the tab the form names; wanted: those with a quantity above zero.  A wanted
\* account with a line is repriced, one without gets a line unless it has no
\* spend type; a line deleted meanwhile is passed over in silence.
FinishTab(r) ==
    \E tab \in {"FIXED", "BADGE"} :
    \E posted \in SUBSET {a \in Accounts : req[r].kinds[a] = tab},
       wanted \in SUBSET Accounts :
        LET known(a)  == {l.id : l \in Existing(req[r].lines, a)}
            dropped   == UNION {known(a) : a \in posted \ wanted}
            knower(l) == {a \in wanted : l.id \in known(a)}
            made      == {a \in wanted : known(a) = {} /\ settings[a].spend}
            kept      == {IF knower(l) = {} THEN l
                          ELSE [l EXCEPT !.price = LockedPrice(CHOOSE a \in knower(l) : TRUE)] :
                             l \in {k \in lines : k.id \notin dropped}}
        IN  /\ wanted \subseteq posted
            /\ nextId + Cardinality(made) <= MaxIds + 1
            /\ \E after \in Inserted(r, made, [a \in made |-> LockedPrice(a)], kept) :
                  Fits(after) /\ Numbered(after) /\ Writes(r, after, {})

\* hotel_wizard_add: always one more line, on the account the answers name,
\* shown to the department or not, and whatever its kind.
FinishWizard(r) ==
    \E a \in Rooms :
        /\ settings[a].spend
        /\ nextId <= MaxIds
        /\ \E after \in Inserted(r, {a}, [b \in {a} |-> LockedPrice(a)], lines) :
              Fits(after) /\ Numbered(after) /\ Writes(r, after, Several(after))

Ends(r, to) ==
    /\ status' = to
    /\ req' = [req EXCEPT ![r] = NULL]
    /\ UNCHANGED <<settings, nextId, late, doubled>>

\* work_item_submit, work_item_recall: the status, and nothing else.
FinishMove(r) ==
    /\ req[r].op \in {"SUBMIT", "RECALL"}
    /\ Ends(r, IF req[r].op = "SUBMIT" THEN "AWAITING_DISPATCH" ELSE "DRAFT")
    /\ UNCHANGED <<lines, reviewed>>

\* The posted groups on the lines the dispatcher loaded.
Assigned(r, choice) ==
    {IF l.id \in DOMAIN choice THEN [l EXCEPT !.group = choice[l.id]] ELSE l : l \in lines}

\* save_assignments
FinishAssign(r) ==
    \E choice \in [{l.id : l \in req[r].lines} -> Groups] :
        /\ DOMAIN choice \subseteq {l.id : l \in lines}
        /\ lines' = Assigned(r, choice)
        /\ Ends(r, status)
        /\ UNCHANGED reviewed

\* Seeded fault: the last line of the list gets no review.
DispatchedButLast(ls) == {l.id : l \in {k \in ls : k.number < Max({j.number : j \in ls})}}

Dispatched(ls) == {l.id : l \in ls}

\* dispatch_to_queue: every line it loaded has a group and gets a review.  A
\* line deleted meanwhile, or one that has a review, fails the insert.
FinishDispatch(r) ==
    \E choice \in [{l.id : l \in req[r].lines} -> Groups] :
        /\ DOMAIN choice \subseteq {l.id : l \in lines} \ reviewed
        /\ lines' = Assigned(r, choice)
        /\ reviewed' = reviewed \cup Dispatched(req[r].lines)
        /\ Ends(r, "SUBMITTED")

\* The handler refuses its form, or a constraint rolls it back.
Refused(r) ==
    /\ req' = [req EXCEPT ![r] = NULL]
    /\ UNCHANGED <<status, lines, reviewed, settings, nextId, late, doubled>>

Finish(r) ==
    /\ req[r] # NULL
    /\ \/ /\ req[r].op = "EDIT"
          /\ \/ FinishCreate(r)
             \/ FinishUpdate(r)
             \/ FinishDelete(r)
             \/ FinishTab(r)
             \/ FinishWizard(r)
       \/ FinishMove(r)
       \/ req[r].op = "ASSIGN" /\ FinishAssign(r)
       \/ req[r].op = "DISPATCH" /\ FinishDispatch(r)
       \/ Refused(r)

\* Finance edits an account, or its override for the event.
Configure(a) ==
    /\ \E s \in Finance[a] : s # settings[a] /\ settings' = [settings EXCEPT ![a] = s]
    /\ UNCHANGED <<status, lines, reviewed, nextId, req, late, doubled>>

Next ==
    \/ \E r \in Requests : Finish(r) \/ \E op \in Ops : Begin(r, op)
    \/ \E a \in Accounts : Configure(a)

Spec == Init /\ [][Next]_vars

-----------------------------------------------------------------------------
(***************************************************************************)
(* Properties.                                                             *)
(***************************************************************************)

\* Types; and a line has its own id and its own number in the request.
TypeOK ==
    /\ status \in {"DRAFT", "AWAITING_DISPATCH", "SUBMITTED"}
    /\ lines \subseteq Line
    /\ Numbered(lines) /\ \A l \in lines : l.id < nextId
    /\ \A k, l \in lines : k.id = l.id => k = l
    /\ reviewed \subseteq {l.id : l \in lines}
    /\ settings \in [Accounts -> Setting]
    /\ nextId \in 1 .. MaxIds + 1
    /\ req \in [Requests -> Request \cup {NULL}]
    /\ late \subseteq {l.id : l \in lines}
    /\ doubled \subseteq Accounts

\* The edit page shows every line of the request, so that its total can be
\* accounted for and any line deleted.  The fixed-cost and badge tabs show one
\* line for each account: two saves of a tab, interleaved in any way, must not
\* leave it two.  What stands between is the unique line number: the second
\* insert reuses the first one's number and fails.  Excepted are accounts to
\* which a line form or the hotel wizard gave several lines before finance moved
\* them to a tab, and saves for which the numbers no longer stand: a line of
\* their list has been deleted, or another such save numbered a line since.
EveryLineIsShown == \A l \in lines : Shown(l) \/ l.account \in doubled

\* Once dispatched, every line has a review that can decide it, and a group
\* that sees it, except the lines an edit in flight wrote after the dispatcher
\* had its list: nothing but those can hold the request up.
OnlyLateLinesGoUnreviewed ==
    status = "SUBMITTED" =>
        \A l \in lines : l.id \in late \/ (l.id \in reviewed /\ l.group # NULL)

-----------------------------------------------------------------------------
(* What the repository says and the code does not do.                      *)

\* "Edit: (admin or membership.can_edit) AND status == DRAFT": the amounts and
\* accounts of a request stand still once it has been submitted.
LinesStandOnceSubmitted ==
    [][status # "DRAFT" =>
          {<<l.id, l.account, l.price>> : l \in lines'} =
          {<<l.id, l.account, l.price>> : l \in lines}]_vars

\* "Cannot submit: request has no lines": a request that has been submitted
\* has at least one.
SubmittedHasLines == status # "DRAFT" => lines # {}

=============================================================================
