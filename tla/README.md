# A TLA+ verification of the MAGFest resource management app

The application (`src/app`) collects what departments of an event ask for
(budgets, TechOps services, supplies), routes every line of a request to the
approval group that knows about it, lets an administrator make the final
decision where the work type has one, and announces the result. Around that it
keeps who takes part in an event, who may see what, and which rooms there are.
This directory holds TLA+ modules that model the parts of it where the order of
events matters, TLC configurations that check them on small instances, and
proofs that TLAPS checks for every instance.

Paths below are relative to `src/app`. `PROJECT.json` maps every definition to
the lines it translates and lists the hazards with the properties that cover
them.

## 1. Inventory

One process model holds throughout: a Flask application with several workers,
one SQLAlchemy session per request on PostgreSQL at READ COMMITTED, plus cron
entries (the email drainer). All shared state is in the database; components
interact by the rows they read and write, some of them under
`SELECT ... FOR UPDATE`.

### Requests and their review

| component | state | operations | talks to | modules |
|---|---|---|---|---|
| request lifecycle (`routes/work/helpers/lifecycle.py`, `work_items/actions.py`) | `WorkItem.status`, submission stamps | submit, recall, reset to draft, auto-finalize | dispatch, review, email enqueue | BudgetReview, GroupReview, EventBudgets |
| budget draft (`routes/work/lines.py`, `work_items/edit.py`) | lines and their budget details | line form, fixed-cost, badge and hotel tabs, delete | finance settings, submit | BudgetDraft |
| dispatch (`routes/dispatch`) | group of each line, first `APPROVAL_GROUP` reviews | assign groups, dispatch to queue | lifecycle, review | BudgetReview, BudgetDraft |
| line review (`routes/approvals`, `helpers/review_state.py`) | line status, stage, `needs_requester_action`, its two reviews | approve, reject, ask; respond; adjust | checkout, admin final | BudgetLine, BudgetReview, GroupReview |
| review session (`helpers/checkout.py`, `routes/admin/locks.py`) | holder and expiry on the item | checkout, checkin, forced checkin, release | every review handler | BudgetReview, ReviewSessions |
| admin final review (`routes/admin_final`) | `ADMIN_FINAL` reviews, approved amounts | decide, reset, return, change account, add line, finalize, unfinalize | all of the above | BudgetReview, EventBudgets |
| supplementary requests, board release | PAUSED items; `board_released_at`, the event's latch | create, pause, resume; release an event's budgets | finalize, email | EventBudgets |
| TECHOPS (`routes/work/techops`) | the same rows, without dispatch, checkout or admin stage; space rows | form save, submit, send back, pull back, decide, reopen, auto-finalize | line review | GroupReview, GroupPages, TechOpsForm, ItemReview |
| supply orders (`routes/work/supply`) | the same rows plus quantities | cart, submit, decide, finalize | line review | SupplyOrder |
| reports (`routes/admin_final/*_report.py`, dashboards) | none | queues, totals, pipeline | read all of the above | BudgetReports, GroupPages |

What is hard about it:

* A line's condition is spread over five columns and two review rows, written
  together by one function and apart by six more. A long but legal sequence of
  calls decides whether they still agree.
* A checkout ends in two ways, by checkin (written) and by expiry (not written:
  the holder stays on the row); the two guards answer differently in between.
* Handlers load, check, wait for a row lock, and write. What they loaded before
  the lock is stale afterwards unless the handler refreshes it, and SQLAlchemy's
  identity map returns the old instance from a locked query.
* The unit of work writes only the columns that changed with respect to what was
  loaded, so two transactions can each leave half of a line.
* Forms are the only memory of a draft: a TECHOPS save deletes and rewrites every
  line, a stale supply page posts to a reused line number.

What makes it correct: the line a requester is asked about is one the requester
can answer; what an administrator decided stays decided until an administrator
withdraws it; nothing reaches FINALIZED with an open line or inside a review
session; two overlapping decisions do not both take effect; a request of a group
closes exactly with its last verdict; no line falls out of every queue.

### Email

| component | state | operations | modules |
|---|---|---|---|
| enqueue (`services/email_enqueue.py`) | an outbox row, its `dedup_key` | enqueue in the caller's transaction | EventBudgets |
| drainer (`services/email_drainer.py`) | status, claim, attempts, backoff | reap stale claims, claim, render, send, requeue, fail, release, prune | EmailOutbox |
| notifications (`services/notifications.py`, templates) | templates | choose recipients, render | Accounts, EventOrganization |

Hard: a drainer killed between the send and the commit; a retry budget that two
functions spend; one poisonous row at the head of the queue; unfinalize
cancelling a release that is already claimed. Correct: a row reaches a final
state; it is sent at most once unless a claim was lost; a release mail is true
and comes once per finalization; it reaches somebody who can act.

### Organization, access and rooms

| component | state | operations | modules |
|---|---|---|---|
| event enablement (`helpers/event_enablement.py`, `routes/admin/event_cycles.py`) | enablement records per event | toggle, bulk switch, copy | EventOrganization |
| departments, divisions, memberships (`routes/admin`, `services/membership_access.py`) | rows and access per work type | forms, uploads, archive, mirror | EventOrganization |
| accounts and roles (`routes/auth.py`, `routes/admin/users.py`, uploads, bootstrap) | accounts, role rows, audit entries | sign in, edit, upload, archive | Accounts |
| spaces (`routes/spaces`) | spaces, overrides, assignments | import, repair, fold, assign, copy | VenueSpaces |

Hard: one rule written three times, each with NULLs of its own; one table with
four writers that identify a row differently; uniqueness that no index enforces.

### The rest

| component | status |
|---|---|
| portfolio and public ids (`routes/work/portfolio.py`, `helpers/formatting.py`) | access is in EventOrganization; the id sequence is not modelled |
| line amounts (`line_details.py`) | sums and locked prices are modelled, rounding is not |
| work-type registry (`routing/`) | a pure lookup of a default group, a constant of the models |
| Slack, feedback | best-effort posts after the commit, nothing is read back |
| other administration forms | one row of reference data per form |
| telemetry, CLI, seeds, dev tools | append-only records, one-off commands, fixtures |

## 2. Modules

| module | models |
|---|---|
| `BudgetLine` | one line with its two reviews as a record, what every review operation does to it, and how a column adds up; no state |
| `BudgetReview` | one PRIMARY budget request with its lines, from draft to FINALIZED and back; one action per handler |
| `BudgetReports` | the queues, totals and reports as operators over `BudgetReview`; no state |
| `ReviewSessions` | the review handlers taken apart into read, lock and commit, so that requests overlap |
| `EmailOutbox` | the outbox table, the drainer's runs with their crashes, SES's answers, withdrawal |
| `ItemReview` | abstract: what a request decided by one group promises its department |
| `GroupReview` | the TECHOPS request with overlapping handlers; implements `ItemReview` |
| `GroupPages` | the TECHOPS staff's pages as operators over `GroupReview` |
| `TechOpsForm` | the TECHOPS draft: cards, the lines made of them, the page rebuilt |
| `EventBudgets` | budget requests above their review: supplementaries, board release, mail |
| `BudgetDraft` | the forms of a budget draft, finance settings, submit, recall, dispatch |
| `SupplyOrder` | a supply order from the cart to FINALIZED |
| `EventOrganization` | who takes part in an event and who may see it |
| `Accounts` | accounts, roles, audit, and what menus, queues and mail make of them |
| `VenueSpaces` | the spaces of a venue and what its events make of them |
| `BudgetReviewProofs`, `BudgetDraftProofs`, `GroupReviewProofs`, `EmailOutboxProofs`, `AccountsProofs` | lemmas and theorems about the module each is named for; `BudgetReviewProofs` also about `BudgetLine` and `BudgetReports`, `GroupReviewProofs` also about `GroupPages` |
| `RequestProofs`, `EventsProofs`, `LogisticsProofs` | the same, two modules each: `ReviewSessions` and `TechOpsForm`; `EventOrganization` and `EventBudgets`; `VenueSpaces` and `SupplyOrder`. The two share no state; the variables and the specification of one of them carry a name of their own (`FormSpec`, `OrgSpec`, `VenueSpec`) |
| `MC*` | the instances TLC checks |

`BudgetReview` and `ReviewSessions` both extend `BudgetLine`: a decision
computes the same thing whether or not another request is under way; what
differs is when its guard is evaluated and what is written back. `EventBudgets`
takes the review and the queue as given (an admin may finalize any submitted
request, a queued mail is sent in one step) and adds what happens between
requests. Comments, audit events (except role audits), notes and wording are
written and never read by a guard, and are left out everywhere.

### BudgetLine, BudgetReview and BudgetReports

A record has the columns `status`, `current_review_stage` (`stage`),
`approved_amount_cents` (`amount`), `needs_requester_action` (`needsAction`),
`routed_approval_group_id` (`group`), the requested total (`requested`), and for
each of the two reviews its status and amount (`ag`, `agAmount`, `admin`,
`adminAmount`); a review without a row is `NULL`. `Awaiting` is
`get_line_review_state`, `ApproverMayAct` and `RequesterMayRespond` are
`validate_review_transition` for the two roles; a missing review counts as
PENDING, since the handler creates it first.

`BudgetReview` adds the item: `status`, `holder` and `live` (the checkout, its
expiry reduced to "in the future or not"), `present` and `line`. Two facts shape
the guards: a super admin is a reviewer for every line
(`approvals/helpers.py:142`) whereas a budget admin is not, and the lock of a
decision is `user_holds_checkout`, which does not look at the expiry.
`AdminDecide`, `AdminReset` and `ReturnLine` do not look at the item's status
because the code does not. The docstring of `can_finalize_work_item`
(`admin_final/helpers.py:246`) allows finalizing from AWAITING_DISPATCH;
`CanFinalize` keeps this disjunct, but the invariants show it is never taken.

`BudgetReports` has each report as its own query, because that is the point:
`AdminReady`, `GroupPending`, `EffectiveStatus`, `PipelineBucket`, the totals
and the overviews read different columns, and the properties compare them.

### ReviewSessions

The same request with one line, and one request per person under way at a time.
`Read` is the handler up to its lock: it loads the rows and evaluates the
permission checks. `Lock` waits for the item's row, replaces what the handler
refreshes, and checks again. `Commit` computes on what was loaded and writes the
columns that differ from it (`Flush`). Checkout and checkin lock without
refreshing, because `query(...).with_for_update().get()` returns the instance
already in the identity map; admin decisions and resets take no item lock. What
a handler reads without a lock is one snapshot, taken at `Read`.

### EmailOutbox

The table `row`, the queue order `due`, and one record per drainer process. A
run goes `Start`/`Reap` (query, then writes), `Claim` (one step because of SKIP
LOCKED), then for each row `Drop`, `Block` (the outcomes that need no send) or
`Send` and `Commit`, and `End`. `Send` and `Commit` are apart because SES acts
between them: `Crash`, `CommitFails`, and the answer `LOST` (accepted by SES,
never heard of) all happen there. Times are reduced to what the code compares. A
run id is used once, so the id of a dead run is written `Gone`. Only the claims
of dead runs get stale: a live run ends after 7 minutes and one row. Left out:
pruning of terminal rows after 90 days, the log and body tables.

### ItemReview, GroupReview and GroupPages

`ItemReview` says what a department may rely on: lines are put to the group
together, each gets a verdict at most once, the request closes with the verdict
that was missing last, and a verdict goes away only because that line was
reopened or the whole request sent back. `GroupReview` is the code: a handler is
`Begin` (loads, checks before the lock) and `Finish` (locks, refreshes, checks,
writes), with any others in between; rows another handler has deleted since make
its flush fail (`gone`). `Promise` is the refinement mapping: the phase is the
status, a verdict is a review's terminal status. `FormOverlaps` says whether
other requests may commit while a form save is under way; with it the promise
breaks (section 5), so the run and the proofs assume it is FALSE.

### TechOpsForm

One step is one POST of the whole page, on the draft as last saved. `ParseForm`,
`ExpandToLines` (with the removal of other desk phones and the move of every parent
index) and `Page` (`_redisplay_extras`) are functions of cards; the variables are
the stored space rows, the lines, and the status. `Typed` is the set of cards the
requester may make of one card; text is present or absent. The inputs of a card that
is switched to "nothing needed" stay posted, as the template leaves them in the page,
so that a number on such a card is there for `validate()` and not for
`expand_to_lines` (section 5). `Plan` is the list before the drop, `Keep` after it.

### EventBudgets

A handler is `Begin` (loads, locks what the code locks, checks) and `Finish`. What
it read without a lock may have changed; `crossed` records that a handler has
written over such a change. The properties about mail and release hold as long as
`~crossed`, because only item rows are locked and the code does not look again;
`PausedOnlyWhilePrimaryOpen` holds without that. A stamp stands for one instant.

### BudgetDraft

Nothing locks a draft, so that `Begin` and `Finish` of any two requests
interleave. Line numbers come from a maximum and are unique per item, which makes
the second of two inserts fail. `settings` are the columns and event overrides of
the accounts, which finance changes at any time. `late` and `doubled` record the
two situations the properties except.

### SupplyOrder

One slow request (`slow`, with everything it loaded) and whole requests of
anybody else between its two steps; `page` is the order page on the requester's
screen. Every handler body is one operator over what it loaded, used for the slow
and the fast form. `said` remembers with which item on screen a quantity was
entered. Of a quantity it matters whether it is zero.

### EventOrganization

Enablement records, archive flags, the home division of a department, memberships
with one access row per work type. `DivisionEnabled`/`DepartmentEnabled` (one
department), the set query and the prefetched map of the organization page are
three operators as in the code. Uploads are actions of their own, since a file
without a column keeps or clears what a form would post. Every administrative
handler is one transaction over rows it reads itself, and so one action.

### Accounts

Accounts by id with e-mail, subject and active flag; role rows; the codes an
account's audit entries add up to (`trail`); active flags of types and groups.
Sign-in, first sign-in, the user form, both uploads, archive and restore and the
bootstrap are one action each. `Overrides` are the role overrides of a
development deployment. `Menu...`, `Opens...` and recipients are operators.

### VenueSpaces

`space` (permanent and event rows), `override` (per event: alias, availability,
fold) and `held` (assignments). One handler is one step; what an editor opened
before it posts may have been folded or covered since, so a save takes any values
its editor could have held. The page of Event Ops and the list other work types
offer a department are two operators.

## 3. Runs

Every run passes, checks deadlock (no model may stop), and takes at most about two
minutes with two workers.

| run | instance | what it shows |
|---|---|---|
| `budget_review` | two lines, one group, amounts {0, 1}, a super admin, a reviewer | the columns of a line agree, in every order of the handlers; no line falls out of the queues; the reports agree; finalize decides everything |
| `review_sessions` | a reviewer, two admins, the requester, any two requests overlapping | what the row locks are for |
| `outbox` | one drainer process, two rows, one crash, failed commit or lost answer | what a loss may cost, and that both rows are settled |
| `outbox_overlap` | two processes, two rows, one a release that may be withdrawn, one halt or SIGTERM, no crash | overlapping runs share no row and send none twice |
| `group_final` | two lines, each of a team, any two requests overlapping | `GroupReview` implements `ItemReview`; the staff's pages agree |
| `techops_draft` | two spaces, two phone slots, cards that meet and break each rule | lines made of cards, cards rebuilt from lines |
| `event_budgets` | a primary, a supplementary, two handlers overlapping, two stamps, two finalizations | release, its mail, pausing |
| `budget_draft` | a hotel account by override, a fixed-cost account that may become a standard one, two requests, two lines | the forms against each other, finance and dispatch |
| `event_organization` | two events, one division, one department, two work types, one user | the three queries; home, portfolio and mail |
| `supply_order` | two items, two line numbers, one slow request | the order against stale pages and late commits |
| `venue_spaces` | two events, four spaces, two overrides, assignments or archived spaces at a time | codes, folds and the two readers |
| `accounts` | two addresses with one local part, two subjects, two ids, one group | the audit trail, the menus, the recipients |

The properties:

* `AdminDecisionStands` - a terminal `ADMIN_FINAL` review, the line's status, its
  stage and its amount agree, and no line has an amount without such a review.
* `NoLineIsForgotten` - while the request is under review each line without an
  admin verdict is on a queue of its group or of the admins, unless its group
  rejected it and no admin has looked.
* `ShownStatusIsActionable` - the department is told to respond exactly when some
  line accepts a response, and then the admins cannot finalize.
* `ReportsAgree` - queues, totals, pipeline and reviewer tallies add up.
* `FinalizeDecidesEveryLine`, `DecidedLineIsFrozen` - the step that finalizes
  leaves no line open; no column of a decided line changes unless the same step
  takes the decision back.
* `LockedReadIsCurrent`, `VerdictNotOverwritten`, `FinalizeOutsideSessions` - a
  refreshed item is the item; a group's verdict is only withdrawn, never replaced;
  finalization lands in no live session.
* `RetryBudget`, `EventuallySettled`, `ClaimsAreDisjoint`, `SentOnce`,
  `OutcomeStands` - SES is tried within the budget plus the losses; every row that
  is owed reaches an outcome and keeps it; no row is in two hands; none is accepted
  twice without a loss; none is taken back from its outcome.
* `FinalizedIffDecided`, `PullBackErasesNothing`, `KeepsPromise`, `StaffPagesAgree` -
  FINALIZED exactly when every line has a verdict, whoever decides last at the same
  time; a pull-back erases no answer; the refinement; one story on all pages.
* `HandsetsRingANumber`, `SubmittedIsComplete`, `SavingAgainKeepsLines` - a desk
  phone points at a number, in drafts too; what was let through is whole; opening a
  draft and saving it untouched changes no line.
* `QueuedMailIsTrue`, `ToldOncePerFinalization`, `ReleasedOnceApproved`,
  `PausedOnlyWhilePrimaryOpen` - what is queued names a finalized budget and its
  release, once; no finalized budget of an approved event waits; no supplementary
  stays paused behind a finalized primary.
* `EveryLineIsShown`, `OnlyLateLinesGoUnreviewed` - the edit page hides no line; a
  dispatched line has a group and a review unless a late edit wrote it.
* `QueriesAgree`, `HomeAndMailMatchAccess`, `GrantsSurviveArchiving` - one answer
  from three queries; what is listed opens and is written to; rows of an archived
  type come back as granted.
* `FinalizedIsAnswered`, `OverridesAreNoted`, `ReadyIsFinalizable`,
  `QuantityIsForItsItem` - no open question on a finalized order; no silent
  contradiction of the group; the badge is true; a quantity is for the item the
  requester saw.
* `CodesUniqueWhereSeen`, `FoldsStayInRoom`, `PagesAgree` - of the spaces seen at one
  event, and of the two readers.
* `TrailReplays`, `MenusOpenPages`, `MailReachesWhoCanAct` - the audit log accounts
  for every role; menus offer what opens; a request reaches somebody who can act.

Each property has a mutant in `PROJECT.json`: an operator of the module under test
replaced by one with a plausible mistake (they are the definitions commented "Seeded
fault"), under which TLC finds the property violated in the same run. Type
invariants are part of the proofs where there are proofs; the other modules'
`TypeOK` can be added to their cfg and holds there.

Bounds. Handlers treat lines alike and relate them only through "every line" and
"some line", so two lines give each quantifier one that satisfies it beside one
that does not; the same goes for two events, two spaces or two outbox rows. Two
amounts tell "the recommended" from "the requested" and 0 from absent. Overlap is
bounded by two requests at a time: every handler against every other, including
itself. In `review_sessions` the reviewer's actions are reduced to one that decides
and one that kicks back, and the admin's to approval; in `supply_order` NEEDS_INFO
is left to NEEDS_ADJUSTMENT, which allows more. `outbox`: with two attempts there is
a first, a retry and a last one; a daily limit of 1 and a failure limit of 1 are met
by two rows; `MaxLost` bounds crashes, failed commits and lost answers together and
appears in the properties. `budget_draft`: three lines are ever created, so that a
number is reused after a delete. `event_budgets`: two finalizations, so that a mail of
the first can meet the second; two release times, so that a straggler differs.
`event_organization`: memberships are of one event, and no event's rows are read for
another. `accounts`: roles are edited on one account; the other account is there to
collide. `venue_spaces`: `MaxRows` bounds overrides, assignments and archived spaces
together, so that a fold can meet an archived slice or an assignment.

`SYMMETRY` is used where the module never names a member of the set and no liveness
is checked: lines of a budget, admins, overlapping slots, items, events and codes.

Fairness is assumed only in `outbox`: a drainer process keeps taking steps (the
scheduler starts it every ten minutes, and a run has no way to wait for anything),
and time passes for every row. Nothing is assumed of SES, of templates or of
unfinalize: they may answer, break and withdraw as they like. A run may end after
its first row (clock, daily limit), but not before it, since the clock is compared
with the run's own start. Crashes and halts end because they are bounded; that the
property needs. The other modules assume no fairness, since nobody is obliged to
click, and claim no liveness.

## 4. Proofs

Each theorem holds for every value of the constants that the named assumptions of
the modules allow.

| module | theorem | statement |
|---|---|---|
| `BudgetReviewProofs` | `Invariance` | `Spec => []IInv` |
| | `TypeCorrect` | `Spec => []TypeOK` |
| | `DecisionStandsAlways` | `Spec => []AdminDecisionStands` |
| | `FlagAlwaysAnswerable` | `Spec => []FlagMeansAnswerable` |
| | `AlwaysRouted` | `Spec => []ReviewedLinesWereRouted` |
| | `FinalizedAlwaysCheckedIn` | `Spec => []FinalizedIsCheckedIn` |
| | `QueuesForgetNoLine` | `Spec => []NoLineIsForgotten` |
| | `ShownStatusAlwaysActionable` | `Spec => []ShownStatusIsActionable` |
| | `ReportsAlwaysAgree` | `Spec => []ReportsAgree` |
| | `FinalizeAlwaysDecides` | `Spec => FinalizeDecidesEveryLine` |
| | `DecidedAlwaysFrozen` | `Spec => DecidedLineIsFrozen` |
| `GroupReviewProofs` | `Invariance` | `Spec => []IInv` |
| | `FinalizedExactlyWhenDecided` | `Spec => []FinalizedIffDecided` |
| | `PullBackNeverErases` | `Spec => PullBackErasesNothing` |
| | `HandlersKeepPromise` | `Spec => Promise!Spec` (as `KeepsPromise`) |
| | `StaffPagesAlwaysAgree` | `Spec => []StaffPagesAgree` |
| `EventsProofs` | `OrganizationTyped` | `OrgSpec => []OrgTypeOK` |
| | `QueriesAlwaysAgree` | `OrgSpec => []QueriesAgree` |
| | `HomeAndMailAlwaysMatch` | `OrgSpec => []HomeAndMailMatchAccess` |
| | `ArchivedGrantsSurvive` | `OrgSpec => GrantsSurviveArchiving` |
| | `BudgetsInvariant` | `Spec => []IInv` |
| | `QueuedMailStaysTrue` | `Spec => []QueuedMailIsTrue` |
| | `ToldOnceAlways` | `Spec => []ToldOncePerFinalization` |
| | `NoneHeldOnceApproved` | `Spec => []ReleasedOnceApproved` |
| | `PausedNeedsOpenPrimary` | `Spec => []PausedOnlyWhilePrimaryOpen` |
| `AccountsProofs` | `TrailAlwaysReplays` | `Spec => []TrailReplays` |
| | `AccountsAreTyped` | `Spec => []TypeOK` |
| | `RolesAreAlwaysScoped` | `Spec => []RolesAreScoped` |
| | `LinksArePermanent` | `Spec => LinkIsPermanent` |
| | `MenusAlwaysOpenPages` | `Spec => []MenusOpenPages` |
| | `MailAlwaysReachesWhoCanAct` | `Spec => []MailReachesWhoCanAct` |
| `RequestProofs` | `SessionInvariant` | `Spec => []IInv` |
| | `LockedReadStaysCurrent` | `Spec => []LockedReadIsCurrent` |
| | `VerdictsAreNeverOverwritten` | `Spec => VerdictNotOverwritten` |
| | `FinalizedOutsideSessions` | `Spec => FinalizeOutsideSessions` |
| | `FormInvariant` | `FormSpec => []FormInv` |
| | `FormTypeCorrect` | `FormSpec => []FormTypeOK` |
| | `HandsetsAlwaysRing` | `FormSpec => []HandsetsRingANumber` |
| | `SubmittedAlwaysComplete` | `FormSpec => []SubmittedIsComplete` |
| `BudgetDraftProofs` | `DraftInvariant` | `Spec => []IInv` |
| | `DraftTypeCorrect` | `Spec => []TypeOK` |
| | `DraftShowsEveryLine` | `Spec => []EveryLineIsShown` |
| | `DraftDispatchesEveryLine` | `Spec => []OnlyLateLinesGoUnreviewed` |
| `EmailOutboxProofs` | `OutboxTypes` | `Spec => []TypeOK` |
| | `OutboxClaims` | `Spec => []ClaimsAreDisjoint` |
| | `OutboxRetries` | `Spec => []RetryBudget` |
| | `OutboxSends` | `Spec => []SentOnce` |
| | `OutboxOutcomes` | `Spec => OutcomeStands` |
| `LogisticsProofs` | `VenueInvariant` | `VenueSpec => []VInv` |
| | `VenueTypeCorrect` | `VenueSpec => []VenueTypeOK` |
| | `VenueCodesUnique` | `VenueSpec => []CodesUniqueWhereSeen` |
| | `VenueTwoLevels` | `VenueSpec => []TwoLevels` |
| | `VenueFoldsStayInRoom` | `VenueSpec => []FoldsStayInRoom` |
| | `VenuePagesAgree` | `VenueSpec => []PagesAgree` |
| | `OrderInvariant` | `Spec => []IInv` |
| | `FinalizedAlwaysAnswered` | `Spec => []FinalizedIsAnswered` |
| | `OverridesAlwaysNoted` | `Spec => []OverridesAreNoted` |
| | `ReadyAlwaysFinalizable` | `Spec => []ReadyIsFinalizable` |
| | `QuantityAlwaysForItsItem` | `Spec => []QuantityIsForItsItem` |

`BudgetReview`. `IInv` conjoins `TypeOK`, `ReviewedLinesWereRouted` (no line is
reviewed without having passed dispatch), `FinalizedIsCheckedIn`, a condition
`LineInv` on every present line, and "no holder before dispatch". `LineInv`
strengthens the two agreements: `AdminDecisionStands` alone is not inductive,
because a group decision overwrites the line's status and one must know that it
cannot run under a terminal admin review; `FlagMeansAnswerable` (the flag is up
exactly on kicked-back lines that can be answered) is not, because a response to the
admin's question clears the flag while the group's own kickback may be pending. "No
holder before dispatch" is needed because a session allows admin decisions whatever
the status. Each operator of `BudgetLine` has one lemma; the
step proof has one step per action, which cites the lemma of its operator.

`GroupReview`, assuming that form saves do not overlap. `FinalizedIffDecided` is not
inductive: one must know that reviews exist exactly while the request is submitted
(`ReviewsWhileSubmitted`), that a submitted request has lines (else "every line is
decided" holds of nothing), and what a request under way may rely on after its
`Begin` (`RequestOK`). The refinement maps a `Finish` that decides, reopens, submits
or sends back to the abstract action, and every other step, questions included, to a
stutter; that `Decide` closes the abstract request in the same step is where
`FinalizedIffDecided` enters.

The reports need that invariant and two facts of sums. `ShownStatusIsActionable` and
`NoLineIsForgotten` hold because the awaiting column of a line decides on which page it
is, and `LineInv` says what its other columns are then. The totals of `ReportsAgree`
are equal because a line that is not approved has no amount or the amount 0
(`WorthNothing`), so that a report that adds up all lines and one that adds up the
approved ones agree; that the subtotals add up to the totals is an induction over the
set of groups. The module has that induction in first-order form: a set of
subsets of a finite set that is not empty has a minimal element
(`WFMin`, `FS_StrictSubsetOrderingWellFounded`), which replaces the induction theorem that
takes an operator. `StaffPagesAgree` needs nothing but the invariant of `GroupReview`:
the reviews of a team are partitioned by status, and the counts of the pages are
cardinalities of unions of these parts. Both assume finitely many lines (and groups).

`ReviewSessions`. The invariant is about every request under way (`ProcOK`). One past its lock
holds the row (`HoldsRow`); if its kind refreshes, the status and the holder it loaded are
the row's, and its session is not shorter (`SeesItem`); a group's decision has the review it
was checked against (`SeesReview`); finalize and unfinalize found the status they want
(`FoundStatus`). It is kept because the other requests write these columns only while they
hold the row: admin decisions and resets, which lock nothing, leave status, holder and the
group's review alone, and time can only end a session. `VerdictNotOverwritten` then follows
from the re-check after the lock, `FinalizeOutsideSessions` from the refreshed item. Nothing
is said of what checkout and checkin have loaded, which is stale (section 5).

`EmailOutbox`. `IInv` relates the counter `attempts` of a row to what SES saw:
`SpentOK` bounds the calls by `attempts + lost`, plus one while a run has an answer in its hand;
`HeldOK` says that what a run loaded of its rows still is what the row says about its
claim and its attempts; `StraysOK` that only a dead run's claim gets stale and
only then does a reap run. All of it holds under `Exclusive`, that is, as long as one run at
a time is configured or nothing was lost. The hypothesis is needed: with two runs
and `MaxLost = 1` TLC violates `ClaimsAreDisjoint`, `RetryBudget` and `SentOnce`
(section 5). The number of rows, the batch, the daily and the failure limit are arbitrary.

`EventBudgets`. Handlers overlap, so the invariant says for each kind of handler what is left,
at its `Finish`, of what it read at `Begin` (`HandlerOK`): of a locked row everything, of
another row that it exists and was reviewed once. `FinalizesLater` orders a release and a
finalize that overlap it: if the release read the budget as held and the finalize is still to
come, the finalize's stamp is younger, which is what makes the release's late write a crossing.
`Calm` is the part that holds while nothing crossed: the queue tells of the latest
finalization only (`Queued`, `Released`, `ToldOnce`), and no finalized budget waits after the
board's approval (`HeldNone`, `ReleaseLater`). `PausedHasPrimary` strengthens
`PausedOnlyWhilePrimaryOpen` with "and if that primary's finalize is under way, it knows of the
paused request"; it needs no hypothesis and allows any number of primaries. TLC checked
`IInv` on the instance of the run and on one with two primaries.

`SupplyOrder`. `IInv` has a part about each line (`LineOK`: its columns agree; `PhaseOK`: what
the order's status allows) and a part about the slow request (`Current`). Every handler is
one lemma over anything that is `Current`, used for the slow request and for the whole requests
between its steps, whose loads are current at once; `Leaves` is what such a request
leaves true for the slow one. Three facts carry the proof: a row that was not deleted since it was
loaded holds the item it held; an order that was loaded after its submission gains no row,
so that finalize decides every row; and if a draft was submitted since it was loaded, some
row of it has a review and none that was loaded is without, so that the unique review
key refuses a second submission, even by the half of save-and-submit that asks nobody for the
status. That is why no review appears on a finalized order.

`EventOrganization`. The type invariant suffices for the first two results: the three
queries are equal, and what is listed opens, in every state of the right types. What the
proof shows is that no order of edits is needed to make them agree, and where the
nullable division enters. `GrantsSurviveArchiving` has one step per handler that writes
memberships.

`Accounts`. `TrailReplays` needs that roles and trail have their types; each writer is
an instance of one lemma (`RewriteIsReplayed`, the difference of two snapshots). The
scope invariant and the permanence of links have one step per action. `TypeOK` contains that
no two accounts share an e-mail or a subject; the code asks the database for it in some
writers and the unique index in others, and the proof shows that each of them asks for
enough. `MailReachesWhoCanAct` rests on that (a recipient is an address). `MenusOpenPages`
needs no invariant: the operators agree in every state.

`BudgetDraft`. Nothing is locked, so the invariant says what a handler still knows
when it commits. An edit that has not been misled finds the list it loaded, or finds the next
number taken, in which case the unique key makes it fail (`CleanOK`); a dispatcher has
every line on its list that was not written behind its back (`DispatchOK`); an account
with two lines is one `doubled` tells of (`DoubledOK`); numbers run behind ids, since a
number is a maximum plus one (`NumbersOK`). The number an edit takes is that of the
list it loaded, and that two edits which both add a line collide on it is what makes
`EveryLineIsShown` inductive. An attempt to prove an earlier form of the property found it false
on an instance larger than the run's (four ids, three lines): a save that a delete misled
numbers its line out of turn, and that misleads the next one. `doubled` and `clean` now
record this.

`VenueSpaces`. No database index spans the permanent rows and the rows of an event, so
`UniqueCodes` is stated of the stored rows, seen or not: an archived row keeps its code.
`TwoLevels` and `PopUps` (a pop-up is neither room nor slice) keep the folds in a room when a
room is repaired, folded by the grid or copied; `FreshIds` says that an id nobody uses
carries no override and no assignment to the space it is given to, and `HeldWhereSeen`
that departments hold only what their event sees, from which `PagesAgree` follows. Copying the
layout of an event creates several rows at once; that the copies get as many different
new ids is a fact about ranks in a finite set of naturals (`RankIsTaken`).

`TechOpsForm`. The theorems need what `expand_to_lines` makes of every form, and forms have
any number of spaces and slots. A list is reasoned about as the set of its elements: a
concatenation has the elements of its parts (`ConcatHas`, `FlattenHas`, by an induction
in first-order form as above), and every element says of itself from which card and slot
it comes (`FromCard`, `SlotOfLine`), so that positions occur in one lemma only
(`ExpandHas`). `HandsetsRingANumber` holds because the drop removes handsets and never
numbers. For `SubmittedIsComplete` the non-obvious case is a space all of whose lines are
handsets that share a number elsewhere: `validate()` counts the lines of that space alone, where
nothing is dropped, and the whole expansion might drop them; it does not, since a number
that silences them is refused (`NeededHasLine`). Planning that proof showed the property to be
false as first stated: a shared number may be on a card that was switched to "nothing
needed" (`SharedNumbersExist`, section 5), so a desk phone without a number is now
allowed when such a card exists. That the page rebuilt from the lines can be posted again is the
rest of `FormInv`.

Only model-checked: `EventuallySettled` (liveness under fairness is out of the prover's
reach), and `SavingAgainKeepsLines`, which says that the order of the lines comes back too: it
relates two lists position by position, through a page whose slots are numbered by
counting, and the set of their elements is not enough (TLC also finds it true with three
slots and more cards than the run has). No module with a theorem uses
recursive operators.

## 5. Disagreements found

The modules state these under the heading "What the repository says and the code does
not do". Adding the property to the named cfg (with the change given) makes TLC print
a history of at most a dozen steps.

| property | cfg | what happens |
|---|---|---|
| `FinalizedApprovalsHaveAmounts` | `BudgetReview.cfg` | `finalize_work_item` skips lines whose stage is ADMIN_FINAL and whose status is terminal. An admin's request for information, a reset, or an unfinalize that resets lines leaves that stage; a group approval after it is skipped and ends APPROVED with a NULL amount, what the comment at `admin_final/helpers.py:486` wants to exclude |
| `GroupDecidesOnlyItsTurn` | `BudgetReview.cfg` | `_handle_review_action` does not ask `can_decide_line`, "the one rule every decision button and decision route reads" (`approvals/helpers.py:309`): a group decides a line that waits for the requester's answer to an admin |
| `RecommendationsStayInReview` | `BudgetReview.cfg` | the pipeline report counts a group's verdict as final, against its docstring (`report_utils.py:210`) |
| `WorkloadRowsAreNumbers` | `BudgetReview.cfg` | the sum of no pending lines is NULL, and `workload_report.py:181` compares it with 0 |
| `QueuedRequestsArePending` | `BudgetReview.cfg` | the pending queue selects by review status and shows requests whose line is not PENDING, against `build_approval_queues` |
| `LiveCheckoutIsNotStolen` | `ReviewSessions.cfg` | two overlapping checkouts both succeed: the locked query (`checkout.py:169`) returns the instance loaded before the lock |
| `ClaimsAreDisjoint` | `EmailOutboxOverlap.cfg` with `MaxLost = 1`, without its hypothesis `Exclusive` | `reap_stale_claims` neither locks the rows it selects nor asks their status again; of two runs that start while a crashed run's row is stale, the slower requeues and claims a row the faster has claimed, and both send it |
| `WithdrawnIsNotMailed` | `EmailOutboxOverlap.cfg` | a run that claims a release between unfinalize's query and its write holds a CANCELLED row, and sends it (`admin_final/helpers.py:717`, comment at 785) |
| `SubmittedLinesHaveReviews` | `GroupReview.cfg`, `FormOverlaps = TRUE` | a form save that passed its check before a submit replaces lines under review; `replace_lines` calls itself safe because only drafts reach it |
| `LineMirrorsReview` | `GroupReview.cfg` | a decision that loaded the line before a reopen leaves it with another status than its review (a column that seems unchanged is not written); the pages read the review, so `StaffPagesAgree` holds |
| `SubmittedIsAnswered` | `TechOpsForm.cfg` | the detail page submits a stored draft without `validate()`, with spaces unanswered |
| `SharedNumbersExist` | `TechOpsForm.cfg` | a request is submitted with a desk phone that rings nothing: the number it shares is on a card switched to "nothing needed", whose inputs are still posted; `validate()` finds the number there, `expand_to_lines` makes no line of it, against the comment at `line_grain.py:616` |
| `SharesSurviveAReload` | `TechOpsForm.cfg` | a handset that shares a number rings another after a reload, because the page counts sharing lines among the slots |
| `DraftHasNoReviews`, `OneReceiptPerSubmission` | `EventBudgets.cfg` | a recall that overlaps a dispatch leaves reviews on a draft; two submits at once queue two receipts, each with its own stamp |
| `NoMailForABudgetInReview` | `EventBudgets.cfg` | of two overlapping dispatches the second commits after the budget was finalized and released, and puts it back in review with the mail in the queue (`QueuedMailIsTrue` holds while nothing is overwritten so) |
| `LinesStandOnceSubmitted`, `SubmittedHasLines` | `BudgetDraft.cfg` | an edit or delete that loaded the draft commits after its submission |
| `HomeListsWhatOpens` | `EventOrganization.cfg` | a direct membership without rows hides the access that comes with the division, against the comment at `home.py:187` |
| `FinalizedStands` | `SupplyOrder.cfg` | two finalizations at once: the re-check after the lock reads the loaded status, and the second overwrites quantities |
| `NoChains` | `VenueSpaces.cfg`, `MaxRows = 3` | an archived slice keeps its fold while its target is folded on; a copied layout meets the folds of its event |
| `FoldedHoldsNothing` | `VenueSpaces.cfg` | the grid folds a slice that a department holds |
| `LinkedCanSignIn` | `Accounts.cfg` | a person whose organization address belongs to another account is turned away by the unique index, although the subject identifies them |

Three more facts are recorded as hazards or here only, because no text contradicts
them: a holder whose session expired can still reset a line of a request that was
finalized since; admin decisions lock nothing and can commit across a finalize; an
uploaded WORKTYPE_ADMIN row without a work type receives the mail of every type
and opens none of their pages (`notifications.py:569` calls such rows legacy).

## 6. Not modelled, and what is left

Not modelled, with the reason: Slack and feedback (posts after the commit, nothing is
read back); telemetry, CLI, seeds and development tools (append-only records, one-off
commands); the identity provider; rendering, layout and exports; text of templates,
forms and uploads beyond what a rule reads; reference-data forms that write one row.

Left, in the order of their worth:

1. `ReviewSessions`: the partial unique index on admin reviews, row locks of single
   reviews and the deadlock they allow.
2. A proof of `SavingAgainKeepsLines`, from a description of `expand_to_lines` by position.
3. The public-id sequence and concurrent first visits of a portfolio
   (`formatting.py:53` reads the sequence from the instance loaded before the lock).
4. Rounding of quantity times price (`line_details.py:48`) as a pure function.
5. Deferral windows and pruning of the outbox.
