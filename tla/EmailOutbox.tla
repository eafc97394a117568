----------------------------- MODULE EmailOutbox -----------------------------
(***************************************************************************)
(* The email outbox and the runs of its drainer.  A row is one notice that *)
(* is owed.  A run reaps what crashed runs left, claims a batch of due     *)
(* rows, takes them one by one (load, render, send, commit) and releases   *)
(* what it did not reach.  Runs may overlap and may die anywhere; SES may  *)
(* refuse, fail, or accept and lose the answer; an unfinalize may withdraw *)
(* rows in a transaction of its own.                                       *)
(*                                                                         *)
(* Each action is one database transaction, or the part of one between a   *)
(* read and a write.  Times are reduced to what is compared with them:     *)
(* due lists the rows whose dispatch_at is past, in that order; stale says *)
(* that claimed_at is 30 minutes old; blocked says whether blocked_since   *)
(* is NULL, recent, or older than the render limit.                        *)
(***************************************************************************)
EXTENDS Naturals, Sequences, FiniteSets

CONSTANTS
    Rows,           \* rows that may be enqueued
    Releases,       \* those that announce the one budget unfinalize withdraws
    Runs,           \* drainer processes; each runs again and again
    Gone,           \* the run id of a run that died
    NULL,
    BatchSize,      \* EMAIL_DRAIN_BATCH_SIZE
    MaxAttempts,    \* EMAIL_MAX_ATTEMPTS
    FailureLimit,   \* _CONSECUTIVE_FAILURE_LIMIT
    DailyLimit,     \* EMAIL_DAILY_LIMIT
    MaxLost,        \* bound: crashes, failed commits and lost answers
    MaxPauses       \* bound: account halts and SIGTERMs

ASSUME OutboxAssumption ==
    /\ Releases \subseteq Rows
    /\ Gone \notin Runs /\ NULL \notin Runs \cup {Gone}
    /\ {BatchSize, MaxAttempts, FailureLimit, DailyLimit} \subseteq Nat \ {0}
    /\ {MaxLost, MaxPauses} \subseteq Nat

VARIABLES
    row,            \* the table
    due,            \* rows with dispatch_at in the past, by dispatch_at
    run,            \* what each process is doing
    withdrawing,    \* rows an open unfinalize transaction has read
    sentToday,      \* SENT log rows of the last 24 hours
    calls,          \* history: how often a row was given to SES, halts aside
    accepted,       \* history: how often SES accepted it
    lost,           \* how many of MaxLost happened
    pauses          \* how many of MaxPauses happened

outbox  == <<row, due, withdrawing>>
history == <<calls, accepted>>
vars    == <<outbox, run, sentToday, history, lost, pauses>>

Claimable == {"QUEUED", "RENDER_BLOCKED"}
Terminal  == {"SENT", "FAILED", "CANCELLED", "SUPPRESSED"}
RowStatus == {"NONE", "SENDING"} \cup Claimable \cup Terminal

\* classify_ses_error, and the answer that never arrives.
Answers == {"ACCEPTED", "LOST", "TRANSIENT", "TRANSIENT_ACCOUNT",
            "ACCOUNT_HALT", "PERMANENT"}

RowRecord ==
    [status : RowStatus, owner : Runs \cup {Gone, NULL}, stale : BOOLEAN,
     attempts : Nat, blocked : {"no", "recent", "aged"}]

\* first: the loop has not left its first row.  loaded: the rows it read, as it
\* read them.
RunRecord ==
    [at : {"reap", "claim", "loop", "stop"}, todo : Seq(Rows), first : BOOLEAN,
     fails : 0 .. FailureLimit, answer : (Answers \ {"LOST"}) \cup {NULL},
     loaded : [Rows -> RowRecord \cup {NULL}]]

ASSUME NullAssumption == NULL \notin Answers /\ NULL \notin RowRecord /\ NULL \notin RunRecord

TypeOK ==
    /\ row \in [Rows -> RowRecord]
    /\ due \in Seq(Rows)
    /\ run \in [Runs -> RunRecord \cup {NULL}]
    /\ withdrawing \in (SUBSET Rows) \cup {NULL}
    /\ {sentToday, lost, pauses} \subseteq Nat
    /\ calls \in [Rows -> Nat] /\ accepted \in [Rows -> Nat]

Init ==
    /\ row = [m \in Rows |-> [status |-> "NONE", owner |-> NULL, stale |-> FALSE,
                              attempts |-> 0, blocked |-> "no"]]
    /\ due = <<>>
    /\ run = [r \in Runs |-> NULL]
    /\ withdrawing = NULL
    /\ sentToday = 0 /\ lost = 0 /\ pauses = 0
    /\ calls = [m \in Rows |-> 0] /\ accepted = [m \in Rows |-> 0]

-----------------------------------------------------------------------------
(***************************************************************************)
(* Writing rows.                                                           *)
(***************************************************************************)

\* The unit of work: only the columns that differ from the loaded ones.
Flush(current, loaded, computed) ==
    [c \in DOMAIN current |->
        IF computed[c] = loaded[c] THEN current[c] ELSE computed[c]]

\* _clear_claim.
Unclaimed(m) == [m EXCEPT !.owner = NULL, !.stale = FALSE]

Backlog == {due[i] : i \in 1 .. Len(due)}

\* Where dispatch_at puts a due row.
Place(m) == CHOOSE i \in 1 .. Len(due) : due[i] = m

\* dispatch_at of m moves into the future.
Without(s, m) ==
    IF m \notin Backlog THEN s
    ELSE SubSeq(s, 1, Place(m) - 1) \o SubSeq(s, Place(m) + 1, Len(s))

\* Seeded fault: the reaper clears the claim and forgets the status.
ReapedForgetsStatus(m) ==
    IF m.blocked # "no" THEN Unclaimed([m EXCEPT !.status = "RENDER_BLOCKED"])
    ELSE Unclaimed([m EXCEPT !.attempts = @ + 1])

\* What reap_stale_claims makes of a row.
Reaped(m) ==
    IF m.blocked # "no" THEN Unclaimed([m EXCEPT !.status = "RENDER_BLOCKED"])
    ELSE Unclaimed([m EXCEPT !.status = "QUEUED", !.attempts = @ + 1])

\* _block_on_render.
Parked(m) ==
    IF m.blocked = "aged" THEN [m EXCEPT !.status = "FAILED"]
    ELSE Unclaimed([m EXCEPT !.status = "RENDER_BLOCKED",
                             !.blocked = IF @ = "no" THEN "recent" ELSE @])

\* Seeded fault: the attempt is tested before it is counted.
RequeuedTestsFirst(m) ==
    IF m.attempts >= MaxAttempts
        THEN [m EXCEPT !.status = "FAILED"]
        ELSE Unclaimed([m EXCEPT !.status = "QUEUED", !.attempts = @ + 1])

\* _requeue_or_fail.
Requeued(m) ==
    IF m.attempts + 1 >= MaxAttempts
        THEN [m EXCEPT !.status = "FAILED", !.attempts = @ + 1]
        ELSE Unclaimed([m EXCEPT !.status = "QUEUED", !.attempts = @ + 1])

\* process_row after the template rendered: by what SES said.
Answered(m, answer) ==
    LET rendered == [m EXCEPT !.blocked = "no"]
    IN  CASE answer = "ACCEPTED"     -> [rendered EXCEPT !.status = "SENT"]
          [] answer = "PERMANENT"    -> [rendered EXCEPT !.status = "FAILED"]
          [] answer = "ACCOUNT_HALT" -> Unclaimed([rendered EXCEPT !.status = "QUEUED"])
          [] OTHER                   -> Requeued(rendered)

-----------------------------------------------------------------------------
(***************************************************************************)
(* Enqueue, and the unfinalize transaction.                                *)
(***************************************************************************)

\* enqueue_email, once per row: CREATED, or DEFERRED by the send window.
Enqueue(m, deferred) ==
    /\ row[m].status = "NONE"
    /\ row' = [row EXCEPT ![m].status = "QUEUED"]
    /\ due' = IF deferred THEN due ELSE Append(due, m)
    /\ UNCHANGED <<run, withdrawing, sentToday, history, lost, pauses>>

\* _cancel_pending_release_emails selects without a lock ...
WithdrawRead ==
    /\ withdrawing = NULL
    /\ withdrawing' = {m \in Releases : row[m].status \in Claimable}
    /\ withdrawing' # {}
    /\ UNCHANGED <<row, due, run, sentToday, history, lost, pauses>>

\* ... and the transaction that called it writes when it flushes.
WithdrawCommit ==
    /\ withdrawing # NULL
    /\ row' = [m \in Rows |-> IF m \in withdrawing
                                THEN [row[m] EXCEPT !.status = "CANCELLED"]
                                ELSE row[m]]
    /\ withdrawing' = NULL
    /\ UNCHANGED <<due, run, sentToday, history, lost, pauses>>

-----------------------------------------------------------------------------
(***************************************************************************)
(* A run: drain_outbox.                                                    *)
(***************************************************************************)

Nothing == [m \in Rows |-> NULL]

Loop(todo, first, fails) ==
    [at |-> "loop", todo |-> todo, first |-> first, fails |-> fails,
     answer |-> NULL, loaded |-> Nothing]

\* The query of reap_stale_claims.  With nothing to reap it goes on to claim.
Start(r) ==
    /\ run[r] = NULL
    /\ LET strays == {m \in Rows : row[m].status = "SENDING" /\ row[m].stale}
       IN  run' = [run EXCEPT ![r] =
                     [Loop(<<>>, TRUE, 0) EXCEPT
                         !.at = IF strays = {} THEN "claim" ELSE "reap",
                         !.loaded = [m \in Rows |-> IF m \in strays THEN row[m] ELSE NULL]]]
    /\ UNCHANGED <<outbox, sentToday, history, lost, pauses>>

\* Its writes: no lock was taken, and the status is not asked again.
Reap(r) ==
    /\ run[r] # NULL /\ run[r].at = "reap"
    /\ LET loaded == run[r].loaded IN
       row' = [m \in Rows |-> IF loaded[m] # NULL
                                THEN Flush(row[m], loaded[m], Reaped(loaded[m]))
                                ELSE row[m]]
    /\ run' = [run EXCEPT ![r] = [Loop(<<>>, TRUE, 0) EXCEPT !.at = "claim"]]
    /\ UNCHANGED <<due, withdrawing, sentToday, history, lost, pauses>>

\* The queries of claim_due_rows over the rows open: the UPDATE takes the
\* first of them, the SELECT lists what it took, both by dispatch_at.
FirstOf(open) ==
    LET taken == {m \in open : Cardinality({x \in open : Place(x) < Place(m)}) < BatchSize}
    IN  {b \in [1 .. Cardinality(taken) -> taken] :
            \A i, j \in DOMAIN b : i < j => Place(b[i]) < Place(b[j])}

\* Seeded fault: the claim takes whatever is due, claimed or not.
BatchOfAnyStatus == FirstOf({m \in Backlog : row[m].status \notin Terminal})

\* SKIP LOCKED makes the UPDATE one step.
Batch == FirstOf({m \in Backlog : row[m].status \in Claimable})

\* Over the daily limit a run claims nothing.
Claim(r) ==
    /\ run[r] # NULL /\ run[r].at = "claim"
    /\ \E todo \in IF sentToday >= DailyLimit THEN {<<>>} ELSE Batch :
       LET mine == {todo[i] : i \in 1 .. Len(todo)}
       IN  /\ row' = [m \in Rows |->
                        IF m \in mine
                          THEN [row[m] EXCEPT !.status = "SENDING", !.owner = r,
                                              !.stale = FALSE]
                          ELSE row[m]]
           /\ run' = [run EXCEPT ![r] = Loop(todo, TRUE, 0)]
    /\ UNCHANGED <<due, withdrawing, sentToday, history, lost, pauses>>

\* The loop goes on with the next row.
AtRow(r) ==
    /\ run[r] # NULL /\ run[r].at = "loop"
    /\ run[r].answer = NULL
    /\ run[r].todo # <<>>
    /\ run[r].fails < FailureLimit

\* process_row up to the send.  Nobody asks whether the row is still SENDING,
\* nor whose claim it carries.
WithoutSending(r, computed, delayed) ==
    LET m == Head(run[r].todo) IN
    /\ row' = [row EXCEPT ![m] = computed]
    /\ due' = IF delayed THEN Without(due, m) ELSE due
    /\ run' = [run EXCEPT ![r] = Loop(Tail(@.todo), FALSE, 0)]
    /\ UNCHANGED <<withdrawing, sentToday, history, lost, pauses>>

\* A missing request, an inactive template, a closed window: CANCELLED.  A
\* suppressed recipient, or email turned off: SUPPRESSED, after rendering.
Drop(r) ==
    /\ AtRow(r)
    /\ LET m == row[Head(run[r].todo)] IN
       \/ WithoutSending(r, [m EXCEPT !.status = "CANCELLED"], FALSE)
       \/ WithoutSending(r, [m EXCEPT !.status = "SUPPRESSED", !.blocked = "no"], FALSE)

\* The template did not render.
Block(r) ==
    /\ AtRow(r)
    /\ LET m == row[Head(run[r].todo)] IN
       WithoutSending(r, Parked(m), m.blocked # "aged")

\* send_via_ses: the row as loaded, and SES's answer.  It turns a lost answer
\* into an error without a code.
Send(r, answer) ==
    /\ AtRow(r)
    /\ answer = "LOST" => lost < MaxLost
    /\ answer = "ACCOUNT_HALT" => pauses < MaxPauses
    /\ LET m == Head(run[r].todo) IN
       /\ run' = [run EXCEPT ![r].answer = IF answer = "LOST" THEN "TRANSIENT" ELSE answer,
                             ![r].loaded = [Nothing EXCEPT ![m] = row[m]]]
       /\ calls' = IF answer = "ACCOUNT_HALT" THEN calls
                   ELSE [calls EXCEPT ![m] = @ + 1]
       /\ accepted' = IF answer \in {"ACCEPTED", "LOST"}
                      THEN [accepted EXCEPT ![m] = @ + 1] ELSE accepted
    /\ lost' = IF answer = "LOST" THEN lost + 1 ELSE lost
    /\ pauses' = IF answer = "ACCOUNT_HALT" THEN pauses + 1 ELSE pauses
    /\ UNCHANGED <<outbox, sentToday>>

\* What the answer makes of the row is committed; a halt or a throttle then
\* ends the run.
Commit(r) ==
    /\ run[r] # NULL /\ run[r].answer # NULL
    /\ LET m == Head(run[r].todo)
           loaded == run[r].loaded[m]
           answer == run[r].answer
           computed == Answered(loaded, answer)
           backsOff == computed.status = "QUEUED" /\ answer # "ACCOUNT_HALT"
           next == Loop(Tail(run[r].todo), FALSE,
                        IF answer = "ACCEPTED" THEN 0 ELSE run[r].fails + 1)
       IN  /\ row' = [row EXCEPT ![m] = Flush(@, loaded, computed)]
           /\ due' = IF backsOff THEN Without(due, m) ELSE due
           /\ sentToday' = IF answer = "ACCEPTED" THEN sentToday + 1 ELSE sentToday
           /\ run' = [run EXCEPT ![r] =
                        IF answer \in {"ACCOUNT_HALT", "TRANSIENT_ACCOUNT"}
                          THEN [next EXCEPT !.at = "stop", !.fails = 0] ELSE next]
    /\ UNCHANGED <<withdrawing, history, lost, pauses>>

\* Seeded fault: released from the list in memory, sent rows included.
ReleasedFromMemory(r, m) ==
    IF row[m].owner = r
        THEN Unclaimed([row[m] EXCEPT !.status =
                           IF row[m].blocked = "no" THEN "QUEUED" ELSE "RENDER_BLOCKED"])
        ELSE row[m]

\* _release_claims.
Released(r, m) ==
    IF row[m].owner = r /\ row[m].status = "SENDING"
        THEN Unclaimed([row[m] EXCEPT !.status =
                           IF row[m].blocked = "no" THEN "QUEUED" ELSE "RENDER_BLOCKED"])
        ELSE row[m]

\* The finally block.  The loop ends at the end of the batch or at the failure
\* limit, and from the second row on by the clock or the daily limit.
End(r) ==
    /\ run[r] # NULL
    /\ run[r].answer = NULL
    /\ \/ run[r].at = "stop"
       \/ run[r].at = "loop" /\ (run[r].todo = <<>> \/ ~run[r].first)
    /\ row' = [m \in Rows |-> Released(r, m)]
    /\ run' = [run EXCEPT ![r] = NULL]
    /\ UNCHANGED <<due, withdrawing, sentToday, history, lost, pauses>>

-----------------------------------------------------------------------------
(***************************************************************************)
(* What can go wrong, and the passing of time.                             *)
(***************************************************************************)

\* SIGTERM between two rows.
Sigterm(r) ==
    /\ run[r] # NULL /\ run[r].at = "loop" /\ run[r].answer = NULL
    /\ pauses < MaxPauses
    /\ pauses' = pauses + 1
    /\ run' = [run EXCEPT ![r].at = "stop"]
    /\ UNCHANGED <<outbox, sentToday, history, lost>>

\* The commit of an answer raises: rolled back, and the run ends.
CommitFails(r) ==
    /\ run[r] # NULL /\ run[r].answer # NULL
    /\ lost < MaxLost
    /\ lost' = lost + 1
    /\ run' = [run EXCEPT ![r].at = "stop", ![r].answer = NULL, ![r].loaded = Nothing]
    /\ UNCHANGED <<outbox, sentToday, history, pauses>>

\* SIGKILL.  The run id on its rows belongs to nobody from now on.
Crash(r) ==
    /\ run[r] # NULL
    /\ lost < MaxLost
    /\ lost' = lost + 1
    /\ run' = [run EXCEPT ![r] = NULL]
    /\ row' = [m \in Rows |-> IF row[m].owner = r
                                THEN [row[m] EXCEPT !.owner = Gone] ELSE row[m]]
    /\ UNCHANGED <<due, withdrawing, sentToday, history, pauses>>

FallDue(m) ==
    /\ row[m].status \in Claimable
    /\ m \notin Backlog
    /\ due' = Append(due, m)
    /\ UNCHANGED <<row, run, withdrawing, sentToday, history, lost, pauses>>

\* Only the claim of a dead run gets 30 minutes old: a live one ends within
\* EMAIL_DRAIN_MAX_SECONDS (7 minutes) and a row.
GoStale(m) ==
    /\ row[m].status = "SENDING" /\ row[m].owner = Gone /\ ~row[m].stale
    /\ row' = [row EXCEPT ![m].stale = TRUE]
    /\ UNCHANGED <<due, run, withdrawing, sentToday, history, lost, pauses>>

\* Seven days since blocked_since.
Age(m) ==
    /\ row[m].blocked = "recent"
    /\ row' = [row EXCEPT ![m].blocked = "aged"]
    /\ UNCHANGED <<due, run, withdrawing, sentToday, history, lost, pauses>>

\* A send drops out of the last 24 hours.
SendAges ==
    /\ sentToday > 0
    /\ sentToday' = sentToday - 1
    /\ UNCHANGED <<outbox, run, history, lost, pauses>>

-----------------------------------------------------------------------------
Drain(r) ==
    \/ Start(r) \/ Reap(r) \/ Claim(r)
    \/ Drop(r) \/ Block(r) \/ \E a \in Answers : Send(r, a)
    \/ Commit(r) \/ End(r)

Next ==
    \/ \E m \in Rows, deferred \in BOOLEAN : Enqueue(m, deferred)
    \/ WithdrawRead \/ WithdrawCommit
    \/ \E r \in Runs : Drain(r) \/ Sigterm(r) \/ CommitFails(r) \/ Crash(r)
    \/ \E m \in Rows : FallDue(m) \/ GoStale(m) \/ Age(m)
    \/ SendAges

Spec == Init /\ [][Next]_vars

\* The scheduler starts a run every ten minutes and a run does not stop by
\* itself; time passes.  Nothing is assumed of SES, templates or unfinalize.
Fairness ==
    /\ \A r \in Runs : WF_vars(Drain(r))
    /\ \A m \in Rows : WF_vars(FallDue(m)) /\ WF_vars(GoStale(m)) /\ WF_vars(Age(m))
    /\ WF_vars(SendAges)

FairSpec == Spec /\ Fairness

-----------------------------------------------------------------------------
(***************************************************************************)
(* What the outbox promises.                                               *)
(***************************************************************************)

\* A claim has one holder as long as no two runs overlap, or nothing was lost.
\* (Two runs that reap one dead run's row may both end up with it.)
Exclusive == lost = 0 \/ \E r \in Runs : Runs = {r}

\* SES accepts a message once, and once more for each answer that was lost: by
\* a crash or a failed commit between the send and the commit, or on the wire.
SentOnce == Exclusive => \A m \in Rows : accepted[m] <= 1 + lost

\* EMAIL_MAX_ATTEMPTS bounds how often SES is tried; only what was lost between
\* a call and its commit comes on top, once per loss.
RetryBudget == Exclusive => \A m \in Rows : calls[m] <= MaxAttempts + lost

\* A row that reached its outcome is not queued or claimed again; release_claims
\* re-queries "rather than iterating the claimed list" for this.  Cancelled
\* rows are the subject of WithdrawnIsNotMailed.
OutcomeStands ==
    [][Exclusive =>
         \A m \in Rows : row[m].status \in {"SENT", "FAILED", "SUPPRESSED"} =>
                            row'[m].status \in Terminal]_vars

\* Two runs never work on one row.
InHand(r) ==
    IF run[r] = NULL THEN {} ELSE {run[r].todo[i] : i \in 1 .. Len(run[r].todo)}
ClaimsAreDisjoint ==
    Exclusive => \A r, s \in Runs : r # s => InHand(r) \cap InHand(s) = {}

\* Every notice that is owed reaches an outcome and keeps one, whatever
\* templates do and however SES answers, as long as crashes and halts end.
EventuallySettled ==
    \A m \in Rows : row[m].status # "NONE" ~> [](row[m].status \in Terminal)

-----------------------------------------------------------------------------
(* What the repository says and the code does not do.                      *)

\* unfinalize_work_item's comment: it "withdraws the unsent rows rather than
\* mailing a budget back in review".  SES is not given a cancelled row.
WithdrawnIsNotMailed ==
    [][\A m \in Rows : row[m].status = "CANCELLED" => calls'[m] = calls[m]]_vars
=============================================================================
