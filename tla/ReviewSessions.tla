--------------------------- MODULE ReviewSessions ---------------------------
(***************************************************************************)
(* The review handlers of one SUBMITTED budget request when requests       *)
(* overlap.  BudgetReview runs a handler in one step; here each is what a  *)
(* SQLAlchemy session on PostgreSQL READ COMMITTED makes of it:            *)
(*                                                                         *)
(*   Read    load the rows and check permissions on what was loaded;       *)
(*   Lock    SELECT ... FOR UPDATE on the request, wait for it if need be, *)
(*           re-read what the handler refreshes, and check again;          *)
(*   Commit  write the columns whose value differs from the loaded one,    *)
(*           release the lock.                                             *)
(*                                                                         *)
(* A handler that takes no lock goes from Read to Commit.  The rows a      *)
(* handler reads without a lock form one snapshot, taken at Read.  The     *)
(* request has one line.                                                   *)
(***************************************************************************)
EXTENDS BudgetLine, FiniteSets

CONSTANTS
    Reviewers,      \* members of the group the line is routed to
    Admins,         \* super admins
    Requester,
    GroupMoves,     \* approver actions the instance exercises
    AdminMoves,     \* admin actions the instance exercises
    MaxInFlight     \* bound: requests under way at once

Users == Reviewers \cup Admins
Procs == Users \cup {Requester}     \* one request per person at a time

ASSUME SessionAssumption ==
    /\ GroupMoves \subseteq GroupActions
    /\ AdminMoves \subseteq AdminActions
    /\ MaxInFlight \in Nat \ {0}
    /\ NULL \notin Procs

VARIABLES
    item,       \* status, holder and live (unexpired) of the WorkItem row
    line,       \* the line and its reviews, as in BudgetLine
    rowLock,    \* who holds FOR UPDATE on the WorkItem row
    request     \* what each person's request under way has loaded

vars == <<item, line, rowLock, request>>

ItemRow == [status : {"SUBMITTED", "FINALIZED"},
            holder : Users \cup {NULL}, live : BOOLEAN]

Kinds == {"checkout", "checkin", "decide", "respond", "admin", "reset",
          "finalize", "unfinalize"}

\* The handlers that SELECT the request FOR UPDATE, and those among them that
\* do it with session.refresh, so that what they loaded before is replaced.
Locking    == {"checkout", "checkin", "decide", "respond", "finalize", "unfinalize"}
Refreshing == {"decide", "respond", "finalize", "unfinalize"}

Arguments == GroupActions \cup AdminActions \cup {"reset lines", "keep lines", NULL}

Request == [kind : Kinds, phase : {"read", "locked"}, arg : Arguments,
            item : ItemRow, line : LineRecord]

TypeOK ==
    /\ item \in ItemRow
    /\ line \in LineRecord
    /\ rowLock \in Procs \cup {NULL}
    /\ request \in [Procs -> Request \cup {NULL}]

\* A request just dispatched.
Init ==
    /\ item = [status |-> "SUBMITTED", holder |-> NULL, live |-> FALSE]
    /\ \E q \in Amounts, g \in Groups : line = Routed(DraftLine(q, g), g)
    /\ rowLock = NULL
    /\ request = [p \in Procs |-> NULL]

CheckedOut(i) == i.holder # NULL /\ i.live

InFlight == {p \in Procs : request[p] # NULL}

-----------------------------------------------------------------------------
(***************************************************************************)
(* Read: the permission checks, on the rows as they are now.               *)
(***************************************************************************)

MayStart(p, kind) ==
    CASE kind = "checkout" ->
            p \in Users /\ item.status = "SUBMITTED" /\ ~CheckedOut(item)
      [] kind = "checkin" ->
            CheckedOut(item) /\ (p = item.holder \/ p \in Admins)
      [] kind = "decide" ->
            p \in Users /\ item.holder = p
      [] kind = "respond" ->
            p = Requester /\ RequesterMayRespond(line)
      [] kind = "admin" ->
            /\ p \in Admins /\ item.holder = p
            /\ Awaiting(line) \in {"ADMIN", "REVIEWER_GROUP"}
      [] kind = "reset" ->
            p \in Admins /\ item.holder = p
      [] kind \in {"finalize", "unfinalize"} ->
            p \in Admins

ArgumentsOf(kind) ==
    CASE kind = "decide"     -> GroupMoves
      [] kind = "admin"      -> AdminMoves
      [] kind = "unfinalize" -> {"reset lines", "keep lines"}
      [] OTHER               -> {NULL}

Read(p, kind, arg) ==
    /\ request[p] = NULL
    /\ Cardinality(InFlight) < MaxInFlight
    /\ MayStart(p, kind)
    /\ request' = [request EXCEPT ![p] =
                      [kind |-> kind, phase |-> "read", arg |-> arg,
                       item |-> item, line |-> line]]
    /\ UNCHANGED <<item, line, rowLock>>

-----------------------------------------------------------------------------
(***************************************************************************)
(* Lock: wait for the row, refresh, check again.                           *)
(***************************************************************************)

\* Seeded fault: nothing is re-read after the lock, as in checkout_work_item.
LoadedUnderLockStale(r) == [r EXCEPT !.phase = "locked"]

\* What a locking handler has loaded once it holds the row.
\*  decide            the item and the AG review are refreshed, the admin
\*                    review is first read now; the line stays as loaded
\*  respond           the item and the review that asked are refreshed
\*  (un)finalize      the refresh cascades to the lines, and the reviews are
\*                    first read now
\*  checkout/checkin  query(...).with_for_update().get() locks the row and
\*                    returns the instance already in the identity map
LoadedUnderLock(r) ==
    LET kicked == KickbackStage(r.line)
        seen ==
          CASE r.kind \in {"finalize", "unfinalize"} -> line
            [] r.kind = "decide" ->
                 [r.line EXCEPT !.ag = line.ag, !.agAmount = line.agAmount,
                                !.admin = line.admin, !.adminAmount = line.adminAmount]
            [] r.kind = "respond" /\ kicked = "ADMIN_FINAL" ->
                 [r.line EXCEPT !.admin = line.admin, !.adminAmount = line.adminAmount]
            [] r.kind = "respond" /\ kicked = "APPROVAL_GROUP" ->
                 [r.line EXCEPT !.ag = line.ag, !.agAmount = line.agAmount]
            [] OTHER -> r.line
    IN  [r EXCEPT !.phase = "locked", !.line = seen,
                  !.item = IF r.kind \in Refreshing THEN item ELSE r.item]

\* Seeded fault: a decision is not validated again under the lock.
DecisionNotRevalidated(was, r) ==
    CASE r.kind \in {"checkout", "checkin"} -> TRUE
      [] r.kind = "decide"   -> ApproverMayAct(was.line)
      [] r.kind = "respond"  ->
           IF KickbackStage(was.line) = "ADMIN_FINAL"
               THEN r.line.admin \in Kickbacks ELSE r.line.ag \in Kickbacks
      [] r.kind = "finalize" ->
           /\ r.item.status = "SUBMITTED"
           /\ ~CheckedOut(r.item)
           /\ r.line.status \notin Kickbacks
           /\ r.line.admin \in AdminTerminal \/ r.line.ag \in GroupTerminal
      [] r.kind = "unfinalize" -> r.item.status = "FINALIZED"

\* Seeded fault: finalize does not look at the checkout after the lock.
FinalizeSkipsCheckout(was, r) ==
    CASE r.kind \in {"checkout", "checkin"} -> TRUE
      [] r.kind = "decide"   -> ApproverMayAct(r.line)
      [] r.kind = "respond"  ->
           IF KickbackStage(was.line) = "ADMIN_FINAL"
               THEN r.line.admin \in Kickbacks ELSE r.line.ag \in Kickbacks
      [] r.kind = "finalize" ->
           /\ r.item.status = "SUBMITTED"
           /\ r.line.status \notin Kickbacks
           /\ r.line.admin \in AdminTerminal \/ r.line.ag \in GroupTerminal
      [] r.kind = "unfinalize" -> r.item.status = "FINALIZED"

\* The check a handler makes on what it now has; a refusal rolls back.  was is
\* the request before the refresh: the stage a response answers was chosen then.
AcceptedUnderLock(was, r) ==
    CASE r.kind \in {"checkout", "checkin"} -> TRUE
      [] r.kind = "decide"   -> ApproverMayAct(r.line)
      [] r.kind = "respond"  ->
           IF KickbackStage(was.line) = "ADMIN_FINAL"
               THEN r.line.admin \in Kickbacks ELSE r.line.ag \in Kickbacks
      [] r.kind = "finalize" ->
           /\ r.item.status = "SUBMITTED"
           /\ ~CheckedOut(r.item)
           /\ r.line.status \notin Kickbacks
           /\ r.line.admin \in AdminTerminal \/ r.line.ag \in GroupTerminal
      [] r.kind = "unfinalize" -> r.item.status = "FINALIZED"

Lock(p) ==
    /\ request[p] # NULL
    /\ request[p].phase = "read"
    /\ request[p].kind \in Locking
    /\ rowLock = NULL
    /\ LET r == LoadedUnderLock(request[p]) IN
       IF AcceptedUnderLock(request[p], r)
           THEN /\ request' = [request EXCEPT ![p] = r]
                /\ rowLock' = p
           ELSE /\ request' = [request EXCEPT ![p] = NULL]
                /\ rowLock' = NULL
    /\ UNCHANGED <<item, line>>

-----------------------------------------------------------------------------
(***************************************************************************)
(* Commit: compute on what was loaded, write what changed.                 *)
(***************************************************************************)

\* The unit of work: an attribute goes into the UPDATE only if its value is
\* not the loaded one.
Flush(row, loaded, computed) ==
    [c \in DOMAIN row |-> IF computed[c] = loaded[c] THEN row[c] ELSE computed[c]]

\* An admin review that did not exist when the line was read is looked up again
\* by get_or_create_admin_review.
AdminReviewLooked(loaded) ==
    IF loaded.admin = NULL
        THEN [loaded EXCEPT !.admin = line.admin, !.adminAmount = line.adminAmount]
        ELSE loaded

ItemWrite(p, r) ==
    CASE r.kind = "checkout"   -> [r.item EXCEPT !.holder = p]
      [] r.kind = "checkin"    -> [r.item EXCEPT !.holder = NULL]
      [] r.kind = "finalize"   -> [r.item EXCEPT !.status = "FINALIZED"]
      [] r.kind = "unfinalize" -> [r.item EXCEPT !.status = "SUBMITTED"]
      [] OTHER                 -> r.item

\* The expiry is a fresh time, or NULL: both differ from any loaded one.
LiveAfter(r) ==
    CASE r.kind = "checkout" -> TRUE
      [] r.kind = "checkin"  -> FALSE
      [] OTHER               -> item.live

LineLoaded(r) ==
    IF r.kind \in {"admin", "finalize"} THEN AdminReviewLooked(r.line) ELSE r.line

LineWrite(r) ==
    LET loaded == LineLoaded(r) IN
    CASE r.kind = "decide"   -> GroupDecision(loaded, r.arg, NULL)
      [] r.kind = "respond"  -> Response(loaded)
      [] r.kind = "admin"    -> AdminDecision(loaded, r.arg, NULL)
      [] r.kind = "reset"    -> ResetLine(loaded)
      [] r.kind = "finalize" -> FinalizedLine(loaded)
      [] r.kind = "unfinalize" /\ r.arg = "reset lines" -> ResetLine(loaded)
      [] OTHER               -> loaded

Commit(p) ==
    /\ request[p] # NULL
    /\ request[p].phase = IF request[p].kind \in Locking THEN "locked" ELSE "read"
    /\ LET r == request[p] IN
       /\ item' = [Flush(item, r.item, ItemWrite(p, r)) EXCEPT !.live = LiveAfter(r)]
       /\ line' = Flush(line, LineLoaded(r), LineWrite(r))
       /\ rowLock' = IF r.kind \in Locking THEN NULL ELSE rowLock
    /\ request' = [request EXCEPT ![p] = NULL]

\* release_lock and release_expired on the locks page: one UPDATE, which waits
\* for the row like any other.
ReleaseLock ==
    /\ rowLock = NULL
    /\ item.holder # NULL
    /\ item' = [item EXCEPT !.holder = NULL, !.live = FALSE]
    /\ UNCHANGED <<line, rowLock, request>>

\* The checkout's expiry passes; no row is written, so no lock is needed.
Expire ==
    /\ item.live
    /\ item' = [item EXCEPT !.live = FALSE]
    /\ UNCHANGED <<line, rowLock, request>>

Next ==
    \/ \E p \in Procs, k \in Kinds : \E a \in ArgumentsOf(k) : Read(p, k, a)
    \/ \E p \in Procs : Lock(p) \/ Commit(p)
    \/ ReleaseLock
    \/ Expire

Spec == Init /\ [][Next]_vars

-----------------------------------------------------------------------------
(***************************************************************************)
(* What the row locks are for.                                             *)
(***************************************************************************)

\* A handler that refreshes acts on the request as it is: while it holds the
\* row, the status and the holder it loaded are those of the row.
LockedReadIsCurrent ==
    \A p \in Procs :
        request[p] # NULL /\ request[p].phase = "locked"
            /\ request[p].kind \in Refreshing =>
                /\ request[p].item.status = item.status
                /\ request[p].item.holder = item.holder

\* Two reviewers posting at once cannot both decide: a verdict of the approval
\* group is never replaced by another, only withdrawn to PENDING
\* (apply_review_decision re-reads the review under its lock).
VerdictNotOverwritten ==
    [][line.ag \in GroupTerminal \cup Kickbacks =>
          line'.ag \in {line.ag, "PENDING"}]_vars

\* Finalization never lands inside a review session, not even one that started
\* after the finalize request had loaded the item.
FinalizeOutsideSessions ==
    [][item.status # "FINALIZED" /\ item'.status = "FINALIZED" => ~CheckedOut(item)]_vars

-----------------------------------------------------------------------------
(* What the repository says and the code does not do.                      *)

\* checkout_work_item's comment: "Lock the work item row to prevent concurrent
\* checkout".  An unexpired checkout would then pass to nobody else.
LiveCheckoutIsNotStolen ==
    [][CheckedOut(item) => item'.holder \in {item.holder, NULL}]_vars
=============================================================================
