--------------------------- MODULE RequestProofs ---------------------------
(***************************************************************************)
(* Theorems about a request: how a TechOps form becomes its lines          *)
(* (TechOpsForm), and how a budget's lines are reviewed by several people  *)
(* at once (ReviewSessions).  The two share no state, and each is proved   *)
(* from its own specification.                                             *)
(***************************************************************************)
EXTENDS ReviewSessions, TechOpsForm, FiniteSetTheorems, WellFoundedInduction, TLAPS

-----------------------------------------------------------------------------
(***************************************************************************)
(* What the row lock protects, for any number of reviewers and admins and  *)
(* any overlap of their requests.  The invariant is a rely condition: it   *)
(* says what a request that holds the row may still believe of what it     *)
(* loaded, and each step of anybody else has to leave that true.           *)
(***************************************************************************)

Locked(p) == request[p] # NULL /\ request[p].phase = "locked"

\* A request carries an argument of its kind, and a decision is a user's.
RequestOK(p) ==
    request[p] # NULL => /\ request[p].arg \in ArgumentsOf(request[p].kind)
                         /\ request[p].kind \in {"checkout", "decide"} => p \in Users

\* Who is past its Lock step holds the row.
HoldsRow(p) == Locked(p) => rowLock = p /\ request[p].kind \in Locking

\* What a refreshing request still believes: a checkout may have expired since,
\* none may have begun.
SeesItem(p) ==
    Locked(p) /\ request[p].kind \in Refreshing =>
        /\ request[p].item.status = item.status
        /\ request[p].item.holder = item.holder
        /\ item.live => request[p].item.live

\* The group's review is the one the decision was validated against.
SeesReview(p) ==
    Locked(p) /\ request[p].kind = "decide" =>
        request[p].line.ag = line.ag /\ line.ag \in {NULL, "PENDING"}

\* Finalize and unfinalize found the request as they want it.
FoundStatus(p) ==
    Locked(p) =>
        /\ request[p].kind = "finalize" =>
              request[p].item.status = "SUBMITTED" /\ ~CheckedOut(request[p].item)
        /\ request[p].kind = "unfinalize" => request[p].item.status = "FINALIZED"

ProcOK(p) ==
    RequestOK(p) /\ HoldsRow(p) /\ SeesItem(p) /\ SeesReview(p) /\ FoundStatus(p)

IInv == TypeOK /\ \A p \in Procs : ProcOK(p)

-----------------------------------------------------------------------------
(***************************************************************************)
(* What an operation on a line leaves of its type and of the group's       *)
(* review.                                                                 *)
(***************************************************************************)

\* A column that is replaced by one of its type.
LEMMA SyncIsLine ==
    ASSUME NEW r \in LineRecord, NEW v \in ReviewStatus
    PROVE  SyncLineStatus(r, v) \in LineRecord /\ SyncLineStatus(r, v).ag = r.ag
  <1>1. ASSUME NEW b \in BOOLEAN PROVE [r EXCEPT !.status = v, !.needsAction = b] \in LineRecord
    BY Zenon DEF LineRecord
  <1>2. (v \in Kickbacks) \in BOOLEAN
    OBVIOUS
  <1>3. SyncLineStatus(r, v) \in LineRecord
    BY <1>1, <1>2 DEF SyncLineStatus
  <1>4. SyncLineStatus(r, v).ag = r.ag
    BY SMT DEF SyncLineStatus, LineRecord
  <1> QED
    BY <1>3, <1>4

\* The line a request enters review with.
LEMMA FirstIsLine ==
    ASSUME NEW q \in Amounts, NEW g \in Groups
    PROVE  Routed(DraftLine(q, g), g) \in LineRecord
  <1>1. DraftLine(q, g) \in LineRecord
    BY SMT DEF DraftLine, LineRecord, ReviewStatus, AdminStatus
  <1>2. "PENDING" \in ReviewStatus
    BY DEF ReviewStatus
  <1> QED
    BY <1>1, <1>2, Zenon DEF Routed, LineRecord

\* A decision of the approval group.
LEMMA DecisionIsLine ==
    ASSUME NEW r \in LineRecord, NEW a \in GroupActions
    PROVE  GroupDecision(r, a, NULL) \in LineRecord
  <1> DEFINE v == GroupVerdict[a]
             u == [r EXCEPT !.ag = v, !.agAmount = r.agAmount]
  <1>1. v \in ReviewStatus
    BY DEF GroupVerdict, GroupActions, ReviewStatus, Kickbacks, GroupTerminal
  <1>2. GroupDecision(r, a, NULL) = SyncLineStatus(u, v)
    BY DEF GroupDecision
  <1>3. r.agAmount \in Amounts \cup {NULL}
    BY DEF LineRecord
  <1> HIDE DEF v
  <1>4. u \in LineRecord
    BY <1>1, <1>3, Zenon DEF LineRecord
  <1> HIDE DEF u
  <1> QED
    BY <1>1, <1>2, <1>4, SyncIsLine

\* A response reopens the review that asked.
LEMMA ResponseIsLine ==
    ASSUME NEW r \in LineRecord
    PROVE  Response(r) \in LineRecord /\ Response(r).ag \in {r.ag, "PENDING"}
  <1> DEFINE u == [r EXCEPT !.admin = "PENDING"]
             w == [r EXCEPT !.ag = "PENDING"]
  <1>1. "PENDING" \in ReviewStatus /\ "PENDING" \in AdminStatus
    BY DEF ReviewStatus, AdminStatus
  <1>2. u \in LineRecord /\ w \in LineRecord
    BY <1>1, Zenon DEF LineRecord
  <1>3. u.ag = r.ag /\ w.ag = "PENDING"
    BY SMT DEF LineRecord
  <1>4. Response(r) \in {SyncLineStatus(u, "PENDING"), SyncLineStatus(w, "PENDING")}
    BY DEF Response
  <1> HIDE DEF u, w
  <1> QED
    BY <1>1, <1>2, <1>3, <1>4, SyncIsLine

\* An admin's decision leaves the group's review alone.
LEMMA AdminDecisionIsLine ==
    ASSUME NEW r \in LineRecord, NEW a \in AdminActions
    PROVE  AdminDecision(r, a, NULL) \in LineRecord /\ AdminDecision(r, a, NULL).ag = r.ag
  <1> DEFINE u == [r EXCEPT !.stage = "ADMIN_FINAL"]
             x == ApprovalAmount(r, NULL)
  <1>1. u \in LineRecord /\ u.ag = r.ag
    BY SMT DEF LineRecord
  <1>2. x \in Amounts
    BY DEF ApprovalAmount, LineRecord
  <1>3. \A s \in {"APPROVED", "REJECTED", "NEEDS_INFO"} :
            s \in AdminStatus \cup {NULL} /\ s \in ReviewStatus
    BY DEF ReviewStatus, AdminStatus, AdminTerminal, GroupTerminal, Kickbacks
  <1> HIDE DEF u, x
  <1>4. ASSUME NEW s \in AdminStatus \cup {NULL}, NEW t \in ReviewStatus
        PROVE  [u EXCEPT !.admin = s, !.adminAmount = x, !.status = t, !.amount = x]
                  \in LineRecord
    BY <1>1, <1>2, Zenon DEF LineRecord
  <1>5. ASSUME NEW s \in AdminStatus \cup {NULL}, NEW t \in ReviewStatus
        PROVE  [u EXCEPT !.admin = s, !.status = t, !.amount = NULL] \in LineRecord
    BY <1>1, Zenon DEF LineRecord
  <1>6. ASSUME NEW s \in AdminStatus \cup {NULL}, NEW t \in ReviewStatus
        PROVE  [u EXCEPT !.admin = s, !.status = t, !.needsAction = TRUE] \in LineRecord
    BY <1>1, Zenon DEF LineRecord
  <1>7. CASE a = "APPROVE"
    <2>1. AdminDecision(r, a, NULL) = [u EXCEPT !.admin = "APPROVED", !.adminAmount = x,
                                                !.status = "APPROVED", !.amount = x]
      BY <1>7 DEF AdminDecision, u, x
    <2>2. AdminDecision(r, a, NULL).ag = u.ag
      BY <1>1, <2>1, SMT DEF LineRecord
    <2>3. [u EXCEPT !.admin = "APPROVED", !.adminAmount = x, !.status = "APPROVED", !.amount = x] \in LineRecord
      BY <1>3, <1>4
    <2> QED
      BY <1>1, <2>1, <2>2, <2>3, Zenon
  <1>8. CASE a = "REJECT"
    <2>1. AdminDecision(r, a, NULL) = [u EXCEPT !.admin = "REJECTED", !.status = "REJECTED",
                                                !.amount = NULL]
      BY <1>8 DEF AdminDecision, u
    <2>2. AdminDecision(r, a, NULL).ag = u.ag
      BY <1>1, <2>1, SMT DEF LineRecord
    <2>3. [u EXCEPT !.admin = "REJECTED", !.status = "REJECTED", !.amount = NULL] \in LineRecord
      BY <1>3, <1>5
    <2> QED
      BY <1>1, <2>1, <2>2, <2>3, Zenon
  <1>9. CASE a = "NEEDS_INFO"
    <2>1. AdminDecision(r, a, NULL) = [u EXCEPT !.admin = "NEEDS_INFO", !.status = "NEEDS_INFO",
                                                !.needsAction = TRUE]
      BY <1>9 DEF AdminDecision, u
    <2>2. AdminDecision(r, a, NULL).ag = u.ag
      BY <1>1, <2>1, SMT DEF LineRecord
    <2>3. [u EXCEPT !.admin = "NEEDS_INFO", !.status = "NEEDS_INFO", !.needsAction = TRUE] \in LineRecord
      BY <1>3, <1>6
    <2> QED
      BY <1>1, <2>1, <2>2, <2>3, Zenon
  <1> QED
    BY <1>7, <1>8, <1>9 DEF AdminActions

\* So does a reset.
LEMMA ResetIsLine ==
    ASSUME NEW r \in LineRecord
    PROVE  ResetLine(r) \in LineRecord /\ ResetLine(r).ag = r.ag
  <1>1. Reopened(r.admin) \in AdminStatus \cup {NULL} /\ "PENDING" \in ReviewStatus
    BY DEF Reopened, AdminStatus, ReviewStatus
  <1>2. ASSUME NEW x \in AdminStatus \cup {NULL}, NEW s \in ReviewStatus
        PROVE  [r EXCEPT !.admin = x, !.status = s, !.amount = NULL, !.needsAction = FALSE]
                  \in LineRecord
    BY Zenon DEF LineRecord
  <1>3. ResetLine(r).ag = r.ag
    BY SMT DEF ResetLine, LineRecord
  <1> QED
    BY <1>1, <1>2, <1>3 DEF ResetLine

\* So does finalize.
LEMMA FinalizedIsLine ==
    ASSUME NEW r \in LineRecord
    PROVE  FinalizedLine(r) \in LineRecord /\ FinalizedLine(r).ag = r.ag
  <1> DEFINE v == IF r.status = "REJECTED" THEN "REJECTED" ELSE "APPROVED"
             x == FinalAmount(r)
             w == [r EXCEPT !.admin = v, !.status = v, !.adminAmount = x,
                            !.amount = x, !.stage = "ADMIN_FINAL"]
  <1>1. v \in AdminStatus /\ v \in ReviewStatus /\ x \in Amounts
    BY LineAssumption DEF FinalAmount, LineRecord, AdminTerminal, AdminStatus, ReviewStatus,
                          GroupTerminal
  <1>2. FinalizedLine(r) \in {r, w}
    BY DEF FinalizedLine
  <1> HIDE DEF v, x
  <1>3. w \in LineRecord
    BY <1>1, Zenon DEF LineRecord
  <1>4. w.ag = r.ag
    BY SMT DEF LineRecord
  <1> HIDE DEF w
  <1> QED
    BY <1>2, <1>3, <1>4

-----------------------------------------------------------------------------
(***************************************************************************)
(* What a unit of work writes.                                             *)
(***************************************************************************)

\* Flush writes column by column.
LEMMA FlushLine ==
    ASSUME NEW r \in LineRecord, NEW l \in LineRecord, NEW c \in LineRecord
    PROVE  /\ Flush(r, l, c) \in LineRecord
           /\ Flush(r, l, c).ag = IF c.ag = l.ag THEN r.ag ELSE c.ag
  BY SMT DEF Flush, LineRecord

\* So it does with the request's row; the expiry is written apart.
LEMMA FlushItem ==
    ASSUME NEW i \in ItemRow, NEW l \in ItemRow, NEW c \in ItemRow, NEW v \in BOOLEAN
    PROVE  LET w == [Flush(i, l, c) EXCEPT !.live = v] IN
           /\ w \in ItemRow
           /\ w.status = IF c.status = l.status THEN i.status ELSE c.status
           /\ w.holder = IF c.holder = l.holder THEN i.holder ELSE c.holder
           /\ w.live = v
  <1> DEFINE u == Flush(i, l, c)
  <1>1. /\ u \in ItemRow
        /\ u.status = IF c.status = l.status THEN i.status ELSE c.status
        /\ u.holder = IF c.holder = l.holder THEN i.holder ELSE c.holder
    BY SMT DEF Flush, ItemRow
  <1> HIDE DEF u
  <1>2. [u EXCEPT !.live = v] \in ItemRow
    BY <1>1, Zenon DEF ItemRow
  <1>3. /\ [u EXCEPT !.live = v].status = u.status
        /\ [u EXCEPT !.live = v].holder = u.holder
        /\ [u EXCEPT !.live = v].live = v
    BY <1>1, SMT DEF ItemRow
  <1> QED
    BY <1>1, <1>2, <1>3 DEF u

LEMMA ChoicesAreArguments ==
    ASSUME NEW k \in Kinds, NEW a \in ArgumentsOf(k)
    PROVE  /\ a \in Arguments
           /\ k = "decide" => a \in GroupActions
           /\ k = "admin" => a \in AdminActions
  BY SessionAssumption DEF ArgumentsOf, Arguments, Kinds

\* A handler that is not a group decision leaves the group's review alone or
\* reopens it.
LEMMA LineWritten ==
    ASSUME TypeOK, NEW r \in Request, r.arg \in ArgumentsOf(r.kind)
    PROVE  /\ LineLoaded(r) \in LineRecord /\ LineLoaded(r).ag = r.line.ag
           /\ LineWrite(r) \in LineRecord
           /\ r.kind # "decide" => LineWrite(r).ag \in {r.line.ag, "PENDING"}
           /\ r.kind \notin Locking => LineWrite(r).ag = r.line.ag
  <1> DEFINE l == LineLoaded(r)
  <1>1. r.line \in LineRecord /\ r.kind \in Kinds
    BY DEF Request
  <1>2. LineLoaded(r) \in LineRecord /\ LineLoaded(r).ag = r.line.ag
    <2> DEFINE x == r.line
               y == [x EXCEPT !.admin = line.admin, !.adminAmount = line.adminAmount]
    <2>1. ASSUME NEW a \in AdminStatus \cup {NULL}, NEW b \in Amounts \cup {NULL}
          PROVE  [x EXCEPT !.admin = a, !.adminAmount = b] \in LineRecord
      BY <1>1, Zenon DEF LineRecord
    <2>2. line.admin \in AdminStatus \cup {NULL} /\ line.adminAmount \in Amounts \cup {NULL}
      BY DEF TypeOK, LineRecord
    <2>3. y \in LineRecord
      BY <2>1, <2>2
    <2>4. y.ag = x.ag
      BY <1>1, SMT DEF LineRecord
    <2>5. LineLoaded(r) \in {x, y}
      BY DEF LineLoaded, AdminReviewLooked
    <2> HIDE DEF y
    <2> QED
      BY <1>1, <2>3, <2>4, <2>5
  <1>3. l \in LineRecord /\ l.ag = r.line.ag
    BY <1>2
  <1>4. LineWrite(r) =
          CASE r.kind = "decide"   -> GroupDecision(l, r.arg, NULL)
            [] r.kind = "respond"  -> Response(l)
            [] r.kind = "admin"    -> AdminDecision(l, r.arg, NULL)
            [] r.kind = "reset"    -> ResetLine(l)
            [] r.kind = "finalize" -> FinalizedLine(l)
            [] r.kind = "unfinalize" /\ r.arg = "reset lines" -> ResetLine(l)
            [] OTHER               -> l
    BY DEF LineWrite
  <1> HIDE DEF l
  <1>5. CASE r.kind = "decide"
    <2>1. r.arg \in GroupActions /\ NULL \in Amounts \cup {NULL}
      BY <1>1, <1>5, ChoicesAreArguments
    <2>2. GroupDecision(l, r.arg, NULL) \in LineRecord
      BY <2>1, <1>3, DecisionIsLine
    <2> QED
      BY <2>2, <1>2, <1>4, <1>5 DEF Locking
  <1>6. CASE r.kind = "respond"
    <2>1. Response(l) \in LineRecord /\ Response(l).ag \in {l.ag, "PENDING"}
      BY <1>3, ResponseIsLine
    <2> QED
      BY <2>1, <1>2, <1>3, <1>4, <1>6 DEF Locking
  <1>7. CASE r.kind = "admin"
    <2>1. r.arg \in AdminActions /\ NULL \in Amounts \cup {NULL}
      BY <1>1, <1>7, ChoicesAreArguments
    <2>2. AdminDecision(l, r.arg, NULL) \in LineRecord /\ AdminDecision(l, r.arg, NULL).ag = l.ag
      BY <2>1, <1>3, AdminDecisionIsLine
    <2> QED
      BY <2>2, <1>2, <1>3, <1>4, <1>7
  <1>8. CASE r.kind = "reset"
    <2>1. ResetLine(l) \in LineRecord /\ ResetLine(l).ag = l.ag
      BY <1>3, ResetIsLine
    <2> QED
      BY <2>1, <1>2, <1>3, <1>4, <1>8
  <1>9. CASE r.kind = "finalize"
    <2>1. FinalizedLine(l) \in LineRecord /\ FinalizedLine(l).ag = l.ag
      BY <1>3, FinalizedIsLine
    <2> QED
      BY <2>1, <1>2, <1>3, <1>4, <1>9 DEF Locking
  <1>10. CASE r.kind = "unfinalize"
    <2>1. ResetLine(l) \in LineRecord /\ ResetLine(l).ag = l.ag
      BY <1>3, ResetIsLine
    <2>2. LineWrite(r) \in {ResetLine(l), l}
      BY <1>4, <1>10
    <2> QED
      BY <2>1, <2>2, <1>2, <1>3, <1>10 DEF Locking
  <1>11. CASE r.kind \in {"checkout", "checkin"}
    BY <1>2, <1>3, <1>4, <1>11 DEF Locking
  <1> QED
    BY <1>1, <1>5, <1>6, <1>7, <1>8, <1>9, <1>10, <1>11 DEF Kinds

\* What a handler writes to the request's row.
LEMMA ItemWritten ==
    ASSUME TypeOK, NEW p \in Procs, NEW r \in Request, r.kind = "checkout" => p \in Users
    PROVE  /\ ItemWrite(p, r) \in ItemRow
           /\ ItemWrite(p, r).status # r.item.status =>
                 \/ r.kind = "finalize" /\ ItemWrite(p, r).status = "FINALIZED"
                 \/ r.kind = "unfinalize" /\ ItemWrite(p, r).status = "SUBMITTED"
           /\ r.kind \notin Locking => ItemWrite(p, r) = r.item
           /\ LiveAfter(r) \in BOOLEAN
           /\ r.kind \notin Locking => LiveAfter(r) = item.live
  <1>1. r.item \in ItemRow /\ r.kind \in Kinds /\ item.live \in BOOLEAN
    BY DEF Request, TypeOK, ItemRow
  <1>2. LiveAfter(r) \in BOOLEAN /\ (r.kind \notin Locking => LiveAfter(r) = item.live)
    BY <1>1 DEF LiveAfter, Locking
  <1>3. r.kind \notin Locking => ItemWrite(p, r) = r.item
    BY DEF ItemWrite, Locking
  <1>4. ItemWrite(p, r) \in ItemRow
    BY <1>1, SMT DEF ItemWrite, ItemRow
  <1>5. ItemWrite(p, r).status # r.item.status =>
                 \/ r.kind = "finalize" /\ ItemWrite(p, r).status = "FINALIZED"
                 \/ r.kind = "unfinalize" /\ ItemWrite(p, r).status = "SUBMITTED"
    BY <1>1, SMT DEF ItemWrite, ItemRow
  <1> QED
    BY <1>2, <1>3, <1>4, <1>5

\* What a handler has in hand when it holds the row.
LEMMA LoadedTyped ==
    ASSUME TypeOK, NEW r \in Request
    PROVE  LET w == LoadedUnderLock(r) IN
           /\ w \in Request
           /\ w.phase = "locked" /\ w.kind = r.kind /\ w.arg = r.arg
           /\ r.kind \in Refreshing => w.item = item
           /\ r.kind = "decide" => w.line.ag = line.ag
  <1> DEFINE x == r.line
             admins == [x EXCEPT !.admin = line.admin, !.adminAmount = line.adminAmount]
             groups == [x EXCEPT !.ag = line.ag, !.agAmount = line.agAmount]
             both   == [x EXCEPT !.ag = line.ag, !.agAmount = line.agAmount,
                                 !.admin = line.admin, !.adminAmount = line.adminAmount]
  <1>1. /\ r.kind \in Kinds /\ r.phase \in {"read", "locked"} /\ r.arg \in Arguments
        /\ r.item \in ItemRow /\ x \in LineRecord /\ line \in LineRecord /\ item \in ItemRow
    BY DEF Request, TypeOK
  <1>2. ASSUME NEW a \in AdminStatus \cup {NULL}, NEW b \in Amounts \cup {NULL},
               NEW c \in ReviewStatus \cup {NULL}, NEW d \in Amounts \cup {NULL}
        PROVE  /\ [x EXCEPT !.admin = a, !.adminAmount = b] \in LineRecord
               /\ [x EXCEPT !.ag = c, !.agAmount = d] \in LineRecord
               /\ [x EXCEPT !.ag = c, !.agAmount = d, !.admin = a, !.adminAmount = b]
                      \in LineRecord
    <2> HIDE DEF x
    <2>1. [x EXCEPT !.admin = a, !.adminAmount = b] \in LineRecord
      BY <1>1, Zenon DEF LineRecord
    <2>2. [x EXCEPT !.ag = c, !.agAmount = d] \in LineRecord
      BY <1>1, Zenon DEF LineRecord
    <2>3. [[x EXCEPT !.ag = c, !.agAmount = d] EXCEPT !.admin = a, !.adminAmount = b]
            \in LineRecord
      BY <2>2, Zenon DEF LineRecord
    <2> QED
      BY <2>1, <2>2, <2>3
  <1>3. /\ line.admin \in AdminStatus \cup {NULL} /\ line.adminAmount \in Amounts \cup {NULL}
        /\ line.ag \in ReviewStatus \cup {NULL} /\ line.agAmount \in Amounts \cup {NULL}
    BY <1>1 DEF LineRecord
  <1>4. /\ admins \in LineRecord /\ groups \in LineRecord /\ both \in LineRecord
        /\ x \in LineRecord /\ line \in LineRecord
    BY <1>1, <1>2, <1>3, Zenon
  <1>5. both.ag = line.ag
    BY <1>1, SMT DEF LineRecord
  <1> HIDE DEF admins, groups, both
  <1>6. PICK seen \in LineRecord, found \in ItemRow :
          /\ LoadedUnderLock(r) =
               [r EXCEPT !.phase = "locked", !.line = seen, !.item = found]
          /\ r.kind \in Refreshing => found = item
          /\ r.kind = "decide" => seen.ag = line.ag
    <2> DEFINE seen ==
          CASE r.kind \in {"finalize", "unfinalize"} -> line
            [] r.kind = "decide" -> both
            [] r.kind = "respond" /\ KickbackStage(r.line) = "ADMIN_FINAL" -> admins
            [] r.kind = "respond" /\ KickbackStage(r.line) = "APPROVAL_GROUP" -> groups
            [] OTHER -> r.line
               found == IF r.kind \in Refreshing THEN item ELSE r.item
    <2>1. seen \in LineRecord /\ found \in ItemRow
      BY <1>1, <1>4
    <2>2. LoadedUnderLock(r) =
            [r EXCEPT !.phase = "locked", !.line = seen, !.item = found]
      BY Zenon DEF LoadedUnderLock, admins, groups, both
    <2>3. r.kind = "decide" => seen.ag = line.ag
      BY <1>5
    <2>4. r.kind \in Refreshing => found = item
      OBVIOUS
    <2> HIDE DEF seen, found
    <2> QED
      BY <2>1, <2>2, <2>3, <2>4
  <1>7. /\ LoadedUnderLock(r).phase = "locked" /\ LoadedUnderLock(r).kind = r.kind
        /\ LoadedUnderLock(r).arg = r.arg
        /\ LoadedUnderLock(r).line = seen /\ LoadedUnderLock(r).item = found
    BY <1>6, SMT DEF Request
  <1>8. LoadedUnderLock(r) \in Request
    BY <1>6, Zenon DEF Request
  <1> QED
    BY <1>6, <1>7, <1>8

-----------------------------------------------------------------------------
(***************************************************************************)
(* The steps.                                                              *)
(***************************************************************************)

LEMMA InitInv == Init => IInv
  <1> SUFFICES ASSUME Init PROVE IInv
    OBVIOUS
  <1>1. line \in LineRecord
    <2>1. PICK q \in Amounts, g \in Groups : line = Routed(DraftLine(q, g), g)
      BY DEF Init
    <2> QED
      BY <2>1, FirstIsLine
  <1>2. item \in ItemRow
    BY DEF Init, ItemRow
  <1> QED
    BY <1>1, <1>2 DEF Init, IInv, TypeOK, ProcOK, RequestOK, HoldsRow, SeesItem, SeesReview,
                      FoundStatus, Locked

\* A request that begins holds nothing.
LEMMA ReadInv ==
    ASSUME IInv, NEW p \in Procs, NEW k \in Kinds, NEW a \in ArgumentsOf(k), Read(p, k, a)
    PROVE  IInv'
  <1> DEFINE x == [kind |-> k, phase |-> "read", arg |-> a, item |-> item, line |-> line]
  <1>1. /\ request' = [request EXCEPT ![p] = x] /\ MayStart(p, k)
        /\ UNCHANGED <<item, line, rowLock>>
    BY DEF Read
  <1>2. x \in Request
    BY ChoicesAreArguments DEF Request, IInv, TypeOK
  <1>3. x.kind = k /\ x.phase = "read" /\ x.arg = a
    OBVIOUS
  <1>4. k \in {"checkout", "decide"} => p \in Users
    BY <1>1 DEF MayStart
  <1> HIDE DEF x
  <1>5. TypeOK'
    BY <1>1, <1>2 DEF TypeOK, IInv
  <1>6. request'[p] = x /\ \A q \in Procs : q # p => request'[q] = request[q]
    BY <1>1 DEF IInv, TypeOK
  <1>7. ASSUME NEW q \in Procs PROVE ProcOK(q)'
    <2>1. CASE q = p
      BY <2>1, <1>1, <1>3, <1>4, <1>6 DEF ProcOK, RequestOK, HoldsRow, SeesItem, SeesReview,
                                          FoundStatus, Locked
    <2>2. CASE q # p
      BY <2>2, <1>1, <1>6 DEF IInv, ProcOK, RequestOK, HoldsRow, SeesItem, SeesReview,
                              FoundStatus, Locked
    <2> QED
      BY <2>1, <2>2
  <1> QED
    BY <1>5, <1>7 DEF IInv

\* Nobody held the row before, so whoever gets it starts out well informed.
LEMMA LockInv ==
    ASSUME IInv, NEW p \in Procs, Lock(p)
    PROVE  IInv'
  <1> DEFINE w == LoadedUnderLock(request[p])
  <1>1. /\ request[p] # NULL /\ request[p].kind \in Locking /\ rowLock = NULL
        /\ UNCHANGED <<item, line>>
    BY DEF Lock
  <1>2. \/ /\ AcceptedUnderLock(request[p], w)
           /\ request' = [request EXCEPT ![p] = w] /\ rowLock' = p
        \/ request' = [request EXCEPT ![p] = NULL] /\ rowLock' = NULL
    BY DEF Lock
  <1>3. request[p] \in Request
    BY <1>1 DEF IInv, TypeOK
  <1>4. /\ w \in Request
        /\ w.phase = "locked" /\ w.kind = request[p].kind /\ w.arg = request[p].arg
        /\ w.kind \in Refreshing => w.item = item
        /\ w.kind = "decide" => w.line.ag = line.ag
    BY <1>3, LoadedTyped DEF IInv
  <1>5. AcceptedUnderLock(request[p], w) =>
          /\ w.kind = "decide" => w.line.ag \in {NULL, "PENDING"}
          /\ w.kind = "finalize" => w.item.status = "SUBMITTED" /\ ~CheckedOut(w.item)
          /\ w.kind = "unfinalize" => w.item.status = "FINALIZED"
    BY DEF AcceptedUnderLock, ApproverMayAct
  <1> HIDE DEF w
  <1>6. TypeOK'
    BY <1>1, <1>2, <1>4 DEF IInv, TypeOK
  <1>7. \A q \in Procs : q # p => request'[q] = request[q] /\ ~Locked(q)
    BY <1>1, <1>2, SessionAssumption DEF IInv, TypeOK, ProcOK, HoldsRow
  <1>8. ASSUME NEW q \in Procs, q # p PROVE ProcOK(q)'
    BY <1>7, <1>8 DEF IInv, ProcOK, RequestOK, HoldsRow, SeesItem, SeesReview, FoundStatus, Locked
  <1>9. ProcOK(p)'
    <2>1. CASE request' = [request EXCEPT ![p] = NULL]
      <3>1. request'[p] = NULL
        BY <2>1 DEF IInv, TypeOK
      <3> QED
        BY <3>1 DEF ProcOK, RequestOK, HoldsRow, SeesItem, SeesReview, FoundStatus, Locked
    <2>2. CASE /\ AcceptedUnderLock(request[p], w)
               /\ request' = [request EXCEPT ![p] = w] /\ rowLock' = p
      <3>1. request'[p] = w
        BY <2>2 DEF IInv, TypeOK
      <3>2. RequestOK(p)'
        BY <3>1, <1>1, <1>4 DEF IInv, ProcOK, RequestOK
      <3>3. HoldsRow(p)'
        BY <3>1, <2>2, <1>1, <1>4 DEF HoldsRow
      <3>4. SeesItem(p)' /\ SeesReview(p)' /\ FoundStatus(p)'
        BY <3>1, <2>2, <1>1, <1>4, <1>5 DEF SeesItem, SeesReview, FoundStatus
      <3> QED
        BY <3>2, <3>3, <3>4 DEF ProcOK
    <2> QED
      BY <2>1, <2>2, <1>2
  <1> QED
    BY <1>6, <1>8, <1>9 DEF IInv

\* What a commit leaves of the rows, and what it cannot touch without the lock.
LEMMA CommitWrites ==
    ASSUME IInv, NEW p \in Procs, Commit(p)
    PROVE  /\ item' \in ItemRow /\ line' \in LineRecord
           /\ request[p] \in Request /\ request[p] # NULL
           /\ request' = [request EXCEPT ![p] = NULL]
           /\ rowLock' = IF request[p].kind \in Locking THEN NULL ELSE rowLock
           /\ request[p].kind \in Locking => Locked(p)
           /\ request[p].kind \notin Locking =>
                /\ item'.status = item.status /\ item'.holder = item.holder
                /\ item'.live = item.live /\ line'.ag = line.ag
           /\ request[p].kind # "decide" => line'.ag \in {line.ag, "PENDING"}
           /\ item'.status # item.status => request[p].kind \in {"finalize", "unfinalize"}
           /\ item'.status # item.status /\ item'.status = "FINALIZED" =>
                 request[p].kind = "finalize"
  <1> DEFINE r == request[p]
             u == ItemWrite(p, r)
             v == LiveAfter(r)
             l == LineLoaded(r)
             c == LineWrite(r)
  <1>1. /\ r \in Request /\ r # NULL /\ r.arg \in ArgumentsOf(r.kind)
        /\ r.kind = "checkout" => p \in Users
        /\ r.phase = IF r.kind \in Locking THEN "locked" ELSE "read"
    BY DEF Commit, IInv, TypeOK, ProcOK, RequestOK
  <1>2. /\ item' = [Flush(item, r.item, u) EXCEPT !.live = v]
        /\ line' = Flush(line, l, c)
        /\ request' = [request EXCEPT ![p] = NULL]
        /\ rowLock' = IF r.kind \in Locking THEN NULL ELSE rowLock
    BY DEF Commit
  <1>3. /\ u \in ItemRow /\ v \in BOOLEAN
        /\ u.status # r.item.status =>
             \/ r.kind = "finalize" /\ u.status = "FINALIZED"
             \/ r.kind = "unfinalize" /\ u.status = "SUBMITTED"
        /\ r.kind \notin Locking => u = r.item /\ v = item.live
    BY <1>1, ItemWritten DEF IInv
  <1>4. /\ l \in LineRecord /\ l.ag = r.line.ag /\ c \in LineRecord
        /\ r.kind # "decide" => c.ag \in {r.line.ag, "PENDING"}
        /\ r.kind \notin Locking => c.ag = r.line.ag
    BY <1>1, LineWritten DEF IInv
  <1>5. r.item \in ItemRow /\ item \in ItemRow /\ line \in LineRecord
    BY <1>1 DEF Request, IInv, TypeOK
  <1>6. r.kind \in Locking => Locked(p)
    BY <1>1 DEF Locked
  <1> HIDE DEF r, u, v, l, c
  <1>7. /\ item' \in ItemRow
        /\ item'.status = IF u.status = r.item.status THEN item.status ELSE u.status
        /\ item'.holder = IF u.holder = r.item.holder THEN item.holder ELSE u.holder
        /\ item'.live = v
    BY <1>2, <1>3, <1>5, FlushItem
  <1>8. line' \in LineRecord /\ line'.ag = IF c.ag = l.ag THEN line.ag ELSE c.ag
    BY <1>2, <1>4, <1>5, FlushLine
  <1>9. /\ r.kind \notin Locking =>
             /\ item'.status = item.status /\ item'.holder = item.holder
             /\ item'.live = item.live /\ line'.ag = line.ag
        /\ r.kind # "decide" => line'.ag \in {line.ag, "PENDING"}
    BY <1>3, <1>4, <1>7, <1>8
  <1>10. /\ item'.status # item.status => r.kind \in {"finalize", "unfinalize"}
         /\ item'.status # item.status /\ item'.status = "FINALIZED" => r.kind = "finalize"
    BY <1>3, <1>7
  <1> QED
    BY <1>1, <1>2, <1>6, <1>7, <1>8, <1>9, <1>10 DEF r

\* A commit under the lock finds nobody else believing anything; one without it
\* changes nothing that is believed.
LEMMA CommitInv ==
    ASSUME IInv, NEW p \in Procs, Commit(p)
    PROVE  IInv'
  <1>1. \A q \in Procs : request'[q] = IF q = p THEN NULL ELSE request[q]
    BY CommitWrites DEF IInv, TypeOK
  <1>2. TypeOK'
    BY CommitWrites DEF IInv, TypeOK
  <1>3. ASSUME NEW q \in Procs PROVE ProcOK(q)'
    <2>1. CASE q = p
      BY <2>1, <1>1 DEF ProcOK, RequestOK, HoldsRow, SeesItem, SeesReview, FoundStatus, Locked
    <2>2. CASE q # p /\ request[p].kind \in Locking
      <3>1. ~Locked(q)
        <4>1. Locked(p) /\ HoldsRow(p) /\ HoldsRow(q)
          BY <2>2, CommitWrites DEF IInv, ProcOK
        <4> QED
          BY <4>1, <2>2 DEF HoldsRow
      <3> QED
        BY <3>1, <2>2, <1>1 DEF IInv, ProcOK, RequestOK, HoldsRow, SeesItem, SeesReview,
                                FoundStatus, Locked
    <2>3. CASE q # p /\ request[p].kind \notin Locking
      <3>1. /\ item'.status = item.status /\ item'.holder = item.holder
            /\ item'.live = item.live /\ line'.ag = line.ag /\ rowLock' = rowLock
        BY <2>3, CommitWrites
      <3> QED
        BY <3>1, <2>3, <1>1 DEF IInv, ProcOK, RequestOK, HoldsRow, SeesItem, SeesReview,
                                FoundStatus, Locked
    <2> QED
      BY <2>1, <2>2, <2>3
  <1> QED
    BY <1>2, <1>3 DEF IInv

\* The locks page waits for the row, and time only ends checkouts.
LEMMA PassiveInv ==
    ASSUME IInv, ReleaseLock \/ Expire
    PROVE  IInv'
  <1>1. UNCHANGED <<line, rowLock, request>> /\ item' \in ItemRow
    <2>1. CASE ReleaseLock
      BY <2>1, Zenon DEF ReleaseLock, IInv, TypeOK, ItemRow
    <2>2. CASE Expire
      BY <2>2, Zenon DEF Expire, IInv, TypeOK, ItemRow
    <2> QED
      BY <2>1, <2>2
  <1>2. \/ rowLock = NULL
        \/ item'.status = item.status /\ item'.holder = item.holder /\ ~item'.live
    BY SMT DEF ReleaseLock, Expire, IInv, TypeOK, ItemRow
  <1>3. TypeOK'
    BY <1>1 DEF IInv, TypeOK
  <1>4. ASSUME NEW q \in Procs PROVE ProcOK(q)'
    <2>1. rowLock = NULL => ~Locked(q)
      BY SessionAssumption DEF IInv, ProcOK, HoldsRow
    <2> QED
      BY <2>1, <1>1, <1>2 DEF IInv, ProcOK, RequestOK, HoldsRow, SeesItem, SeesReview,
                              FoundStatus, Locked
  <1> QED
    BY <1>3, <1>4 DEF IInv

\* They leave the status alone.
LEMMA PassiveStatus ==
    ASSUME TypeOK, ReleaseLock \/ Expire
    PROVE  item'.status = item.status
  <1>1. item \in ItemRow
    BY DEF TypeOK
  <1>2. \/ item' = [item EXCEPT !.holder = NULL, !.live = FALSE]
        \/ item' = [item EXCEPT !.live = FALSE]
    BY Zenon DEF ReleaseLock, Expire
  <1>3. /\ [item EXCEPT !.holder = NULL, !.live = FALSE].status = item.status
        /\ [item EXCEPT !.live = FALSE].status = item.status
    BY <1>1, SMT DEF ItemRow
  <1> QED
    BY <1>2, <1>3, Zenon

LEMMA NextInv == IInv /\ [Next]_vars => IInv'
  <1> SUFFICES ASSUME IInv, [Next]_vars PROVE IInv'
    OBVIOUS
  <1>1. CASE \E p \in Procs, k \in Kinds : \E a \in ArgumentsOf(k) : Read(p, k, a)
    BY <1>1, ReadInv
  <1>2. CASE \E p \in Procs : Lock(p)
    BY <1>2, LockInv
  <1>3. CASE \E p \in Procs : Commit(p)
    BY <1>3, CommitInv
  <1>4. CASE ReleaseLock \/ Expire
    BY <1>4, PassiveInv
  <1>5. CASE UNCHANGED vars
    BY <1>5 DEF vars, IInv, TypeOK, ProcOK, RequestOK, HoldsRow, SeesItem, SeesReview,
                FoundStatus, Locked
  <1> QED
    BY <1>1, <1>2, <1>3, <1>4, <1>5 DEF Next

-----------------------------------------------------------------------------
(***************************************************************************)
(* The theorems.                                                           *)
(***************************************************************************)

\* The state keeps its types and each request under way sees what its lock
\* entitles it to see.
THEOREM SessionInvariant == Spec => []IInv
  BY InitInv, NextInv, PTL DEF Spec

\* A handler that refreshes under FOR UPDATE works on the status and the holder
\* the row has until it commits, whoever else reads, waits or commits meanwhile.
THEOREM LockedReadStaysCurrent == Spec => []LockedReadIsCurrent
  <1>1. IInv => LockedReadIsCurrent
    BY DEF IInv, ProcOK, SeesItem, Locked, LockedReadIsCurrent
  <1> QED
    BY <1>1, SessionInvariant, PTL

\* Of two approvers who post at once, the second is refused: no step replaces a
\* verdict of the approval group by another.
THEOREM VerdictsAreNeverOverwritten == Spec => VerdictNotOverwritten
  <1> DEFINE Keeps == line.ag \in GroupTerminal \cup Kickbacks =>
                         line'.ag \in {line.ag, "PENDING"}
  <1>1. IInv /\ [Next]_vars => Keeps
    <2> SUFFICES ASSUME IInv, [Next]_vars, line.ag \in GroupTerminal \cup Kickbacks
                 PROVE  line'.ag \in {line.ag, "PENDING"}
      OBVIOUS
    <2>1. CASE UNCHANGED line
      BY <2>1
    <2>2. CASE \E p \in Procs : Commit(p)
      <3>1. PICK p \in Procs : Commit(p)
        BY <2>2
      <3>2. request[p].kind # "decide"
        <4>1. line.ag \notin {NULL, "PENDING"}
          BY LineAssumption DEF GroupTerminal, Kickbacks, ReviewStatus
        <4>2. request[p].kind = "decide" => Locked(p) /\ SeesReview(p)
          BY <3>1, CommitWrites DEF Locking, IInv, ProcOK
        <4> QED
          BY <4>1, <4>2 DEF SeesReview
      <3> QED
        BY <3>1, <3>2, CommitWrites
    <2> QED
      BY <2>1, <2>2 DEF Next, Read, Lock, ReleaseLock, Expire, vars
  <1>2. IInv /\ [Next]_vars => [Keeps]_vars
    BY <1>1
  <1>3. [][Keeps]_vars <=> VerdictNotOverwritten
    BY DEF VerdictNotOverwritten
  <1> QED
    BY <1>2, <1>3, SessionInvariant, PTL DEF Spec

\* A request is finalized only while nobody has it checked out: a checkout that
\* began after the finalize request had loaded the item makes it fail.
THEOREM FinalizedOutsideSessions == Spec => FinalizeOutsideSessions
  <1> DEFINE Outside == item.status # "FINALIZED" /\ item'.status = "FINALIZED" =>
                           ~CheckedOut(item)
  <1>1. IInv /\ [Next]_vars => Outside
    <2> SUFFICES ASSUME IInv, [Next]_vars, item.status # "FINALIZED", item'.status = "FINALIZED"
                 PROVE  ~CheckedOut(item)
      OBVIOUS
    <2>1. CASE item'.status = item.status
      BY <2>1, Zenon
    <2>2. CASE \E p \in Procs : Commit(p)
      <3>1. PICK p \in Procs : Commit(p)
        BY <2>2
      <3>2. request[p].kind = "finalize" /\ Locked(p)
        BY <3>1, CommitWrites DEF Locking
      <3>3. SeesItem(p) /\ FoundStatus(p)
        BY DEF IInv, ProcOK
      <3> QED
        BY <3>2, <3>3 DEF SeesItem, FoundStatus, Refreshing, CheckedOut
    <2>3. CASE ReleaseLock \/ Expire
      <3>1. item'.status = item.status
        BY <2>3, PassiveStatus DEF IInv
      <3> QED
        BY <2>1, <3>1
    <2> QED
      BY <2>1, <2>2, <2>3 DEF Next, Read, Lock, vars
  <1>2. IInv /\ [Next]_vars => [Outside]_vars
    BY <1>1
  <1>3. [][Outside]_vars <=> FinalizeOutsideSessions
    BY DEF FinalizeOutsideSessions
  <1> QED
    BY <1>2, <1>3, SessionInvariant, PTL DEF Spec

-----------------------------------------------------------------------------
(***************************************************************************)
(* For any venue, any number of phone slots and any cards: what a save     *)
(* makes of a form.  A list is reasoned about as the set of its elements,  *)
(* with what each of them says; ExpandHas says it of expand_to_lines.      *)
(* That a number is never dropped carries the proof: a desk phone then     *)
(* rings nothing only when its number was never planned.                   *)
(***************************************************************************)

-----------------------------------------------------------------------------
(* What a concatenation holds.                                             *)

\* Induction over the naturals, for a set.
LEMMA AllNaturals ==
    ASSUME NEW B \in SUBSET Nat, 0 \in B, \A n \in B : n + 1 \in B
    PROVE  B = Nat
  <1> SUFFICES ASSUME Nat \ B # {} PROVE FALSE
    OBVIOUS
  <1>1. PICK n \in Nat \ B : \A m \in Nat \ B : ~(<<m, n>> \in OpToRel(<, Nat))
    BY NatLessThanWellFounded, WFMin
  <1>2. \A m \in Nat : m < n => m \in B
    BY <1>1 DEF OpToRel
  <1>3. n \in Nat /\ n \notin B /\ n # 0
    BY <1>1
  <1>4. PICK m \in Nat : n = m + 1
    BY <1>3
  <1>5. m \in B
    BY <1>2, <1>4
  <1> QED
    BY <1>3, <1>4, <1>5

LEMMA ConcatHas ==
    ASSUME NEW X, NEW s \in Seq(X), NEW t \in Seq(X)
    PROVE  s \o t \in Seq(X) /\ ToSet(s \o t) = ToSet(s) \cup ToSet(t)
  <1>1. /\ Len(s) \in Nat /\ Len(t) \in Nat /\ s \o t \in Seq(X)
        /\ DOMAIN s = 1..Len(s) /\ DOMAIN t = 1..Len(t)
        /\ DOMAIN (s \o t) = 1..(Len(s) + Len(t))
    OBVIOUS
  <1>2. \A i \in DOMAIN (s \o t) : (s \o t)[i] \in ToSet(s) \cup ToSet(t)
    BY <1>1 DEF ToSet
  <1>3. \A i \in DOMAIN s : i \in DOMAIN (s \o t) /\ (s \o t)[i] = s[i]
    BY <1>1
  <1>4. \A i \in DOMAIN t : Len(s) + i \in DOMAIN (s \o t) /\ (s \o t)[Len(s) + i] = t[i]
    BY <1>1
  <1>5. ToSet(s \o t) \subseteq ToSet(s) \cup ToSet(t)
    BY <1>2 DEF ToSet
  <1>6. ToSet(s) \subseteq ToSet(s \o t) /\ ToSet(t) \subseteq ToSet(s \o t)
    BY <1>3, <1>4 DEF ToSet
  <1> QED
    BY <1>1, <1>5, <1>6

\* f flattens the first k sequences of ss, one more at a time.
Flattens(f, ss, k) ==
    f = [i \in 1..k |-> IF i = 1 THEN ss[i] ELSE f[i - 1] \o ss[i]]

LEMMA FlattenDefined ==
    ASSUME NEW ss, NEW n \in Nat
    PROVE  \E f : Flattens(f, ss, n)
  <1> DEFINE B == {k \in Nat : \E f : Flattens(f, ss, k)}
  <1>1. 0 \in B
    <2> DEFINE f == [i \in 1..0 |-> {}]
    <2>1. Flattens(f, ss, 0)
      BY DEF Flattens
    <2> QED
      BY <2>1
  <1>2. ASSUME NEW k \in B PROVE k + 1 \in B
    <2>1. k \in Nat /\ k + 1 \in Nat
      OBVIOUS
    <2>2. PICK f : Flattens(f, ss, k)
      OBVIOUS
    <2> DEFINE V(i) == IF i = 1 THEN ss[i] ELSE f[i - 1] \o ss[i]
               g == [i \in 1..k + 1 |-> V(i)]
    <2>3. \A i \in 1..k : f[i] = V(i)
      BY <2>2 DEF Flattens
    <2>4. \A i \in 1..k + 1 : i # 1 => i - 1 \in 1..k
      BY <2>1
    <2>5. \A i \in 1..k : g[i] = f[i]
      BY <2>1, <2>3
    <2>6. \A i \in 1..k + 1 : V(i) = IF i = 1 THEN ss[i] ELSE g[i - 1] \o ss[i]
      <3> HIDE DEF g
      <3> QED
        BY <2>4, <2>5
    <2>7. g = [i \in 1..k + 1 |-> IF i = 1 THEN ss[i] ELSE g[i - 1] \o ss[i]]
      <3> DEFINE W(i) == IF i = 1 THEN ss[i] ELSE g[i - 1] \o ss[i]
      <3>1. \A i \in 1..k + 1 : V(i) = W(i)
        BY <2>6
      <3>2. g = [i \in 1..k + 1 |-> V(i)]
        OBVIOUS
      <3> HIDE DEF V, W, g
      <3>3. g = [i \in 1..k + 1 |-> W(i)]
        BY <3>1, <3>2
      <3> QED
        BY <3>3 DEF W
    <2> HIDE DEF g
    <2>8. Flattens(g, ss, k + 1)
      BY <2>7 DEF Flattens
    <2> QED
      BY <2>1, <2>8
  <1>3. B \in SUBSET Nat
    OBVIOUS
  <1> HIDE DEF B
  <1>4. B = Nat
    BY <1>1, <1>2, <1>3, AllNaturals
  <1> QED
    BY <1>4 DEF B

LEMMA FlattenHas ==
    ASSUME NEW X, NEW n \in Nat, NEW ss \in [1..n -> Seq(X)]
    PROVE  /\ FlattenSeq(ss) \in Seq(X)
           /\ ToSet(FlattenSeq(ss)) = UNION {ToSet(ss[i]) : i \in 1..n}
  <1>1. ss \in Seq(Seq(X)) /\ Len(ss) = n
    OBVIOUS
  <1>2. CASE n = 0
    <2>1. FlattenSeq(ss) = ss /\ ss = <<>>
      BY <1>1, <1>2 DEF FlattenSeq
    <2>2. 1..n = {}
      BY <1>2
    <2>3. ToSet(ss) = {}
      BY <2>1 DEF ToSet
    <2>4. UNION {ToSet(ss[i]) : i \in 1..n} = {}
      BY <2>2
    <2> QED
      BY <2>1, <2>3, <2>4
  <1>3. CASE n # 0
    <2> DEFINE F == CHOOSE f : Flattens(f, ss, n)
               U(i) == UNION {ToSet(ss[j]) : j \in 1..i}
    <2>1. Flattens(F, ss, n)
      BY FlattenDefined
    <2>2. FlattenSeq(ss) = F[n]
      BY <1>1, <1>3 DEF FlattenSeq, Flattens
    <2> HIDE DEF F
    <2>3. F[1] = ss[1]
      BY <2>1, <1>3 DEF Flattens
    <2>4. \A i \in 1..n : i # 1 => F[i] = F[i - 1] \o ss[i]
      BY <2>1 DEF Flattens
    <2> DEFINE B == {k \in Nat : k + 1 \in 1..n => /\ F[k + 1] \in Seq(X)
                                                   /\ ToSet(F[k + 1]) = U(k + 1)}
    <2>5. 0 \in B
      <3>1. U(1) = ToSet(ss[1])
        <4>1. 1..1 = {1}
          OBVIOUS
        <4> QED
          BY <4>1
      <3>2. ss[1] \in Seq(X)
        BY <1>3
      <3> QED
        BY <2>3, <3>1, <3>2
    <2>6. ASSUME NEW k \in B PROVE k + 1 \in B
      <3>1. k \in Nat /\ k + 1 \in Nat
        OBVIOUS
      <3>2. SUFFICES ASSUME (k + 1) + 1 \in 1..n
                     PROVE  /\ F[(k + 1) + 1] \in Seq(X)
                            /\ ToSet(F[(k + 1) + 1]) = U((k + 1) + 1)
        BY <3>1
      <3> DEFINE a == k + 1
                 b == a + 1
      <3>3. a \in 1..n /\ b \in 1..n /\ b # 1 /\ b - 1 = a
        BY <3>1, <3>2
      <3>4. F[a] \in Seq(X) /\ ToSet(F[a]) = U(a)
        BY <3>3
      <3>5. F[b] = F[a] \o ss[b]
        BY <3>3, <2>4
      <3>6. 1..b = (1..a) \cup {b}
        BY <3>1
      <3>7. U(b) = U(a) \cup ToSet(ss[b])
        BY <3>6
      <3>8. ss[b] \in Seq(X)
        BY <3>3
      <3> HIDE DEF a, b, U
      <3>9. F[b] \in Seq(X) /\ ToSet(F[b]) = ToSet(F[a]) \cup ToSet(ss[b])
        BY <3>4, <3>5, <3>8, ConcatHas
      <3>10. F[b] \in Seq(X) /\ ToSet(F[b]) = U(b)
        BY <3>4, <3>7, <3>9
      <3> QED
        BY <3>10 DEF a, b
    <2>7. B \in SUBSET Nat
      OBVIOUS
    <2> HIDE DEF B
    <2>8. B = Nat
      BY <2>5, <2>6, <2>7, AllNaturals
    <2>9. n - 1 \in Nat /\ (n - 1) + 1 = n /\ n \in 1..n
      BY <1>3
    <2>10. F[n] \in Seq(X) /\ ToSet(F[n]) = U(n)
      BY <2>8, <2>9 DEF B
    <2> QED
      BY <2>2, <2>10
  <1> QED
    BY <1>2, <1>3

-----------------------------------------------------------------------------
(* The lines a form makes.                                                 *)

PlannedLines ==
    [service : Services, space : Spaces \cup {None}, key : Sources,
     purpose : Purposes \cup {None}, delivery : Deliveries \cup {"ETHERNET", "USB"},
     kinds : SUBSET {"PRINTERS", "OTHER"}, complete : BOOLEAN, question : BOOLEAN]

\* RequestAnswers, parsed or posted.
Answers ==
    [cards : UNION {[S -> SpaceAnswers] : S \in SUBSET Spaces}, wide : BOOLEAN,
     payments : PaymentsAnswers \cup {None}, noServices : BOOLEAN]

LEMMA WhenHas ==
    ASSUME NEW X, NEW l \in X, NEW condition \in BOOLEAN
    PROVE  /\ When(condition, l) \in Seq(X)
           /\ ToSet(When(condition, l)) = IF condition THEN {l} ELSE {}
  <1>1. CASE condition
    <2>1. When(condition, l) = <<l>>
      BY <1>1 DEF When
    <2>2. <<l>> \in Seq(X) /\ DOMAIN <<l>> = {1} /\ <<l>>[1] = l
      OBVIOUS
    <2>3. ToSet(<<l>>) = {l}
      BY <2>2 DEF ToSet
    <2> QED
      BY <1>1, <2>1, <2>2, <2>3
  <1>2. CASE ~condition
    <2>1. When(condition, l) = <<>>
      BY <1>2 DEF When
    <2>2. <<>> \in Seq(X) /\ ToSet(<<>>) = {}
      BY DEF ToSet
    <2> QED
      BY <1>2, <2>1, <2>2
  <1> QED
    BY <1>1, <1>2

LEMMA RepeatHas ==
    ASSUME NEW X, NEW l \in X, NEW n \in Nat
    PROVE  Repeat(l, n) \in Seq(X) /\ ToSet(Repeat(l, n)) \subseteq {l}
  <1>1. Repeat(l, n) \in [1..n -> X] /\ \A i \in 1..n : Repeat(l, n)[i] = l
    BY DEF Repeat
  <1> QED
    BY <1>1 DEF ToSet

LEMMA PlainLine ==
    ASSUME NEW service \in Services, NEW s \in Spaces \cup {None}
    PROVE  /\ PlannedLine(service, s) \in PlannedLines
           /\ PlannedLine(service, s).service = service
           /\ PlannedLine(service, s).space = s
           /\ PlannedLine(service, s).key = SOURCE_BLANK
           /\ PlannedLine(service, s).complete = TRUE
  <1>1. SOURCE_BLANK \in Sources /\ "" \in Deliveries
    BY DEF Sources, Deliveries
  <1> QED
    BY <1>1 DEF PlannedLine, PlannedLines

\* The number a slot owns, and the one its desk phones ring.
NumberOf(s, i, p) ==
    [PlannedLine("PHONE_NUMBER", s) EXCEPT
        !.key = SharingKey(s, i), !.purpose = DerivePurpose(p),
        !.delivery = p.delivery, !.question = PhoneOpenQuestion(p)]

RingKey(s, i, p) == IF OwnsANumber(p) THEN SharingKey(s, i) ELSE p.source

LEMMA NumberTyped ==
    ASSUME NEW s \in Spaces, NEW i \in Slots, NEW p \in PhoneLines
    PROVE  /\ NumberOf(s, i, p) \in PlannedLines
           /\ NumberOf(s, i, p).service = "PHONE_NUMBER"
           /\ NumberOf(s, i, p).space = s
           /\ NumberOf(s, i, p).key = SharingKey(s, i)
           /\ NumberOf(s, i, p).purpose = DerivePurpose(p)
           /\ NumberOf(s, i, p).delivery = p.delivery
           /\ NumberOf(s, i, p).question = PhoneOpenQuestion(p)
  <1>1. "PHONE_NUMBER" \in Services /\ i \in Nat
    BY DEF Services, Slots
  <1>2. PlannedLine("PHONE_NUMBER", s) \in PlannedLines
    BY <1>1, PlainLine
  <1>3. SharingKey(s, i) \in Sources
    BY <1>1 DEF SharingKey, Sources
  <1>4. DerivePurpose(p) \in Purposes \cup {None}
    BY DEF DerivePurpose, Purposes
  <1>5. p.delivery \in Deliveries /\ p.texts \in BOOLEAN
    BY DEF PhoneLines
  <1>6. PhoneOpenQuestion(p) \in BOOLEAN
    BY DEF PhoneOpenQuestion
  <1> HIDE DEF Sources, Deliveries, Services
  <1> QED
    BY <1>1, <1>2, <1>3, <1>4, <1>5, <1>6, PlainLine DEF NumberOf, PlannedLines

LEMMA PhoneHas ==
    ASSUME NEW s \in Spaces, NEW i \in Slots, NEW p \in PhoneLines
    PROVE  /\ ExpandPhone(s, i, p) \in Seq(PlannedLines)
           /\ OwnsANumber(p) => NumberOf(s, i, p) \in ToSet(ExpandPhone(s, i, p))
           /\ \A l \in ToSet(ExpandPhone(s, i, p)) :
                \/ OwnsANumber(p) /\ l = NumberOf(s, i, p)
                \/ /\ l.service = "DESK_PHONE" /\ l.space = s
                   /\ l.key = RingKey(s, i, p)
  <1> DEFINE owns    == OwnsANumber(p)
             wants   == owns => p.delivery = "DESK_PHONE"
             number  == NumberOf(s, i, p)
             handset == [PlannedLine("DESK_PHONE", s) EXCEPT !.key = RingKey(s, i, p)]
             lost    == [handset EXCEPT !.question = TRUE]
             one     == IF owns THEN <<number>> ELSE <<>>
             placed  == IF wants THEN Repeat(handset, p.handsets) ELSE <<>>
             asked   == IF wants /\ p.handsets = 0 THEN <<lost>> ELSE <<>>
  <1>1. ExpandPhone(s, i, p) = one \o placed \o asked
    BY DEF ExpandPhone, NumberOf, RingKey
  <1>2. RingKey(s, i, p) \in Sources /\ p.handsets \in Nat
    BY DEF RingKey, SharingKey, Sources, PhoneLines, Slots
  <1>3. PlannedLine("DESK_PHONE", s) \in PlannedLines
    BY PlainLine DEF Services
  <1>4. /\ handset \in PlannedLines /\ handset.service = "DESK_PHONE"
        /\ handset.space = s /\ handset.key = RingKey(s, i, p)
    <2> DEFINE l == PlannedLine("DESK_PHONE", s)
    <2>1. l \in PlannedLines /\ l.service = "DESK_PHONE" /\ l.space = s
      BY <1>3, PlainLine DEF Services
    <2> HIDE DEF l
    <2>2. [l EXCEPT !.key = RingKey(s, i, p)] \in PlannedLines
      BY <1>2, <2>1 DEF PlannedLines
    <2>3. /\ [l EXCEPT !.key = RingKey(s, i, p)].service = l.service
          /\ [l EXCEPT !.key = RingKey(s, i, p)].space = l.space
          /\ [l EXCEPT !.key = RingKey(s, i, p)].key = RingKey(s, i, p)
      BY <2>1 DEF PlannedLines
    <2> QED
      BY <2>1, <2>2, <2>3 DEF l
  <1> HIDE DEF handset
  <1>5. /\ lost \in PlannedLines /\ lost.service = "DESK_PHONE"
        /\ lost.space = s /\ lost.key = RingKey(s, i, p)
    BY <1>4 DEF PlannedLines
  <1>6. number \in PlannedLines
    BY NumberTyped
  <1> HIDE DEF number, lost, owns, wants
  <1>7. one \in Seq(PlannedLines) /\ ToSet(one) = IF owns THEN {number} ELSE {}
    <2>1. one = When(owns, number) /\ owns \in BOOLEAN
      BY DEF When, owns, OwnsANumber
    <2> HIDE DEF one
    <2> QED
      BY <2>1, <1>6, WhenHas
  <1>8. placed \in Seq(PlannedLines) /\ ToSet(placed) \subseteq {handset}
    <2>1. CASE wants
      BY <2>1, <1>2, <1>4, RepeatHas
    <2>2. CASE ~wants
      BY <2>2 DEF ToSet
    <2> QED
      BY <2>1, <2>2
  <1>9. asked \in Seq(PlannedLines) /\ ToSet(asked) \subseteq {lost}
    <2>1. asked = When(wants /\ p.handsets = 0, lost)
      BY DEF When
    <2>2. (wants /\ p.handsets = 0) \in BOOLEAN
      BY DEF wants
    <2> QED
      BY <2>1, <2>2, <1>5, WhenHas
  <1> HIDE DEF one, placed, asked
  <1>10. one \o placed \in Seq(PlannedLines) /\ ToSet(one \o placed) = ToSet(one) \cup ToSet(placed)
    BY <1>7, <1>8, ConcatHas
  <1>11. /\ one \o placed \o asked \in Seq(PlannedLines)
         /\ ToSet(one \o placed \o asked) = ToSet(one \o placed) \cup ToSet(asked)
    <2> DEFINE both == one \o placed
    <2>1. both \in Seq(PlannedLines) /\ asked \in Seq(PlannedLines)
      BY <1>10, <1>9
    <2> HIDE DEF both
    <2>2. both \o asked \in Seq(PlannedLines) /\ ToSet(both \o asked) = ToSet(both) \cup ToSet(asked)
      BY <2>1, ConcatHas
    <2> QED
      BY <2>2 DEF both
  <1>12. ToSet(ExpandPhone(s, i, p)) \subseteq ToSet(one) \cup {handset, lost}
    BY <1>1, <1>8, <1>9, <1>10, <1>11
  <1>13. owns => number \in ToSet(ExpandPhone(s, i, p))
    BY <1>1, <1>7, <1>10, <1>11
  <1>14. ASSUME NEW l \in ToSet(ExpandPhone(s, i, p))
         PROVE  \/ owns /\ l = number
                \/ l.service = "DESK_PHONE" /\ l.space = s /\ l.key = RingKey(s, i, p)
    BY <1>12, <1>7, <1>4, <1>5
  <1> QED
    BY <1>1, <1>11, <1>13, <1>14 DEF owns, number

LEMMA FourHave ==
    ASSUME NEW X, NEW s \in Seq(X), NEW t \in Seq(X), NEW u \in Seq(X), NEW v \in Seq(X)
    PROVE  /\ s \o t \o u \o v \in Seq(X)
           /\ ToSet(s \o t \o u \o v) = ToSet(s) \cup ToSet(t) \cup ToSet(u) \cup ToSet(v)
  <1> DEFINE st == s \o t
             stu == st \o u
  <1>1. st \in Seq(X) /\ ToSet(st) = ToSet(s) \cup ToSet(t)
    BY ConcatHas
  <1> HIDE DEF st
  <1>2. stu \in Seq(X) /\ ToSet(stu) = ToSet(st) \cup ToSet(u)
    BY <1>1, ConcatHas
  <1> HIDE DEF stu
  <1>3. stu \o v \in Seq(X) /\ ToSet(stu \o v) = ToSet(stu) \cup ToSet(v)
    BY <1>2, ConcatHas
  <1> QED
    BY <1>1, <1>2, <1>3 DEF st, stu

LEMMA PrinterHas ==
    ASSUME NEW s \in Spaces, NEW c \in SpaceAnswers, NEW k \in {"ETHERNET", "USB"}
    PROVE  /\ ExpandPrinter(s, c, k) \in Seq(PlannedLines)
           /\ \A l \in ToSet(ExpandPrinter(s, c, k)) :
                /\ l.service = "PRINTER" /\ l.space = s
                /\ l.delivery = k /\ k \in c.printers
  <1> DEFINE plain == PlannedLine("PRINTER", s)
             l     == [plain EXCEPT !.delivery = k]
  <1>1. plain \in PlannedLines /\ plain.service = "PRINTER" /\ plain.space = s
    BY PlainLine DEF Services
  <1> HIDE DEF plain
  <1>2. l \in PlannedLines /\ l.service = "PRINTER" /\ l.space = s /\ l.delivery = k
    BY <1>1 DEF PlannedLines
  <1>3. (k \in c.printers) \in BOOLEAN
    OBVIOUS
  <1>4. ExpandPrinter(s, c, k) = When(k \in c.printers, l)
    BY DEF ExpandPrinter, plain
  <1> HIDE DEF l
  <1>5. /\ When(k \in c.printers, l) \in Seq(PlannedLines)
        /\ ToSet(When(k \in c.printers, l)) = IF k \in c.printers THEN {l} ELSE {}
    BY <1>2, <1>3, WhenHas
  <1> QED
    BY <1>2, <1>4, <1>5

\* The phone lines of a card.
PhoneSeqs(s, c) ==
    [i \in Slots |-> IF c.phones[i] = None THEN <<>> ELSE ExpandPhone(s, i, c.phones[i])]

LEMMA PhonesHave ==
    ASSUME NEW s \in Spaces, NEW c \in SpaceAnswers
    PROVE  /\ FlattenSeq(PhoneSeqs(s, c)) \in Seq(PlannedLines)
           /\ \A i \in Slots : c.phones[i] # None /\ OwnsANumber(c.phones[i]) =>
                NumberOf(s, i, c.phones[i]) \in ToSet(FlattenSeq(PhoneSeqs(s, c)))
           /\ \A l \in ToSet(FlattenSeq(PhoneSeqs(s, c))) : \E i \in Slots :
                /\ c.phones[i] # None
                /\ \/ OwnsANumber(c.phones[i]) /\ l = NumberOf(s, i, c.phones[i])
                   \/ /\ l.service = "DESK_PHONE" /\ l.space = s
                      /\ l.key = RingKey(s, i, c.phones[i])
  <1> DEFINE ss == PhoneSeqs(s, c)
  <1>1. \A i \in Slots : c.phones[i] = None \/ c.phones[i] \in PhoneLines
    BY DEF SpaceAnswers
  <1>2. \A i \in Slots :
            ss[i] = IF c.phones[i] = None THEN <<>> ELSE ExpandPhone(s, i, c.phones[i])
    BY DEF PhoneSeqs
  <1>3. ASSUME NEW i \in Slots PROVE ss[i] \in Seq(PlannedLines)
    <2>0. <<>> \in Seq(PlannedLines)
      OBVIOUS
    <2>1. CASE c.phones[i] = None
      <3> HIDE DEF ss
      <3>1. ss[i] = <<>>
        BY <2>1, <1>2
      <3> QED
        BY <2>0, <3>1
    <2>2. CASE c.phones[i] \in PhoneLines
      <3>1. c.phones[i] # None
        BY <2>2, FormAssumption
      <3>2. ExpandPhone(s, i, c.phones[i]) \in Seq(PlannedLines)
        BY <2>2, PhoneHas
      <3> QED
        BY <3>1, <3>2, <1>2
    <2> QED
      BY <1>1, <2>1, <2>2
  <1>4. ss \in [1..MaxPhones -> Seq(PlannedLines)] /\ MaxPhones \in Nat
    BY <1>3, FormAssumption DEF PhoneSeqs, Slots
  <1> HIDE DEF ss
  <1>5. /\ FlattenSeq(ss) \in Seq(PlannedLines)
        /\ ToSet(FlattenSeq(ss)) = UNION {ToSet(ss[i]) : i \in 1..MaxPhones}
    BY <1>4, FlattenHas
  <1>6. ASSUME NEW i \in Slots, c.phones[i] # None, OwnsANumber(c.phones[i])
        PROVE  NumberOf(s, i, c.phones[i]) \in ToSet(FlattenSeq(ss))
    <2>1. NumberOf(s, i, c.phones[i]) \in ToSet(ss[i])
      BY <1>1, <1>2, <1>6, PhoneHas
    <2> QED
      BY <2>1, <1>5 DEF Slots
  <1>7. ASSUME NEW l \in ToSet(FlattenSeq(ss))
        PROVE  \E i \in Slots :
                /\ c.phones[i] # None
                /\ \/ OwnsANumber(c.phones[i]) /\ l = NumberOf(s, i, c.phones[i])
                   \/ /\ l.service = "DESK_PHONE" /\ l.space = s
                      /\ l.key = RingKey(s, i, c.phones[i])
    <2>1. PICK i \in Slots : l \in ToSet(ss[i])
      BY <1>5 DEF Slots
    <2>2. c.phones[i] # None
      <3>1. ToSet(<<>>) = {}
        BY DEF ToSet
      <3> QED
        BY <3>1, <2>1, <1>2
    <2>3. c.phones[i] \in PhoneLines /\ ss[i] = ExpandPhone(s, i, c.phones[i])
      BY <1>1, <1>2, <2>2
    <2> QED
      BY <2>1, <2>2, <2>3, PhoneHas
  <1> QED
    BY <1>5, <1>6, <1>7 DEF ss

\* A card that needs services.
LEMMA NeedsHave ==
    ASSUME NEW s \in Spaces, NEW c \in SpaceAnswers, c.answer = "NEEDS"
    PROVE  /\ ExpandSpace(s, c) \in Seq(PlannedLines)
           /\ c.wifi = "YES" =>
                \E l \in ToSet(ExpandSpace(s, c)) : l.service = "WIFI" /\ l.space = s
           /\ c.network \in {"YES", "UNSURE"} =>
                \E l \in ToSet(ExpandSpace(s, c)) : l.service = "ETHERNET" /\ l.space = s
           /\ \A i \in Slots : c.phones[i] # None /\ OwnsANumber(c.phones[i]) =>
                NumberOf(s, i, c.phones[i]) \in ToSet(ExpandSpace(s, c))
           /\ \A l \in ToSet(ExpandSpace(s, c)) :
                \/ l.service \in {"WIFI", "ETHERNET"} /\ l.space = s
                \/ /\ l.service = "PRINTER" /\ l.space = s
                   /\ l.delivery \in {"ETHERNET", "USB"} /\ l.delivery \in c.printers
                \/ \E i \in Slots :
                      /\ c.phones[i] # None
                      /\ \/ OwnsANumber(c.phones[i]) /\ l = NumberOf(s, i, c.phones[i])
                         \/ /\ l.service = "DESK_PHONE" /\ l.space = s
                            /\ l.key = RingKey(s, i, c.phones[i])
  <1> DEFINE wifi   == PlannedLine("WIFI", s)
             plain  == PlannedLine("ETHERNET", s)
             cable  == [plain EXCEPT !.kinds = EffectiveNetworkKinds(c),
                                     !.question = NetworkOpenQuestion(c)]
             w      == When(c.wifi = "YES", wifi)
             e      == When(c.network \in {"YES", "UNSURE"}, cable)
             phones == FlattenSeq(PhoneSeqs(s, c))
             p      == ExpandPrinter(s, c, "ETHERNET")
             u      == ExpandPrinter(s, c, "USB")
             wep    == w \o e \o phones \o p
  <1>1. ExpandSpace(s, c) = wep \o u
    BY DEF ExpandSpace, PhoneSeqs
  <1> HIDE DEF w, e, phones, p, u, wep
  <1>0. {"WIFI", "ETHERNET"} \subseteq Services /\ s \in Spaces \cup {None}
    BY DEF Services
  <1>2. wifi \in PlannedLines /\ wifi.service = "WIFI" /\ wifi.space = s
    BY <1>0, PlainLine
  <1>3. plain \in PlannedLines /\ plain.service = "ETHERNET" /\ plain.space = s
    BY <1>0, PlainLine
  <1> HIDE DEF wifi, plain
  <1>4. cable \in PlannedLines /\ cable.service = "ETHERNET" /\ cable.space = s
    <2>1. EffectiveNetworkKinds(c) \in SUBSET {"PRINTERS", "OTHER"}
      BY DEF EffectiveNetworkKinds, SpaceAnswers
    <2>2. NetworkOpenQuestion(c) \in BOOLEAN
      BY DEF NetworkOpenQuestion
    <2> QED
      BY <2>1, <2>2, <1>3 DEF PlannedLines
  <1> HIDE DEF cable
  <1>5. w \in Seq(PlannedLines) /\ ToSet(w) = IF c.wifi = "YES" THEN {wifi} ELSE {}
    <2>1. (c.wifi = "YES") \in BOOLEAN
      OBVIOUS
    <2> QED
      BY <1>2, <2>1, WhenHas DEF w
  <1>6. /\ e \in Seq(PlannedLines)
        /\ ToSet(e) = IF c.network \in {"YES", "UNSURE"} THEN {cable} ELSE {}
    <2>1. (c.network \in {"YES", "UNSURE"}) \in BOOLEAN
      OBVIOUS
    <2> QED
      BY <1>4, <2>1, WhenHas DEF e
  <1>7. phones \in Seq(PlannedLines)
    BY PhonesHave DEF phones
  <1>8. p \in Seq(PlannedLines) /\ u \in Seq(PlannedLines)
    BY PrinterHas DEF p, u
  <1>9. \A l \in ToSet(p) \cup ToSet(u) :
            /\ l.service = "PRINTER" /\ l.space = s
            /\ l.delivery \in {"ETHERNET", "USB"} /\ l.delivery \in c.printers
    BY PrinterHas DEF p, u
  <1>10. /\ wep \in Seq(PlannedLines)
         /\ ToSet(wep) = ToSet(w) \cup ToSet(e) \cup ToSet(phones) \cup ToSet(p)
    BY <1>5, <1>6, <1>7, <1>8, FourHave DEF wep
  <1>11. /\ ExpandSpace(s, c) \in Seq(PlannedLines)
         /\ ToSet(ExpandSpace(s, c)) = ToSet(wep) \cup ToSet(u)
    BY <1>1, <1>8, <1>10, ConcatHas
  <1>12. \A i \in Slots : c.phones[i] # None /\ OwnsANumber(c.phones[i]) =>
                NumberOf(s, i, c.phones[i]) \in ToSet(phones)
    BY PhonesHave DEF phones
  <1>13. \A l \in ToSet(phones) : \E i \in Slots :
                /\ c.phones[i] # None
                /\ \/ OwnsANumber(c.phones[i]) /\ l = NumberOf(s, i, c.phones[i])
                   \/ /\ l.service = "DESK_PHONE" /\ l.space = s
                      /\ l.key = RingKey(s, i, c.phones[i])
    BY PhonesHave DEF phones
  <1>14. c.wifi = "YES" => wifi \in ToSet(ExpandSpace(s, c))
    BY <1>5, <1>10, <1>11
  <1>15. c.network \in {"YES", "UNSURE"} => cable \in ToSet(ExpandSpace(s, c))
    BY <1>6, <1>10, <1>11
  <1>16. ASSUME NEW l \in ToSet(ExpandSpace(s, c))
         PROVE  \/ l.service \in {"WIFI", "ETHERNET"} /\ l.space = s
                \/ /\ l.service = "PRINTER" /\ l.space = s
                   /\ l.delivery \in {"ETHERNET", "USB"} /\ l.delivery \in c.printers
                \/ \E i \in Slots :
                      /\ c.phones[i] # None
                      /\ \/ OwnsANumber(c.phones[i]) /\ l = NumberOf(s, i, c.phones[i])
                         \/ /\ l.service = "DESK_PHONE" /\ l.space = s
                            /\ l.key = RingKey(s, i, c.phones[i])
    <2>1. l \in ToSet(w) \/ l \in ToSet(e) \/ l \in ToSet(phones) \/ l \in ToSet(p) \cup ToSet(u)
      BY <1>10, <1>11
    <2>2. CASE l \in ToSet(w) \/ l \in ToSet(e)
      BY <2>2, <1>5, <1>6, <1>2, <1>4
    <2>3. CASE l \in ToSet(phones)
      BY <2>3, <1>13
    <2>4. CASE l \in ToSet(p) \cup ToSet(u)
      BY <2>4, <1>9
    <2> QED
      BY <2>1, <2>2, <2>3, <2>4
  <1>17. \A i \in Slots : c.phones[i] # None /\ OwnsANumber(c.phones[i]) =>
                NumberOf(s, i, c.phones[i]) \in ToSet(ExpandSpace(s, c))
    BY <1>10, <1>11, <1>12
  <1> QED
    BY <1>2, <1>4, <1>11, <1>14, <1>15, <1>16, <1>17

\* A line that card c of space s may lead to.
FromCard(l, s, c) ==
    /\ l.space = s
    /\ \/ c.answer = "NOTHING" /\ l.service = "NO_SERVICES"
       \/ c.answer = "NEEDS" /\ l.service \in {"WIFI", "ETHERNET"}
       \/ /\ c.answer = "NEEDS" /\ l.service = "PRINTER"
          /\ l.delivery \in {"ETHERNET", "USB"} /\ l.delivery \in c.printers
       \/ /\ c.answer = "NEEDS"
          /\ \E i \in Slots :
                /\ c.phones[i] # None
                /\ \/ OwnsANumber(c.phones[i]) /\ l = NumberOf(s, i, c.phones[i])
                   \/ l.service = "DESK_PHONE" /\ l.key = RingKey(s, i, c.phones[i])

LEMMA SpaceHas ==
    ASSUME NEW s \in Spaces, NEW c \in SpaceAnswers
    PROVE  /\ ExpandSpace(s, c) \in Seq(PlannedLines)
           /\ \A l \in ToSet(ExpandSpace(s, c)) : FromCard(l, s, c)
           /\ c.answer = "NOTHING" =>
                \E l \in ToSet(ExpandSpace(s, c)) : l.service = "NO_SERVICES" /\ l.space = s
  <1>1. CASE c.answer = ""
    <2>1. ExpandSpace(s, c) = <<>>
      BY <1>1 DEF ExpandSpace
    <2>2. <<>> \in Seq(PlannedLines) /\ ToSet(<<>>) = {}
      BY DEF ToSet
    <2> QED
      BY <1>1, <2>1, <2>2
  <1>2. CASE c.answer = "NOTHING"
    <2> DEFINE l == PlannedLine("NO_SERVICES", s)
    <2>1. ExpandSpace(s, c) = <<l>>
      BY <1>2 DEF ExpandSpace
    <2>2. "NO_SERVICES" \in Services /\ s \in Spaces \cup {None}
      BY DEF Services
    <2>3. l \in PlannedLines /\ l.service = "NO_SERVICES" /\ l.space = s
      BY <2>2, PlainLine
    <2> HIDE DEF l
    <2>4. <<l>> \in Seq(PlannedLines) /\ DOMAIN <<l>> = {1} /\ <<l>>[1] = l
      BY <2>3
    <2>5. ToSet(<<l>>) = {l}
      BY <2>4 DEF ToSet
    <2> QED
      BY <1>2, <2>1, <2>3, <2>4, <2>5 DEF FromCard
  <1>3. CASE c.answer = "NEEDS"
    <2>1. ASSUME NEW l \in ToSet(ExpandSpace(s, c)) PROVE FromCard(l, s, c)
      <3>1. CASE l.service \in {"WIFI", "ETHERNET"} /\ l.space = s
        BY <1>3, <3>1 DEF FromCard
      <3>2. CASE /\ l.service = "PRINTER" /\ l.space = s
                 /\ l.delivery \in {"ETHERNET", "USB"} /\ l.delivery \in c.printers
        BY <1>3, <3>2 DEF FromCard
      <3>3. CASE \E i \in Slots :
                      /\ c.phones[i] # None
                      /\ \/ OwnsANumber(c.phones[i]) /\ l = NumberOf(s, i, c.phones[i])
                         \/ /\ l.service = "DESK_PHONE" /\ l.space = s
                            /\ l.key = RingKey(s, i, c.phones[i])
        <4>1. PICK i \in Slots :
                      /\ c.phones[i] # None
                      /\ \/ OwnsANumber(c.phones[i]) /\ l = NumberOf(s, i, c.phones[i])
                         \/ /\ l.service = "DESK_PHONE" /\ l.space = s
                            /\ l.key = RingKey(s, i, c.phones[i])
          BY <3>3
        <4>2. c.phones[i] \in PhoneLines
          BY <4>1 DEF SpaceAnswers
        <4>3. l.space = s
          BY <4>1, <4>2, NumberTyped
        <4> QED
          BY <1>3, <4>1, <4>3 DEF FromCard
      <3> QED
        BY <1>3, <3>1, <3>2, <3>3, NeedsHave
    <2>2. ExpandSpace(s, c) \in Seq(PlannedLines)
      BY <1>3, NeedsHave
    <2> QED
      BY <1>3, <2>1, <2>2
  <1> QED
    BY <1>1, <1>2, <1>3 DEF SpaceAnswers

LEMMA PaymentsHave ==
    ASSUME NEW payments \in PaymentsAnswers \cup {None}
    PROVE  /\ PaymentsLine(payments) \in Seq(PlannedLines)
           /\ \A l \in ToSet(PaymentsLine(payments)) :
                /\ payments # None /\ l.service = "PAYMENTS"
                /\ l.space = payments.home /\ l.complete = payments.complete
  <1>1. CASE payments = None
    <2>1. PaymentsLine(payments) = <<>>
      BY <1>1 DEF PaymentsLine
    <2>2. <<>> \in Seq(PlannedLines) /\ ToSet(<<>>) = {}
      BY DEF ToSet
    <2> QED
      BY <2>1, <2>2
  <1>2. CASE payments # None
    <2> DEFINE plain == PlannedLine("PAYMENTS", payments.home)
               l     == [plain EXCEPT !.complete = payments.complete]
    <2>1. /\ payments.home \in Spaces \cup {None} /\ payments.complete \in BOOLEAN
          /\ "PAYMENTS" \in Services
      BY <1>2 DEF PaymentsAnswers, Services
    <2>2. PaymentsLine(payments) = <<l>>
      BY <1>2 DEF PaymentsLine
    <2>3. /\ plain \in PlannedLines /\ plain.service = "PAYMENTS"
          /\ plain.space = payments.home
      BY <2>1, PlainLine
    <2> HIDE DEF plain
    <2>4. /\ l \in PlannedLines /\ l.service = "PAYMENTS"
          /\ l.space = payments.home /\ l.complete = payments.complete
      BY <2>1, <2>3 DEF PlannedLines
    <2> HIDE DEF l
    <2>5. <<l>> \in Seq(PlannedLines) /\ DOMAIN <<l>> = {1} /\ <<l>>[1] = l
      BY <2>4
    <2>6. ToSet(<<l>>) = {l}
      BY <2>5 DEF ToSet
    <2> QED
      BY <1>2, <2>2, <2>4, <2>5, <2>6
  <1> QED
    BY <1>1, <1>2

LEMMA PlanHas ==
    ASSUME NEW a \in Answers
    PROVE  /\ Plan(a) \in Seq(PlannedLines)
           /\ \A s \in DOMAIN a.cards :
                ToSet(ExpandSpace(s, a.cards[s])) \subseteq ToSet(Plan(a))
           /\ ToSet(PaymentsLine(a.payments)) \subseteq ToSet(Plan(a))
           /\ \A l \in ToSet(Plan(a)) :
                \/ \E s \in DOMAIN a.cards : l \in ToSet(ExpandSpace(s, a.cards[s]))
                \/ l \in ToSet(PaymentsLine(a.payments))
                \/ a.wide /\ l.service = "OTHER" /\ l.space = None
                \/ a.noServices /\ l.service = "NO_SERVICES" /\ l.space = None
  <1> DEFINE C(n) == IF SpaceOrder[n] \in DOMAIN a.cards
                     THEN ExpandSpace(SpaceOrder[n], a.cards[SpaceOrder[n]]) ELSE <<>>
             ss    == [n \in DOMAIN SpaceOrder |-> C(n)]
             other == PlannedLine("OTHER", None)
             none  == PlannedLine("NO_SERVICES", None)
             f     == FlattenSeq(ss)
             o     == When(a.wide, other)
             p     == PaymentsLine(a.payments)
             z     == When(a.noServices, none)
  <1>1. Plan(a) = f \o o \o p \o z
    BY DEF Plan
  <1>2. /\ a.payments \in PaymentsAnswers \cup {None}
        /\ a.wide \in BOOLEAN /\ a.noServices \in BOOLEAN
        /\ DOMAIN a.cards \subseteq Spaces
        /\ \A s \in DOMAIN a.cards : a.cards[s] \in SpaceAnswers
    BY DEF Answers
  <1> DEFINE N == Len(SpaceOrder)
  <1>3. /\ N \in Nat /\ DOMAIN SpaceOrder = 1..N
        /\ \A n \in 1..N : SpaceOrder[n] \in Spaces
        /\ \A s \in Spaces : \E n \in 1..N : SpaceOrder[n] = s
    BY FormAssumption DEF Spaces
  <1> HIDE DEF N, f, o, p, z, other, none
  <1>4. \A n \in 1..N : C(n) \in Seq(PlannedLines)
    <2>1. <<>> \in Seq(PlannedLines)
      OBVIOUS
    <2> QED
      BY <2>1, <1>2, <1>3, SpaceHas
  <1>5. /\ ss \in [1..N -> Seq(PlannedLines)]
        /\ \A n \in 1..N : ss[n] = C(n)
    BY <1>3, <1>4
  <1> HIDE DEF ss, C
  <1>6. f \in Seq(PlannedLines) /\ ToSet(f) = UNION {ToSet(ss[n]) : n \in 1..N}
    BY <1>3, <1>5, FlattenHas DEF f
  <1>7. /\ {"OTHER", "NO_SERVICES"} \subseteq Services
        /\ None \in Spaces \cup {None}
    BY DEF Services
  <1>8. other \in PlannedLines /\ other.service = "OTHER" /\ other.space = None
    BY <1>7, PlainLine DEF other
  <1>9. none \in PlannedLines /\ none.service = "NO_SERVICES" /\ none.space = None
    BY <1>7, PlainLine DEF none
  <1>10. o \in Seq(PlannedLines) /\ ToSet(o) = IF a.wide THEN {other} ELSE {}
    BY <1>2, <1>8, WhenHas DEF o
  <1>11. z \in Seq(PlannedLines) /\ ToSet(z) = IF a.noServices THEN {none} ELSE {}
    BY <1>2, <1>9, WhenHas DEF z
  <1>12. p \in Seq(PlannedLines)
    BY <1>2, PaymentsHave DEF p
  <1>13. /\ Plan(a) \in Seq(PlannedLines)
         /\ ToSet(Plan(a)) = ToSet(f) \cup ToSet(o) \cup ToSet(p) \cup ToSet(z)
    BY <1>1, <1>6, <1>10, <1>11, <1>12, FourHave
  <1>14. ASSUME NEW s \in DOMAIN a.cards
         PROVE  ToSet(ExpandSpace(s, a.cards[s])) \subseteq ToSet(Plan(a))
    <2>1. PICK n \in 1..N : SpaceOrder[n] = s
      BY <1>2, <1>3
    <2>2. ss[n] = ExpandSpace(s, a.cards[s])
      BY <2>1, <1>5 DEF C
    <2> QED
      BY <2>1, <2>2, <1>6, <1>13
  <1>15. ASSUME NEW l \in ToSet(f)
         PROVE  \E s \in DOMAIN a.cards : l \in ToSet(ExpandSpace(s, a.cards[s]))
    <2>1. PICK n \in 1..N : l \in ToSet(ss[n])
      BY <1>6
    <2>2. SpaceOrder[n] \in DOMAIN a.cards
      <3>1. ToSet(<<>>) = {}
        BY DEF ToSet
      <3> QED
        BY <3>1, <2>1, <1>5 DEF C
    <2> QED
      BY <2>1, <2>2, <1>5 DEF C
  <1>16. ToSet(p) \subseteq ToSet(Plan(a))
    BY <1>13
  <1>17. ASSUME NEW l \in ToSet(Plan(a))
         PROVE  \/ \E s \in DOMAIN a.cards : l \in ToSet(ExpandSpace(s, a.cards[s]))
                \/ l \in ToSet(p)
                \/ a.wide /\ l.service = "OTHER" /\ l.space = None
                \/ a.noServices /\ l.service = "NO_SERVICES" /\ l.space = None
    BY <1>8, <1>9, <1>10, <1>11, <1>13, <1>15
  <1> QED
    BY <1>13, <1>14, <1>16, <1>17 DEF p

\* The drop keeps the lines that are not silenced, and no others.
LEMMA KeepHas ==
    ASSUME NEW planned \in Seq(PlannedLines)
    PROVE  /\ Keep(planned) \in Seq(PlannedLines)
           /\ ToSet(Keep(planned)) = {l \in ToSet(planned) : ~Silenced(planned, l)}
  <1> DEFINE N == Len(planned)
             C(i) == When(~Silenced(planned, planned[i]), planned[i])
             ss == [i \in DOMAIN planned |-> C(i)]
  <1>1. N \in Nat /\ DOMAIN planned = 1..N /\ \A i \in 1..N : planned[i] \in PlannedLines
    OBVIOUS
  <1> HIDE DEF N
  <1>2. \A i \in 1..N : /\ C(i) \in Seq(PlannedLines)
                        /\ ToSet(C(i)) = IF ~Silenced(planned, planned[i])
                                         THEN {planned[i]} ELSE {}
    <2>1. \A l : (~Silenced(planned, l)) \in BOOLEAN
      BY DEF Silenced
    <2> QED
      BY <1>1, <2>1, WhenHas
  <1>3. Keep(planned) = FlattenSeq(ss)
    BY DEF Keep
  <1> HIDE DEF C
  <1>4. ss \in [1..N -> Seq(PlannedLines)] /\ \A i \in 1..N : ss[i] = C(i)
    BY <1>1, <1>2
  <1> HIDE DEF ss
  <1>5. /\ FlattenSeq(ss) \in Seq(PlannedLines)
        /\ ToSet(FlattenSeq(ss)) = UNION {ToSet(ss[i]) : i \in 1..N}
    BY <1>1, <1>4, FlattenHas
  <1>6. ToSet(planned) = {planned[i] : i \in 1..N}
    BY <1>1 DEF ToSet
  <1>7. UNION {ToSet(ss[i]) : i \in 1..N} = {l \in ToSet(planned) : ~Silenced(planned, l)}
    BY <1>2, <1>4, <1>6
  <1> QED
    BY <1>3, <1>5, <1>7

\* Line l of a save, made of line k that the plan kept.
MadeOf(l, k) ==
    /\ l.service = k.service /\ l.space = k.space /\ l.purpose = k.purpose
    /\ l.delivery = k.delivery /\ l.kinds = k.kinds
    /\ l.complete = k.complete /\ l.question = k.question

LEMMA ExpandHas ==
    ASSUME NEW a \in Answers
    PROVE  \E kept \in Seq(PlannedLines) :
            /\ ToSet(kept) = {l \in ToSet(Plan(a)) : ~Silenced(Plan(a), l)}
            /\ ExpandToLines(a) \in Seq(Lines)
            /\ DOMAIN ExpandToLines(a) = DOMAIN kept
            /\ \A i \in DOMAIN kept : MadeOf(ExpandToLines(a)[i], kept[i])
            /\ \A i \in DOMAIN kept : ExpandToLines(a)[i].parent # None =>
                /\ kept[i].service = "DESK_PHONE"
                /\ ExpandToLines(a)[i].parent \in DOMAIN kept
                /\ kept[ExpandToLines(a)[i].parent].service = "PHONE_NUMBER"
                /\ kept[ExpandToLines(a)[i].parent].key = kept[i].key
            /\ \A i, j \in DOMAIN kept :
                /\ kept[i].service = "DESK_PHONE"
                /\ kept[j].service = "PHONE_NUMBER" /\ kept[j].key = kept[i].key
                => ExpandToLines(a)[i].parent # None
  <1> DEFINE planned == Plan(a)
             kept    == Keep(planned)
             P(i)    == ParentIndex(planned, kept, kept[i])
             out     == ExpandToLines(a)
  <1>1. planned \in Seq(PlannedLines)
    BY PlanHas
  <1>2. kept \in Seq(PlannedLines) /\ ToSet(kept) = {l \in ToSet(planned) : ~Silenced(planned, l)}
    <2> HIDE DEF planned
    <2> QED
      BY <1>1, KeepHas
  <1>3. out = [i \in DOMAIN kept |-> Stored(kept[i], P(i))]
    BY DEF ExpandToLines
  <1> HIDE DEF kept, planned, out
  <1>4. \A i \in DOMAIN kept : kept[i] \in PlannedLines /\ i \in Nat
    BY <1>2
  <1>5. ASSUME NEW i \in DOMAIN kept
        PROVE  /\ P(i) # None =>
                    /\ kept[i].service = "DESK_PHONE" /\ P(i) \in DOMAIN kept
                    /\ kept[P(i)].service = "PHONE_NUMBER" /\ kept[P(i)].key = kept[i].key
               /\ kept[i].service = "DESK_PHONE" =>
                    \A j \in DOMAIN kept :
                        kept[j].service = "PHONE_NUMBER" /\ kept[j].key = kept[i].key
                        => P(i) # None
    <2> DEFINE owners == NumbersNamed(kept, kept[i].key)
    <2>1. P(i) = IF kept[i].service # "DESK_PHONE" \/ owners = {} THEN None
                 ELSE CHOOSE j \in owners : TRUE
      BY DEF ParentIndex
    <2> HIDE DEF P
    <2>2. \A j \in owners : /\ j \in DOMAIN kept /\ kept[j].service = "PHONE_NUMBER"
                            /\ kept[j].key = kept[i].key
      BY DEF NumbersNamed
    <2>3. \A j \in DOMAIN kept :
             kept[j].service = "PHONE_NUMBER" /\ kept[j].key = kept[i].key => j \in owners
      BY DEF NumbersNamed
    <2> HIDE DEF owners
    <2>4. owners # {} => (CHOOSE j \in owners : TRUE) \in owners
      OBVIOUS
    <2>5. None \notin DOMAIN kept
      BY <1>4, FormAssumption
    <2> QED
      BY <2>1, <2>2, <2>3, <2>4, <2>5
  <1>6. ASSUME NEW i \in DOMAIN kept
        PROVE  /\ Stored(kept[i], P(i)) \in Lines /\ MadeOf(Stored(kept[i], P(i)), kept[i])
               /\ Stored(kept[i], P(i)).parent = P(i)
    <2>1. P(i) \in Nat \cup {None}
      BY <1>4, <1>5
    <2>2. kept[i] \in PlannedLines
      BY <1>4
    <2> HIDE DEF P
    <2> QED
      BY <2>1, <2>2 DEF Stored, Lines, MadeOf, PlannedLines
  <1>7. /\ DOMAIN out = DOMAIN kept
        /\ \A i \in DOMAIN kept : /\ out[i] \in Lines /\ MadeOf(out[i], kept[i])
                                  /\ out[i].parent = P(i)
    BY <1>3, <1>6
  <1>8. out \in Seq(Lines)
    <2>1. kept \in Seq(PlannedLines) => DOMAIN kept = 1..Len(kept) /\ Len(kept) \in Nat
      OBVIOUS
    <2>2. out \in [1..Len(kept) -> Lines]
      BY <1>2, <2>1, <1>3, <1>7
    <2> QED
      BY <1>2, <2>1, <2>2
  <1> HIDE DEF P
  <1> QED
    BY <1>2, <1>5, <1>7, <1>8 DEF out, planned

\* What silences a handset is a number of the plan.
LEMMA SilencedByNumber ==
    ASSUME NEW a \in Answers, NEW l
    PROVE  Silenced(Plan(a), l) <=>
             /\ l.service = "DESK_PHONE"
             /\ \E k \in ToSet(Plan(a)) : /\ k.service = "PHONE_NUMBER" /\ k.key = l.key
                                          /\ k.delivery = "NONE"
BY DEF Silenced, NumbersNamed, ToSet

\* Every number and every handset of the plan comes from a slot of a card that
\* needs services.
LEMMA SlotOfLine ==
    ASSUME NEW a \in Answers, NEW l \in ToSet(Plan(a)),
           l.service \in {"PHONE_NUMBER", "DESK_PHONE"}
    PROVE  \E s \in DOMAIN a.cards, i \in Slots :
            LET c == a.cards[s]
            IN  /\ c.answer = "NEEDS" /\ c.phones[i] # None /\ l.space = s
                /\ l.service = "PHONE_NUMBER" =>
                      OwnsANumber(c.phones[i]) /\ l = NumberOf(s, i, c.phones[i])
                /\ l.service = "DESK_PHONE" => l.key = RingKey(s, i, c.phones[i])
  <1>0. a.payments \in PaymentsAnswers \cup {None}
    BY DEF Answers
  <1>1. PICK s \in DOMAIN a.cards : l \in ToSet(ExpandSpace(s, a.cards[s]))
    BY <1>0, PlanHas, PaymentsHave
  <1> DEFINE c == a.cards[s]
  <1>2. s \in Spaces /\ c \in SpaceAnswers
    BY DEF Answers
  <1>3. FromCard(l, s, c)
    BY <1>1, <1>2, SpaceHas
  <1> HIDE DEF c
  <1>4. PICK i \in Slots :
            /\ c.answer = "NEEDS" /\ c.phones[i] # None
            /\ \/ OwnsANumber(c.phones[i]) /\ l = NumberOf(s, i, c.phones[i])
               \/ l.service = "DESK_PHONE" /\ l.key = RingKey(s, i, c.phones[i])
    BY <1>3 DEF FromCard
  <1>5. c.phones[i] \in PhoneLines
    BY <1>2, <1>4 DEF SpaceAnswers
  <1>6. l = NumberOf(s, i, c.phones[i]) => l.service = "PHONE_NUMBER"
    BY <1>2, <1>5, NumberTyped
  <1>7. l.space = s
    BY <1>3 DEF FromCard
  <1>8. l.service = "PHONE_NUMBER" =>
            OwnsANumber(c.phones[i]) /\ l = NumberOf(s, i, c.phones[i])
    BY <1>4
  <1>9. l.service = "DESK_PHONE" => l.key = RingKey(s, i, c.phones[i])
    BY <1>4, <1>6
  <1> QED
    BY <1>4, <1>7, <1>8, <1>9 DEF c

\* A number a card owns is planned, and is not dropped.
LEMMA NumberPlanned ==
    ASSUME NEW a \in Answers, NEW s \in DOMAIN a.cards, NEW i \in Slots,
           a.cards[s].answer = "NEEDS", a.cards[s].phones[i] # None,
           OwnsANumber(a.cards[s].phones[i])
    PROVE  LET n == NumberOf(s, i, a.cards[s].phones[i])
           IN  /\ n \in ToSet(Plan(a)) /\ ~Silenced(Plan(a), n)
               /\ n.service = "PHONE_NUMBER" /\ n.key = SharingKey(s, i)
               /\ n.delivery = a.cards[s].phones[i].delivery
  <1> DEFINE c == a.cards[s]
             n == NumberOf(s, i, c.phones[i])
  <1>1. s \in Spaces /\ c \in SpaceAnswers
    BY DEF Answers
  <1>2. c.phones[i] \in PhoneLines
    BY <1>1 DEF SpaceAnswers
  <1>3. n \in ToSet(ExpandSpace(s, c))
    BY <1>1, NeedsHave
  <1>4. n \in ToSet(Plan(a))
    BY <1>3, PlanHas
  <1>5. /\ n.service = "PHONE_NUMBER" /\ n.key = SharingKey(s, i)
        /\ n.delivery = c.phones[i].delivery
    BY <1>1, <1>2, NumberTyped
  <1>6. ~Silenced(Plan(a), n)
    BY <1>5 DEF Silenced
  <1> QED
    BY <1>4, <1>5, <1>6

\* A phone line that shares a number, resolved.
LEMMA ShareNames ==
    ASSUME NEW a \in Answers, NEW p \in PhoneLines, ShareResolves(a, p), ~OwnsANumber(p)
    PROVE  \E t \in DOMAIN a.cards, j \in Slots :
            /\ p.source = SharingKey(t, j)
            /\ a.cards[t].phones[j] # None /\ OwnsANumber(a.cards[t].phones[j])
            /\ a.cards[t].phones[j].delivery # "NONE"
  <1>1. p.source \in Sources /\ p.source # SOURCE_NEW /\ p.source # SOURCE_BLANK
    BY DEF PhoneLines, ShareResolves, OwnsANumber
  <1>2. PICK t \in Spaces, j \in Nat : p.source = <<t, j>>
    BY <1>1 DEF Sources
  <1>3. p.source[1] = t /\ p.source[2] = j
    BY <1>2
  <1>4. /\ t \in DOMAIN a.cards /\ j \in Slots
        /\ a.cards[t].phones[j] # None /\ OwnsANumber(a.cards[t].phones[j])
        /\ a.cards[t].phones[j].delivery # "NONE"
    BY <1>3 DEF ShareResolves
  <1> QED
    BY <1>2, <1>4 DEF SharingKey

\* No handset that is saved rings a number that is none, or one without voice.
LEMMA SavedHandsets ==
    ASSUME NEW a \in Answers, NEW out, out = ExpandToLines(a), NEW i \in DOMAIN out,
           out[i].parent # None
    PROVE  /\ out[i].service = "DESK_PHONE"
           /\ out[i].parent \in DOMAIN out
           /\ out[out[i].parent].service = "PHONE_NUMBER"
           /\ out[out[i].parent].delivery # "NONE"
  <1>1. PICK kept \in Seq(PlannedLines) :
            /\ ToSet(kept) = {l \in ToSet(Plan(a)) : ~Silenced(Plan(a), l)}
            /\ DOMAIN out = DOMAIN kept
            /\ \A m \in DOMAIN kept : MadeOf(out[m], kept[m])
            /\ \A m \in DOMAIN kept : out[m].parent # None =>
                /\ kept[m].service = "DESK_PHONE"
                /\ out[m].parent \in DOMAIN kept
                /\ kept[out[m].parent].service = "PHONE_NUMBER"
                /\ kept[out[m].parent].key = kept[m].key
    BY ExpandHas
  <1> DEFINE o == out[i].parent
  <1>2. /\ i \in DOMAIN kept /\ o \in DOMAIN kept
        /\ kept[i].service = "DESK_PHONE" /\ kept[o].service = "PHONE_NUMBER"
        /\ kept[o].key = kept[i].key
    BY <1>1
  <1>3. kept[i] \in ToSet(kept) /\ kept[o] \in ToSet(kept)
    BY <1>2 DEF ToSet
  <1>4. ~Silenced(Plan(a), kept[i]) /\ kept[o] \in ToSet(Plan(a))
    BY <1>1, <1>3
  <1>5. kept[o].delivery # "NONE"
    BY <1>2, <1>4, SilencedByNumber
  <1>6. MadeOf(out[i], kept[i]) /\ MadeOf(out[o], kept[o])
    BY <1>1, <1>2
  <1> QED
    BY <1>1, <1>2, <1>5, <1>6 DEF MadeOf

\* What the columns of a saved line say of each other.
LineOK(l) ==
    /\ l.service = "PHONE_NUMBER" =>
            /\ l.space \in Spaces /\ l.delivery \in Deliveries
            /\ l.purpose = None => l.question
    /\ l.service = "PRINTER" => l.delivery \in {"ETHERNET", "USB"}

LEMMA SavedLines ==
    ASSUME NEW a \in Answers, NEW out, out = ExpandToLines(a), NEW i \in DOMAIN out
    PROVE  LineOK(out[i])
  <1>1. PICK kept \in Seq(PlannedLines) :
            /\ ToSet(kept) = {l \in ToSet(Plan(a)) : ~Silenced(Plan(a), l)}
            /\ DOMAIN out = DOMAIN kept
            /\ \A m \in DOMAIN kept : MadeOf(out[m], kept[m])
    BY ExpandHas
  <1> DEFINE k == kept[i]
  <1>2. k \in ToSet(Plan(a)) /\ MadeOf(out[i], k)
    BY <1>1 DEF ToSet
  <1> HIDE DEF k
  <1>3. ASSUME k.service = "PHONE_NUMBER"
        PROVE  /\ k.space \in Spaces /\ k.delivery \in Deliveries
               /\ k.purpose = None => k.question
    <2>1. PICK s \in DOMAIN a.cards, j \in Slots :
            LET c == a.cards[s]
            IN  /\ c.answer = "NEEDS" /\ c.phones[j] # None /\ k.space = s
                /\ k = NumberOf(s, j, c.phones[j])
      BY <1>2, <1>3, SlotOfLine
    <2> DEFINE p == a.cards[s].phones[j]
    <2>2. s \in Spaces /\ a.cards[s] \in SpaceAnswers
      BY DEF Answers
    <2>3. p \in PhoneLines
      BY <2>1, <2>2 DEF SpaceAnswers
    <2>4. k = NumberOf(s, j, p)
      BY <2>1
    <2> HIDE DEF p
    <2>5. /\ k.space = s /\ k.delivery = p.delivery
          /\ k.purpose = DerivePurpose(p) /\ k.question = PhoneOpenQuestion(p)
      BY <2>2, <2>3, <2>4, NumberTyped
    <2>6. p.delivery \in Deliveries /\ p.texts \in BOOLEAN
      BY <2>3 DEF PhoneLines
    <2>7. DerivePurpose(p) = None => PhoneOpenQuestion(p)
      <3>1. None \notin {"BOTH", "VOICE", "TEXT"}
        BY FormAssumption DEF Purposes
      <3> QED
        BY <2>6, <3>1 DEF DerivePurpose, PhoneOpenQuestion, HasVoice
    <2> QED
      BY <2>2, <2>5, <2>6, <2>7
  <1>4. ASSUME k.service = "PRINTER" PROVE k.delivery \in {"ETHERNET", "USB"}
    <2>1. a.payments \in PaymentsAnswers \cup {None}
      BY DEF Answers
    <2>2. PICK s \in DOMAIN a.cards : k \in ToSet(ExpandSpace(s, a.cards[s]))
      BY <1>2, <1>4, <2>1, PlanHas, PaymentsHave
    <2>3. s \in Spaces /\ a.cards[s] \in SpaceAnswers
      BY DEF Answers
    <2>4. FromCard(k, s, a.cards[s])
      BY <2>2, <2>3, SpaceHas
    <2>5. \A j \in Slots : a.cards[s].phones[j] # None =>
             NumberOf(s, j, a.cards[s].phones[j]).service = "PHONE_NUMBER"
      <3>1. \A j \in Slots : a.cards[s].phones[j] # None => a.cards[s].phones[j] \in PhoneLines
        BY <2>3 DEF SpaceAnswers
      <3> QED
        BY <2>3, <3>1, NumberTyped
    <2> QED
      BY <1>4, <2>4, <2>5 DEF FromCard
  <1> QED
    BY <1>2, <1>3, <1>4 DEF LineOK, MadeOf

-----------------------------------------------------------------------------
(* What validate() makes sure of.                                          *)

\* Every line the plan keeps is saved.
LEMMA KeptIsSaved ==
    ASSUME NEW a \in Answers, NEW l \in ToSet(Plan(a)), ~Silenced(Plan(a), l)
    PROVE  \E i \in DOMAIN ExpandToLines(a) : MadeOf(ExpandToLines(a)[i], l)
  <1>1. PICK kept \in Seq(PlannedLines) :
            /\ ToSet(kept) = {k \in ToSet(Plan(a)) : ~Silenced(Plan(a), k)}
            /\ DOMAIN ExpandToLines(a) = DOMAIN kept
            /\ \A m \in DOMAIN kept : MadeOf(ExpandToLines(a)[m], kept[m])
    BY ExpandHas
  <1>2. l \in ToSet(kept)
    BY <1>1
  <1>3. PICK i \in DOMAIN kept : kept[i] = l
    BY <1>2 DEF ToSet
  <1> QED
    BY <1>1, <1>3

\* Every line that is saved was planned.
LEMMA SavedIsPlanned ==
    ASSUME NEW a \in Answers, NEW i \in DOMAIN ExpandToLines(a)
    PROVE  \E l \in ToSet(Plan(a)) :
                MadeOf(ExpandToLines(a)[i], l) /\ ~Silenced(Plan(a), l)
  <1>1. PICK kept \in Seq(PlannedLines) :
            /\ ToSet(kept) = {k \in ToSet(Plan(a)) : ~Silenced(Plan(a), k)}
            /\ DOMAIN ExpandToLines(a) = DOMAIN kept
            /\ \A m \in DOMAIN kept : MadeOf(ExpandToLines(a)[m], kept[m])
    BY ExpandHas
  <1>2. kept[i] \in ToSet(kept)
    BY <1>1 DEF ToSet
  <1> QED
    BY <1>1, <1>2

\* A space that needs services has a line, though handsets are dropped: what
\* drops them is on the same card, or was refused.
LEMMA NeededHasLine ==
    ASSUME NEW a \in Answers, NEW s \in DOMAIN a.cards, CardIsComplete(a, s),
           a.cards[s].answer = "NEEDS"
    PROVE  \E l \in ToSet(Plan(a)) : l.space = s /\ ~Silenced(Plan(a), l)
  <1> DEFINE c   == a.cards[s]
             pay == IF HomeId(a) = s THEN a.payments ELSE None
             one == [a EXCEPT !.cards = [t \in {s} |-> c], !.wide = FALSE,
                              !.noServices = FALSE, !.payments = pay]
  <1>1. /\ s \in Spaces /\ c \in SpaceAnswers
        /\ a.payments \in PaymentsAnswers \cup {None}
    BY DEF Answers
  <1>2. /\ one \in Answers /\ one.cards = [t \in {s} |-> c] /\ one.wide = FALSE
        /\ one.noServices = FALSE /\ one.payments = pay
    <2>1. [t \in {s} |-> c] \in UNION {[S -> SpaceAnswers] : S \in SUBSET Spaces}
      <3> HIDE DEF c
      <3>1. {s} \in SUBSET Spaces /\ [t \in {s} |-> c] \in [{s} -> SpaceAnswers]
        BY <1>1
      <3> QED
        BY <3>1
    <2>2. pay \in PaymentsAnswers \cup {None}
      BY <1>1
    <2> HIDE DEF pay, c
    <2> QED
      BY <2>1, <2>2 DEF Answers
  <1>3. ExpandToLines(one) # <<>> /\ \A p \in Phones(c) : ShareResolves(a, p)
    BY DEF CardIsComplete
  <1> HIDE DEF one
  <1>4. PICK i \in DOMAIN ExpandToLines(one) : TRUE
    <2>1. ExpandToLines(one) \in Seq(Lines)
      BY <1>2, ExpandHas
    <2> DEFINE out == ExpandToLines(one)
    <2>2. out \in Seq(Lines) /\ out # <<>>
      BY <1>3, <2>1
    <2> HIDE DEF out
    <2>3. Len(out) # 0 /\ Len(out) \in Nat /\ DOMAIN out = 1..Len(out)
      BY <2>2
    <2>4. 1 \in DOMAIN out
      BY <2>3
    <2> QED
      BY <2>4 DEF out
  <1>5. PICK l \in ToSet(Plan(one)) : ~Silenced(Plan(one), l)
    BY <1>2, <1>4, SavedIsPlanned
  <1>6. CASE l \in ToSet(PaymentsLine(one.payments))
    <2>1. /\ one.payments # None /\ l.space = one.payments.home
          /\ l.service = "PAYMENTS"
      BY <1>2, <1>6, PaymentsHave DEF Answers
    <2>2. one.payments = a.payments /\ HomeId(a) = s
      BY <1>2, <2>1
    <2>3. l.space = s /\ l \in ToSet(Plan(a))
      BY <2>1, <2>2, <1>6, PlanHas DEF HomeId
    <2> QED
      BY <2>1, <2>3 DEF Silenced
  <1>7. CASE l \in ToSet(ExpandSpace(s, c))
    <2>1. l \in ToSet(Plan(a)) /\ l.space = s
      BY <1>1, <1>7, PlanHas, SpaceHas DEF FromCard
    <2>2. ASSUME Silenced(Plan(a), l) PROVE FALSE
      <3>1. PICK k \in ToSet(Plan(a)) : /\ k.service = "PHONE_NUMBER" /\ k.key = l.key
                                        /\ k.delivery = "NONE"
        BY <2>2, SilencedByNumber
      <3>2. l.service = "DESK_PHONE"
        BY <2>2, SilencedByNumber
      <3>3. PICK t \in DOMAIN a.cards, j \in Slots :
                /\ a.cards[t].answer = "NEEDS" /\ a.cards[t].phones[j] # None
                /\ OwnsANumber(a.cards[t].phones[j])
                /\ k = NumberOf(t, j, a.cards[t].phones[j])
        BY <3>1, SlotOfLine
      <3>4. /\ k.key = SharingKey(t, j)
            /\ a.cards[t].phones[j].delivery = "NONE"
        BY <3>1, <3>3, NumberPlanned
      <3>5. PICK i1 \in Slots : c.phones[i1] # None /\ l.key = RingKey(s, i1, c.phones[i1])
        <4>1. PICK u \in DOMAIN a.cards, i1 \in Slots :
                /\ a.cards[u].phones[i1] # None /\ l.space = u
                /\ l.key = RingKey(u, i1, a.cards[u].phones[i1])
          BY <2>1, <3>2, SlotOfLine
        <4> QED
          BY <2>1, <4>1
      <3> DEFINE p == c.phones[i1]
      <3>6. p \in PhoneLines /\ p \in Phones(c)
        BY <1>1, <3>5 DEF SpaceAnswers, Phones
      <3>7. CASE OwnsANumber(p)
        <4>1. SharingKey(s, i1) = SharingKey(t, j)
          BY <3>7, <3>5, <3>4, <3>1 DEF RingKey
        <4>2. s = t /\ i1 = j
          BY <4>1 DEF SharingKey
        <4>3. k \in ToSet(ExpandSpace(s, c))
          BY <1>1, <3>3, <4>2, NeedsHave
        <4>4. k \in ToSet(Plan(one))
          <5>1. s \in DOMAIN one.cards /\ one.cards[s] = c
            BY <1>2
          <5> QED
            BY <1>2, <4>3, <5>1, PlanHas
        <4>5. Silenced(Plan(one), l)
          BY <1>2, <3>1, <3>2, <4>4, SilencedByNumber
        <4> QED
          BY <1>5, <4>5
      <3>8. CASE ~OwnsANumber(p)
        <4>1. ShareResolves(a, p)
          BY <1>3, <3>6
        <4>2. PICK u \in DOMAIN a.cards, m \in Slots :
                /\ p.source = SharingKey(u, m)
                /\ a.cards[u].phones[m].delivery # "NONE"
          BY <3>6, <3>8, <4>1, ShareNames
        <4>3. SharingKey(u, m) = SharingKey(t, j)
          BY <3>8, <3>5, <3>4, <3>1, <4>2 DEF RingKey
        <4>4. u = t /\ m = j
          BY <4>3 DEF SharingKey
        <4> QED
          BY <4>2, <4>4, <3>4
      <3> QED
        BY <3>7, <3>8
    <2> QED
      BY <2>1, <2>2
  <1>8. l \in ToSet(ExpandSpace(s, c)) \/ l \in ToSet(PaymentsLine(one.payments))
    <2>1. \A t \in DOMAIN one.cards : t = s /\ one.cards[t] = c
      BY <1>2
    <2> HIDE DEF c, pay
    <2> QED
      BY <1>2, <2>1, PlanHas
  <1> QED
    BY <1>6, <1>7, <1>8

\* The rows a save writes.
RowsOf(a) == [s \in Spaces |-> IF s \in DOMAIN a.cards THEN RowOf(a.cards[s]) ELSE None]

LEMMA RowsHave ==
    ASSUME NEW a \in Answers
    PROVE  /\ RowsOf(a) \in [Spaces -> SpaceRows \cup {None}]
           /\ \A s \in Spaces : RowsOf(a)[s] # None <=> s \in DOMAIN a.cards
           /\ \A s \in DOMAIN a.cards :
                /\ s \in Spaces /\ a.cards[s] \in SpaceAnswers
                /\ RowsOf(a)[s].answer = a.cards[s].answer
                /\ RowsOf(a)[s].reason = a.cards[s].reason
  <1>1. \A s \in DOMAIN a.cards : s \in Spaces /\ a.cards[s] \in SpaceAnswers
    BY DEF Answers
  <1>2. ASSUME NEW c \in SpaceAnswers
        PROVE  /\ RowOf(c) \in SpaceRows /\ RowOf(c) # None
               /\ RowOf(c).answer = c.answer /\ RowOf(c).reason = c.reason
    <2>1. RowOf(c) \in SpaceRows
      BY DEF RowOf, SpaceRows, SpaceAnswers
    <2>2. RowOf(c) # None
      BY <2>1, FormAssumption
    <2>3. RowOf(c).answer = c.answer /\ RowOf(c).reason = c.reason
      BY DEF RowOf
    <2> QED
      BY <2>1, <2>2, <2>3
  <1>3. ASSUME NEW s \in Spaces
        PROVE  /\ RowsOf(a)[s] \in SpaceRows \cup {None}
               /\ RowsOf(a)[s] # None <=> s \in DOMAIN a.cards
               /\ s \in DOMAIN a.cards => RowsOf(a)[s] = RowOf(a.cards[s])
    <2>1. RowsOf(a)[s] = IF s \in DOMAIN a.cards THEN RowOf(a.cards[s]) ELSE None
      BY DEF RowsOf
    <2> QED
      BY <2>1, <1>1, <1>2
  <1>4. RowsOf(a) \in [Spaces -> SpaceRows \cup {None}]
    BY <1>3 DEF RowsOf
  <1> QED
    BY <1>1, <1>2, <1>3, <1>4

\* Lines out show all that card c of space s was made to say.
CardShown(c, s, out) ==
    /\ c.answer # ""
    /\ \E i \in DOMAIN out : out[i].space = s
    /\ \A i \in DOMAIN out :
        out[i].space = s /\ out[i].service = "PHONE_NUMBER" =>
            \/ \E j \in DOMAIN out : out[j].space = s /\ out[j].service = "WIFI"
            \/ c.reason
    /\ \A i \in DOMAIN out :
        out[i].space = s /\ out[i].service = "PRINTER" /\ out[i].delivery = "ETHERNET" =>
            \E j \in DOMAIN out : out[j].space = s /\ out[j].service = "ETHERNET"

\* A card of an accepted form.
LEMMA CardAccepted ==
    ASSUME NEW a \in Answers, Accepted(a), NEW s \in DOMAIN a.cards,
           NEW out, out = ExpandToLines(a)
    PROVE  CardShown(a.cards[s], s, out)
  <1> DEFINE c == a.cards[s]
  <1>1. s \in Spaces /\ c \in SpaceAnswers /\ a.payments \in PaymentsAnswers \cup {None}
    BY DEF Answers
  <1>2. CardIsComplete(a, s)
    BY DEF Accepted
  <1>3. c.answer # "" /\ c.answer \in {"", "NEEDS", "NOTHING"} /\ c.wifi \in {"", "YES", "NO"}
    BY <1>1, <1>2 DEF CardIsComplete, SpaceAnswers
  <1>4. \E l \in ToSet(Plan(a)) : l.space = s /\ ~Silenced(Plan(a), l)
    <2>1. CASE c.answer = "NEEDS"
      BY <2>1, <1>2, NeededHasLine
    <2>2. CASE c.answer = "NOTHING"
      <3>1. PICK l \in ToSet(ExpandSpace(s, c)) : l.service = "NO_SERVICES" /\ l.space = s
        BY <1>1, <2>2, SpaceHas
      <3>2. l \in ToSet(Plan(a))
        BY <3>1, PlanHas
      <3> QED
        BY <3>1, <3>2 DEF Silenced
    <2> QED
      BY <1>3, <2>1, <2>2
  <1>5. \E i \in DOMAIN out : out[i].space = s
    BY <1>4, KeptIsSaved DEF MadeOf
  <1>6. ASSUME NEW service \in {"WIFI", "ETHERNET"}, NEW l \in ToSet(ExpandSpace(s, c)),
               l.service = service, l.space = s
        PROVE  \E j \in DOMAIN out : out[j].space = s /\ out[j].service = service
    <2>1. l \in ToSet(Plan(a)) /\ ~Silenced(Plan(a), l)
      BY <1>6, PlanHas DEF Silenced
    <2> QED
      BY <2>1, <1>6, KeptIsSaved DEF MadeOf
  <1>7. ASSUME NEW i \in DOMAIN out, out[i].space = s, out[i].service = "PHONE_NUMBER",
               ~ \E j \in DOMAIN out : out[j].space = s /\ out[j].service = "WIFI"
        PROVE  c.reason
    <2>1. PICK l \in ToSet(Plan(a)) : MadeOf(out[i], l)
      BY SavedIsPlanned
    <2>2. l.space = s /\ l.service = "PHONE_NUMBER"
      BY <2>1, <1>7 DEF MadeOf
    <2>3. PICK m \in Slots : c.answer = "NEEDS" /\ c.phones[m] # None
      <3>1. PICK t \in DOMAIN a.cards, m \in Slots :
                /\ a.cards[t].answer = "NEEDS" /\ a.cards[t].phones[m] # None /\ l.space = t
        BY <2>2, SlotOfLine
      <3> QED
        BY <2>2, <3>1
    <2>4. Phones(c) # {}
      BY <2>3 DEF Phones
    <2>5. c.wifi # "YES"
      BY <1>1, <1>6, <1>7, <2>3, NeedsHave
    <2>6. c.wifi # ""
      BY <1>2, <2>3 DEF CardIsComplete
    <2>7. c.wifi = "NO"
      BY <1>3, <2>5, <2>6
    <2>8. WifiIsForced(s, c, HomeId(a))
      BY <2>4 DEF WifiIsForced
    <2> QED
      BY <1>2, <2>3, <2>7, <2>8 DEF CardIsComplete
  <1>8. ASSUME NEW i \in DOMAIN out, out[i].space = s, out[i].service = "PRINTER",
               out[i].delivery = "ETHERNET"
        PROVE  \E j \in DOMAIN out : out[j].space = s /\ out[j].service = "ETHERNET"
    <2>1. PICK l \in ToSet(Plan(a)) : MadeOf(out[i], l)
      BY SavedIsPlanned
    <2>2. l.space = s /\ l.service = "PRINTER" /\ l.delivery = "ETHERNET"
      BY <2>1, <1>8 DEF MadeOf
    <2>3. PICK t \in DOMAIN a.cards : l \in ToSet(ExpandSpace(t, a.cards[t]))
      BY <1>1, <2>2, PlanHas, PaymentsHave
    <2>4. t \in Spaces /\ a.cards[t] \in SpaceAnswers
      BY DEF Answers
    <2>5. FromCard(l, t, a.cards[t])
      BY <2>3, <2>4, SpaceHas
    <2>6. t = s
      BY <2>2, <2>5 DEF FromCard
    <2>7. \A j \in Slots : c.phones[j] # None =>
             NumberOf(s, j, c.phones[j]).service = "PHONE_NUMBER"
      <3>1. \A j \in Slots : c.phones[j] # None => c.phones[j] \in PhoneLines
        BY <1>1 DEF SpaceAnswers
      <3> QED
        BY <1>1, <3>1, NumberTyped
    <2>8. c.answer = "NEEDS" /\ "ETHERNET" \in c.printers
      BY <2>2, <2>5, <2>6, <2>7 DEF FromCard
    <2>9. c.network \in {"YES", "UNSURE"}
      BY <1>2, <2>8 DEF CardIsComplete, NetworkIsForced
    <2>10. PICK e \in ToSet(ExpandSpace(s, c)) : e.service = "ETHERNET" /\ e.space = s
      BY <1>1, <2>8, <2>9, NeedsHave
    <2> QED
      BY <2>10, <1>6
  <1> QED
    BY <1>3, <1>5, <1>7, <1>8 DEF CardShown

\* A line of an accepted form.
LEMMA LineAccepted ==
    ASSUME NEW a \in Answers, Accepted(a), NEW out, out = ExpandToLines(a),
           NEW i \in DOMAIN out
    PROVE  /\ out[i].service = "DESK_PHONE" =>
                \/ out[i].parent # None
                \/ \E s \in DOMAIN a.cards : a.cards[s].answer = "NOTHING"
           /\ out[i].service = "PAYMENTS" =>
                /\ out[i].complete /\ out[i].space \in DOMAIN a.cards
                /\ a.cards[out[i].space].answer = "NEEDS"
  <1>0. a.payments \in PaymentsAnswers \cup {None}
    BY DEF Answers
  <1>1. PICK kept \in Seq(PlannedLines) :
            /\ ToSet(kept) = {l \in ToSet(Plan(a)) : ~Silenced(Plan(a), l)}
            /\ ExpandToLines(a) \in Seq(Lines)
            /\ DOMAIN ExpandToLines(a) = DOMAIN kept
            /\ \A m \in DOMAIN kept : MadeOf(ExpandToLines(a)[m], kept[m])
            /\ \A m \in DOMAIN kept : ExpandToLines(a)[m].parent # None =>
                /\ kept[m].service = "DESK_PHONE"
                /\ ExpandToLines(a)[m].parent \in DOMAIN kept
                /\ kept[ExpandToLines(a)[m].parent].service = "PHONE_NUMBER"
                /\ kept[ExpandToLines(a)[m].parent].key = kept[m].key
            /\ \A m, j \in DOMAIN kept :
                /\ kept[m].service = "DESK_PHONE"
                /\ kept[j].service = "PHONE_NUMBER" /\ kept[j].key = kept[m].key
                => ExpandToLines(a)[m].parent # None
    BY ExpandHas, Zenon
  <1> DEFINE k == kept[i]
  <1>2. k \in ToSet(Plan(a)) /\ MadeOf(out[i], k)
    BY <1>1 DEF ToSet
  <1>3. ASSUME NEW n \in ToSet(Plan(a)), ~Silenced(Plan(a), n), k.service = "DESK_PHONE",
               n.service = "PHONE_NUMBER", n.key = k.key
        PROVE  out[i].parent # None
    <2>1. n \in ToSet(kept)
      BY <1>1, <1>3
    <2>2. PICK j \in DOMAIN kept : kept[j] = n
      BY <2>1 DEF ToSet
    <2> QED
      BY <1>1, <1>3, <2>2
  <1> HIDE DEF k
  <1>4. ASSUME k.service = "DESK_PHONE",
               \A s \in DOMAIN a.cards : a.cards[s].answer # "NOTHING"
        PROVE  out[i].parent # None
    <2>1. PICK s \in DOMAIN a.cards, m \in Slots :
            /\ a.cards[s].answer = "NEEDS" /\ a.cards[s].phones[m] # None
            /\ k.key = RingKey(s, m, a.cards[s].phones[m])
      BY <1>2, <1>4, SlotOfLine
    <2> DEFINE p == a.cards[s].phones[m]
    <2>2. s \in Spaces /\ a.cards[s] \in SpaceAnswers
      BY DEF Answers
    <2>3. p \in PhoneLines /\ p \in Phones(a.cards[s])
      BY <2>1, <2>2 DEF SpaceAnswers, Phones
    <2>4. \E t \in DOMAIN a.cards, j \in Slots :
            /\ k.key = SharingKey(t, j)
            /\ a.cards[t].phones[j] # None /\ OwnsANumber(a.cards[t].phones[j])
      <3>1. CASE OwnsANumber(p)
        BY <2>1, <3>1 DEF RingKey
      <3>2. CASE ~OwnsANumber(p)
        <4>1. ShareResolves(a, p)
          BY <2>1, <2>3 DEF Accepted, CardIsComplete
        <4>2. k.key = p.source
          BY <2>1, <3>2 DEF RingKey
        <4> HIDE DEF p
        <4> QED
          BY <2>3, <3>2, <4>1, <4>2, ShareNames
      <3> QED
        BY <3>1, <3>2
    <2>5. PICK t \in DOMAIN a.cards, j \in Slots :
            /\ k.key = SharingKey(t, j)
            /\ a.cards[t].phones[j] # None /\ OwnsANumber(a.cards[t].phones[j])
      BY <2>4
    <2>6. a.cards[t].answer = "NEEDS"
      <3>1. a.cards[t] \in SpaceAnswers
        BY DEF Answers
      <3>2. a.cards[t].answer # ""
        BY DEF Accepted, CardIsComplete
      <3> QED
        BY <1>4, <3>1, <3>2 DEF SpaceAnswers
    <2> DEFINE n == NumberOf(t, j, a.cards[t].phones[j])
    <2>7. /\ n \in ToSet(Plan(a)) /\ ~Silenced(Plan(a), n)
          /\ n.service = "PHONE_NUMBER" /\ n.key = SharingKey(t, j)
      BY <2>5, <2>6, NumberPlanned
    <2> HIDE DEF n
    <2> QED
      BY <1>3, <1>4, <2>5, <2>7
  <1>5. ASSUME k.service = "PAYMENTS"
        PROVE  /\ k.complete /\ k.space \in DOMAIN a.cards
               /\ a.cards[k.space].answer = "NEEDS"
    <2>1. k \in ToSet(PaymentsLine(a.payments))
      <3>1. ASSUME NEW s \in DOMAIN a.cards, k \in ToSet(ExpandSpace(s, a.cards[s]))
            PROVE  FALSE
        <4>1. s \in Spaces /\ a.cards[s] \in SpaceAnswers
          BY DEF Answers
        <4>2. FromCard(k, s, a.cards[s])
          BY <3>1, <4>1, SpaceHas
        <4>3. \A j \in Slots : a.cards[s].phones[j] # None => a.cards[s].phones[j] \in PhoneLines
          BY <4>1 DEF SpaceAnswers
        <4>4. \A j \in Slots : a.cards[s].phones[j] # None =>
                NumberOf(s, j, a.cards[s].phones[j]).service = "PHONE_NUMBER"
          BY <4>1, <4>3, NumberTyped
        <4> QED
          BY <1>5, <4>2, <4>4 DEF FromCard
      <3> QED
        BY <1>2, <1>5, <3>1, PlanHas
    <2>2. /\ a.payments # None /\ k.space = a.payments.home
          /\ k.complete = a.payments.complete
      BY <1>0, <2>1, PaymentsHave
    <2>3. /\ a.payments.home \in DOMAIN a.cards /\ a.payments.complete
          /\ a.cards[a.payments.home].answer # "NOTHING"
      BY <2>2 DEF Accepted, PaymentsComplete
    <2> DEFINE home == a.payments.home
    <2>4. a.cards[home] \in SpaceAnswers
      BY <2>3 DEF Answers
    <2>5. CardIsComplete(a, home)
      BY <2>3 DEF Accepted
    <2>6. a.cards[home].answer # ""
      BY <2>5 DEF CardIsComplete
    <2>7. a.cards[home].answer \in {"", "NEEDS", "NOTHING"}
      BY <2>4 DEF SpaceAnswers
    <2> QED
      BY <2>2, <2>3, <2>6, <2>7
  <1> QED
    BY <1>2, <1>4, <1>5 DEF MadeOf

-----------------------------------------------------------------------------
(* The page of a saved draft is one that can be posted.                    *)

FormInv ==
    /\ FormTypeOK
    /\ \A i \in DOMAIN lines : LineOK(lines[i])
    /\ HandsetsRingANumber
    /\ SubmittedIsComplete

\* Positions of lines can be counted.
LEMMA PositionsFinite ==
    ASSUME FormTypeOK, NEW S \in SUBSET (DOMAIN lines)
    PROVE  IsFiniteSet(S) /\ Cardinality(S) \in Nat
  <1>1. DOMAIN lines = 1..Len(lines) /\ Len(lines) \in Nat
    BY DEF FormTypeOK
  <1>2. IsFiniteSet(DOMAIN lines)
    BY <1>1, FS_Interval
  <1>3. IsFiniteSet(S)
    BY <1>2, FS_Subset
  <1> QED
    BY <1>3, FS_CardinalityType

LEMMA PlacesNatural ==
    ASSUME FormTypeOK, NEW i, NEW S \in SUBSET (DOMAIN lines)
    PROVE  Place(i, S) \in Nat
  <1>1. {j \in S : j <= i} \in SUBSET (DOMAIN lines)
    OBVIOUS
  <1> QED
    BY <1>1, PositionsFinite DEF Place

\* A phone slot of the page.
LEMMA PhoneTyped ==
    ASSUME FormTypeOK, HandsetsRingANumber, \A j \in DOMAIN lines : LineOK(lines[j]),
           NEW s \in Spaces, NEW i \in SlotHeads(s)
    PROVE  PhoneFrom(s, i) \in PhoneLines
  <1>1. /\ i \in DOMAIN lines /\ lines[i] \in Lines
        /\ lines[i].parent \in (DOMAIN lines) \cup {None}
    BY DEF SlotHeads, InSpace, FormTypeOK
  <1>2. \A owner : PlacedHandsets(s, owner) \in Nat
    <2> TAKE owner
    <2>1. {j \in InSpace(s, "DESK_PHONE") : lines[j].parent = owner /\ ~lines[j].question}
            \in SUBSET (DOMAIN lines)
      BY DEF InSpace
    <2> QED
      BY <2>1, PositionsFinite DEF PlacedHandsets
  <1>3. CASE lines[i].service = "PHONE_NUMBER"
    <2>1. lines[i].delivery \in Deliveries
      BY <1>1, <1>3 DEF LineOK
    <2>2. PhoneFrom(s, i) = [source |-> SOURCE_NEW, delivery |-> lines[i].delivery,
                             texts |-> lines[i].purpose \in {"TEXT", "BOTH"},
                             handsets |-> PlacedHandsets(s, i)]
      BY <1>3 DEF PhoneFrom
    <2>3. SOURCE_NEW \in Sources
      BY DEF Sources
    <2>4. (lines[i].purpose \in {"TEXT", "BOTH"}) \in BOOLEAN
      OBVIOUS
    <2> QED
      BY <1>2, <2>1, <2>2, <2>3, <2>4 DEF PhoneLines
  <1>4. CASE lines[i].service # "PHONE_NUMBER"
    <2> DEFINE owner  == lines[i].parent
               source == IF owner = None THEN SOURCE_BLANK
                         ELSE SharingKey(lines[owner].space, OwnerPosition(owner))
    <2>1. PhoneFrom(s, i) = [source |-> source, delivery |-> "", texts |-> FALSE,
                             handsets |-> PlacedHandsets(s, owner)]
      BY <1>4 DEF PhoneFrom
    <2>2. source \in Sources
      <3>1. CASE owner = None
        BY <3>1 DEF Sources
      <3>2. CASE owner # None
        <4>1. owner \in DOMAIN lines /\ lines[owner].service = "PHONE_NUMBER"
          BY <1>1, <3>2 DEF HandsetsRingANumber
        <4>2. lines[owner].space \in Spaces
          BY <4>1 DEF LineOK
        <4>3. InSpace(lines[owner].space, "PHONE_NUMBER") \in SUBSET (DOMAIN lines)
          BY DEF InSpace
        <4>4. OwnerPosition(owner) \in Nat
          BY <4>3, PlacesNatural DEF OwnerPosition
        <4> QED
          BY <3>2, <4>2, <4>4 DEF SharingKey, Sources
      <3> QED
        BY <3>1, <3>2
    <2>3. "" \in Deliveries /\ FALSE \in BOOLEAN
      BY DEF Deliveries
    <2>4. PlacedHandsets(s, owner) \in Nat
      BY <1>2
    <2>5. ASSUME NEW x \in Sources, NEW h \in Nat
          PROVE  [source |-> x, delivery |-> "", texts |-> FALSE, handsets |-> h]
                   \in PhoneLines
      BY <2>3 DEF PhoneLines
    <2> HIDE DEF source, owner
    <2> QED
      BY <2>1, <2>2, <2>4, <2>5
  <1> QED
    BY <1>3, <1>4

LEMMA CardTyped ==
    ASSUME FormTypeOK, HandsetsRingANumber, \A j \in DOMAIN lines : LineOK(lines[j]),
           NEW s \in Spaces
    PROVE  CardFrom(s) \in SpaceAnswers
  <1> DEFINE row     == IF rows[s] = None THEN Unanswered ELSE rows[s]
             kinds   == UNION {lines[i].kinds : i \in InSpace(s, "ETHERNET")}
             printed == {lines[i].delivery : i \in InSpace(s, "PRINTER")}
  <1>1. row \in SpaceRows
    BY DEF Unanswered, SpaceRows, FormTypeOK
  <1>2. NetworkFrom(s, row) \in {"", "YES", "NO", "UNSURE"}
    BY <1>1 DEF NetworkFrom, SpaceRows
  <1>3. kinds \in SUBSET {"PRINTERS", "OTHER"}
    <2>1. \A i \in InSpace(s, "ETHERNET") : lines[i].kinds \in SUBSET {"PRINTERS", "OTHER"}
      <3>1. \A i \in InSpace(s, "ETHERNET") : lines[i] \in Lines
        BY DEF InSpace, FormTypeOK
      <3> QED
        BY <3>1 DEF Lines
    <2> QED
      BY <2>1
  <1>4. printed \in SUBSET {"ETHERNET", "USB"}
    <2>1. \A i \in InSpace(s, "PRINTER") : lines[i].delivery \in {"ETHERNET", "USB"}
      BY DEF InSpace, LineOK
    <2> QED
      BY <2>1
  <1>5. PhonesFrom(s) \in [Slots -> PhoneLines \cup {None}]
    <2> DEFINE At(n) == {i \in SlotHeads(s) : Place(i, SlotHeads(s)) = n}
               V(n)  == IF At(n) = {} THEN None
                        ELSE PhoneFrom(s, CHOOSE i \in At(n) : TRUE)
    <2>1. PhonesFrom(s) = [n \in Slots |-> V(n)]
      BY DEF PhonesFrom
    <2>2. ASSUME NEW n \in Slots PROVE V(n) \in PhoneLines \cup {None}
      <3>1. At(n) # {} => (CHOOSE i \in At(n) : TRUE) \in SlotHeads(s)
        OBVIOUS
      <3> HIDE DEF At
      <3> QED
        BY <3>1, PhoneTyped
    <2> HIDE DEF V
    <2> QED
      BY <2>1, <2>2
  <1>6. /\ row.answer \in {"", "NEEDS", "NOTHING"} /\ row.wifi \in {"", "YES", "NO"}
        /\ row.reason \in BOOLEAN
    BY <1>1 DEF SpaceRows
  <1> DEFINE answer  == row.answer
             wifi    == row.wifi
             reason  == row.reason
             network == NetworkFrom(s, row)
             phones  == PhonesFrom(s)
  <1>7. CardFrom(s) = [answer |-> answer, wifi |-> wifi, reason |-> reason,
                       network |-> network, kinds |-> kinds,
                       printers |-> printed, phones |-> phones]
    BY DEF CardFrom
  <1>8. /\ answer \in {"", "NEEDS", "NOTHING"} /\ wifi \in {"", "YES", "NO"}
        /\ reason \in BOOLEAN /\ network \in {"", "YES", "NO", "UNSURE"}
        /\ phones \in [Slots -> PhoneLines \cup {None}]
    BY <1>2, <1>5, <1>6
  <1> HIDE DEF row, kinds, printed, answer, wifi, reason, network, phones
  <1>9. [answer |-> answer, wifi |-> wifi, reason |-> reason, network |-> network,
         kinds |-> kinds, printers |-> printed, phones |-> phones] \in SpaceAnswers
    BY <1>3, <1>4, <1>8 DEF SpaceAnswers
  <1> QED
    BY <1>7, <1>9

LEMMA PageTyped ==
    ASSUME FormTypeOK, HandsetsRingANumber, \A j \in DOMAIN lines : LineOK(lines[j])
    PROVE  Page \in Answers /\ DOMAIN Page.cards = CardSpaces /\ CardSpaces \subseteq Spaces
  <1>1. CardSpaces \in SUBSET Spaces
    BY FormAssumption DEF CardSpaces
  <1>2. [s \in CardSpaces |-> CardFrom(s)] \in [CardSpaces -> SpaceAnswers]
    BY <1>1, CardTyped
  <1>3. SavedPayments \in PaymentsAnswers \cup {None}
    <2> DEFINE saved == {i \in DOMAIN lines : lines[i].service = "PAYMENTS"}
               i     == CHOOSE j \in saved : TRUE
    <2>1. CASE saved = {}
      BY <2>1 DEF SavedPayments
    <2>2. CASE saved # {}
      <3>1. i \in DOMAIN lines
        BY <2>2
      <3>2. lines[i] \in Lines
        BY <3>1 DEF FormTypeOK
      <3>3. SavedPayments = [home |-> lines[i].space, complete |-> lines[i].complete]
        BY <2>2 DEF SavedPayments
      <3> HIDE DEF i
      <3> QED
        BY <3>2, <3>3 DEF Lines, PaymentsAnswers
    <2> QED
      BY <2>1, <2>2
  <1>4. noServices \in BOOLEAN
    BY DEF FormTypeOK
  <1>5. [s \in CardSpaces |-> CardFrom(s)] \in UNION {[S -> SpaceAnswers] : S \in SUBSET Spaces}
    BY <1>1, <1>2
  <1>6. (\E i \in DOMAIN lines : lines[i].service = "OTHER") \in BOOLEAN
    OBVIOUS
  <1>7. Page.cards = [s \in CardSpaces |-> CardFrom(s)]
    BY DEF Page
  <1>8. Page \in Answers
    BY <1>3, <1>4, <1>5, <1>6, Zenon DEF Page, Answers
  <1> QED
    BY <1>1, <1>7, <1>8

-----------------------------------------------------------------------------
(* What a save leaves.                                                     *)

Cards == UNION {[S -> SpaceAnswers] : S \in SUBSET Spaces}

LEMMA AnswersWith ==
    ASSUME NEW a \in Answers
    PROVE  /\ \A cards \in Cards : [a EXCEPT !.cards = cards] \in Answers
           /\ \A b \in BOOLEAN : /\ [a EXCEPT !.wide = b] \in Answers
                                 /\ [a EXCEPT !.noServices = b] \in Answers
           /\ \A payments \in PaymentsAnswers \cup {None} :
                [a EXCEPT !.payments = payments] \in Answers
  BY DEF Answers, Cards

LEMMA ParsedCard ==
    ASSUME NEW c \in SpaceAnswers
    PROVE  ParseSpace(c) \in SpaceAnswers
  <1> DEFINE V(i) == IF c.phones[i] = None THEN None
                     ELSE IF BlankSlot(c.phones[i]) THEN None ELSE c.phones[i]
             phones == [i \in Slots |-> V(i)]
             reason == c.reason /\ c.wifi # "YES"
  <1>1. ParseSpace(c) = [c EXCEPT !.reason = reason, !.phones = phones]
    BY DEF ParseSpace
  <1>2. \A i \in Slots : c.phones[i] \in PhoneLines \cup {None}
    BY DEF SpaceAnswers
  <1>3. \A i \in Slots : V(i) \in PhoneLines \cup {None}
    BY <1>2
  <1> HIDE DEF V
  <1>4. phones \in [Slots -> PhoneLines \cup {None}]
    BY <1>3
  <1>5. reason \in BOOLEAN
    OBVIOUS
  <1> HIDE DEF phones, reason
  <1> QED
    BY <1>1, <1>4, <1>5 DEF SpaceAnswers

LEMMA ParsedTyped ==
    ASSUME NEW a \in Answers
    PROVE  ParseForm(a) \in Answers
  <1> DEFINE cards == [s \in DOMAIN a.cards |-> ParseSpace(a.cards[s])]
  <1>1. DOMAIN a.cards \in SUBSET Spaces /\ \A s \in DOMAIN a.cards : a.cards[s] \in SpaceAnswers
    BY DEF Answers
  <1>2. cards \in [DOMAIN a.cards -> SpaceAnswers]
    BY <1>1, ParsedCard
  <1>3. cards \in Cards
    BY <1>1, <1>2 DEF Cards
  <1> HIDE DEF cards
  <1>4. [a EXCEPT !.cards = cards] \in Answers
    BY <1>3, AnswersWith
  <1> QED
    BY <1>4 DEF cards, ParseForm

\* A save makes lines of the right form, whatever was answered.
LEMMA SaveKeeps ==
    ASSUME NEW a \in Answers, Save(a)
    PROVE  /\ noServices' \in BOOLEAN
           /\ rows' \in [Spaces -> SpaceRows \cup {None}]
           /\ lines' \in Seq(Lines)
           /\ \A i \in DOMAIN lines' : lines'[i].parent \in (DOMAIN lines') \cup {None}
           /\ \A i \in DOMAIN lines' : LineOK(lines'[i])
           /\ HandsetsRingANumber'
  <1>1. lines' = ExpandToLines(a) /\ rows' = RowsOf(a) /\ noServices' = a.noServices
    BY DEF Save, RowsOf
  <1>2. noServices' \in BOOLEAN
    BY <1>1 DEF Answers
  <1>3. rows' \in [Spaces -> SpaceRows \cup {None}]
    BY <1>1, RowsHave
  <1>4. lines' \in Seq(Lines)
    BY <1>1, ExpandHas
  <1>5. \A i \in DOMAIN lines' : lines'[i].parent # None =>
            /\ lines'[i].service = "DESK_PHONE"
            /\ lines'[i].parent \in DOMAIN lines'
            /\ lines'[lines'[i].parent].service = "PHONE_NUMBER"
            /\ lines'[lines'[i].parent].delivery # "NONE"
    BY <1>1, SavedHandsets
  <1>6. \A i \in DOMAIN lines' : LineOK(lines'[i])
    BY <1>1, SavedLines
  <1>7. HandsetsRingANumber'
    BY <1>5 DEF HandsetsRingANumber
  <1> QED
    BY <1>2, <1>3, <1>4, <1>5, <1>6, <1>7

\* A form that was accepted leaves a request that is whole.
LEMMA AcceptedIsComplete ==
    ASSUME NEW a \in Answers, Save(a), Accepted(a)
    PROVE  SubmittedIsComplete'
  <1> DEFINE out == ExpandToLines(a)
  <1>1. /\ lines' = out /\ rows' = RowsOf(a) /\ noServices' = a.noServices
        /\ out = ExpandToLines(a)
    BY DEF Save, RowsOf
  <1> HIDE DEF out
  <1>2. /\ \A s \in Spaces : rows'[s] # None <=> s \in DOMAIN a.cards
        /\ \A s \in DOMAIN a.cards :
             /\ s \in Spaces /\ rows'[s].answer = a.cards[s].answer
             /\ rows'[s].reason = a.cards[s].reason
    BY <1>1, RowsHave
  <1>3. ASSUME noServices' PROVE \A s \in Spaces : rows'[s] = None
    <2>1. DOMAIN a.cards = {}
      BY <1>1, <1>3 DEF Accepted
    <2> QED
      BY <1>2, <2>1
  <1>4. ASSUME NEW s \in Spaces, rows'[s] # None
        PROVE  /\ rows'[s].answer # ""
               /\ \E i \in DOMAIN lines' : lines'[i].space = s
               /\ (InSpace(s, "PHONE_NUMBER")' # {} /\ InSpace(s, "WIFI")' = {})
                       => rows'[s].reason
               /\ (\E i \in InSpace(s, "PRINTER")' : lines'[i].delivery = "ETHERNET")
                       => InSpace(s, "ETHERNET")' # {}
    <2>1. s \in DOMAIN a.cards
      BY <1>2, <1>4
    <2>2. CardShown(a.cards[s], s, out)
      BY <1>1, <2>1, CardAccepted
    <2>3. \A service :
             InSpace(s, service)' = {i \in DOMAIN out : out[i].space = s /\ out[i].service = service}
      BY <1>1 DEF InSpace
    <2>4. rows'[s].answer = a.cards[s].answer /\ rows'[s].reason = a.cards[s].reason
      BY <1>2, <2>1
    <2>5. rows'[s].answer # "" /\ \E i \in DOMAIN lines' : lines'[i].space = s
      BY <1>1, <2>2, <2>4 DEF CardShown
    <2>6. (InSpace(s, "PHONE_NUMBER")' # {} /\ InSpace(s, "WIFI")' = {}) => rows'[s].reason
      BY <2>2, <2>3, <2>4 DEF CardShown
    <2>7. (\E i \in InSpace(s, "PRINTER")' : lines'[i].delivery = "ETHERNET")
              => InSpace(s, "ETHERNET")' # {}
      BY <1>1, <2>2, <2>3 DEF CardShown
    <2> QED
      BY <2>5, <2>6, <2>7
  <1>5. ASSUME NEW i \in DOMAIN lines'
        PROVE  /\ lines'[i].service = "DESK_PHONE" =>
                    \/ lines'[i].parent # None
                    \/ \E s \in Spaces : rows'[s] # None /\ rows'[s].answer = "NOTHING"
               /\ lines'[i].service = "PAYMENTS" =>
                    /\ lines'[i].complete
                    /\ lines'[i].space # None /\ rows'[lines'[i].space].answer = "NEEDS"
               /\ (lines'[i].service = "PHONE_NUMBER" /\ lines'[i].purpose = None)
                       => lines'[i].question
    <2>1. LineOK(out[i])
      BY <1>1, <1>5, SavedLines
    <2>2. /\ out[i].service = "DESK_PHONE" =>
                \/ out[i].parent # None
                \/ \E s \in DOMAIN a.cards : a.cards[s].answer = "NOTHING"
          /\ out[i].service = "PAYMENTS" =>
                /\ out[i].complete /\ out[i].space \in DOMAIN a.cards
                /\ a.cards[out[i].space].answer = "NEEDS"
      BY <1>1, <1>5, LineAccepted
    <2>3. None \notin Spaces
      BY FormAssumption
    <2>4. \A s \in DOMAIN a.cards : s \in Spaces /\ s # None /\ rows'[s] # None
                                    /\ rows'[s].answer = a.cards[s].answer
      BY <1>2, <2>3
    <2>5. ASSUME out[i].service = "DESK_PHONE", out[i].parent = None
          PROVE  \E s \in Spaces : rows'[s] # None /\ rows'[s].answer = "NOTHING"
      <3>1. PICK s \in DOMAIN a.cards : a.cards[s].answer = "NOTHING"
        BY <2>2, <2>5
      <3> QED
        BY <2>4, <3>1
    <2>6. ASSUME out[i].service = "PAYMENTS"
          PROVE  /\ out[i].complete
                 /\ out[i].space # None /\ rows'[out[i].space].answer = "NEEDS"
      BY <2>2, <2>4, <2>6
    <2> QED
      BY <1>1, <2>1, <2>5, <2>6 DEF LineOK
  <1> QED
    BY <1>3, <1>4, <1>5 DEF SubmittedIsComplete

LEMMA PostKeeps ==
    ASSUME FormInv, NEW posted \in Answers, Post(posted)
    PROVE  FormInv'
  <1> DEFINE a == ParseForm(posted)
  <1>1. a \in Answers
    BY ParsedTyped
  <1>2. Save(a)
    BY DEF Post
  <1>3. \/ status' = "DRAFT" /\ UNCHANGED checked
        \/ Accepted(a) /\ status' = "SUBMITTED" /\ checked' = TRUE
    BY DEF Post
  <1> HIDE DEF a
  <1>4. /\ noServices' \in BOOLEAN
        /\ rows' \in [Spaces -> SpaceRows \cup {None}]
        /\ lines' \in Seq(Lines)
        /\ \A i \in DOMAIN lines' : lines'[i].parent \in (DOMAIN lines') \cup {None}
        /\ \A i \in DOMAIN lines' : LineOK(lines'[i])
        /\ HandsetsRingANumber'
    BY <1>1, <1>2, SaveKeeps
  <1>5. status' \in {None, "DRAFT", "SUBMITTED"} /\ checked' \in BOOLEAN
    BY <1>3 DEF FormInv, FormTypeOK
  <1>6. FormTypeOK'
    BY <1>4, <1>5 DEF FormTypeOK
  <1>7. SubmittedIsComplete'
    <2>1. CASE status' = "DRAFT"
      BY <2>1 DEF SubmittedIsComplete
    <2>2. CASE Accepted(a)
      BY <1>1, <1>2, <2>2, AcceptedIsComplete
    <2> QED
      BY <1>3, <2>1, <2>2
  <1> QED
    BY <1>4, <1>6, <1>7 DEF FormInv

-----------------------------------------------------------------------------
(* The theorems.                                                           *)

LEMMA FormInitInv == FormInit => FormInv
  <1> SUFFICES ASSUME FormInit PROVE FormInv
    OBVIOUS
  <1>1. lines = <<>> /\ DOMAIN lines = {} /\ checked = FALSE /\ status = None
    BY DEF FormInit
  <1>2. lines \in Seq(Lines)
    BY <1>1
  <1>3. FormTypeOK
    BY <1>1, <1>2 DEF FormInit, FormTypeOK
  <1>4. HandsetsRingANumber
    BY <1>1 DEF HandsetsRingANumber
  <1>5. SubmittedIsComplete
    BY <1>1 DEF SubmittedIsComplete
  <1> QED
    BY <1>1, <1>3, <1>4, <1>5 DEF FormInv

LEMMA FormNextInv == FormInv /\ [FormNext]_formVars => FormInv'
  <1> SUFFICES ASSUME FormInv, [FormNext]_formVars PROVE FormInv'
    OBVIOUS
  <1>1. Page \in Answers /\ DOMAIN Page.cards = CardSpaces /\ CardSpaces \subseteq Spaces
    BY PageTyped DEF FormInv
  <1>2. \A s \in CardSpaces : Page.cards[s] \in SpaceAnswers
    BY <1>1 DEF Answers
  <1>3. CASE \E s \in Spaces : PostCard(s)
    <2>1. PICK s \in Spaces, c \in Typed :
            Post([Page EXCEPT !.cards = [t \in DOMAIN Page.cards \cup {s} |->
                                            IF t = s THEN c ELSE Page.cards[t]]])
      BY <1>3 DEF PostCard
    <2> DEFINE S     == DOMAIN Page.cards \cup {s}
               cards == [t \in S |-> IF t = s THEN c ELSE Page.cards[t]]
    <2>2. c \in SpaceAnswers
      BY FormAssumption
    <2>3. S \in SUBSET Spaces /\ cards \in [S -> SpaceAnswers]
      BY <1>1, <1>2, <2>2
    <2>4. cards \in Cards
      BY <2>3 DEF Cards
    <2>5. Post([Page EXCEPT !.cards = cards])
      BY <2>1
    <2> HIDE DEF cards
    <2>6. [Page EXCEPT !.cards = cards] \in Answers
      BY <1>1, <2>4, AnswersWith
    <2> QED
      BY <2>5, <2>6, PostKeeps
  <1>4. CASE \E s \in Spaces : RemoveCard(s)
    <2>1. PICK s \in Spaces :
            Post([Page EXCEPT !.cards = [t \in DOMAIN Page.cards \ {s} |-> Page.cards[t]]])
      BY <1>4 DEF RemoveCard
    <2> DEFINE S     == DOMAIN Page.cards \ {s}
               cards == [t \in S |-> Page.cards[t]]
    <2>2. S \in SUBSET Spaces /\ cards \in [S -> SpaceAnswers]
      BY <1>1, <1>2
    <2>3. cards \in Cards
      BY <2>2 DEF Cards
    <2>4. Post([Page EXCEPT !.cards = cards])
      BY <2>1
    <2> HIDE DEF cards
    <2>5. [Page EXCEPT !.cards = cards] \in Answers
      BY <1>1, <2>3, AnswersWith
    <2> QED
      BY <2>4, <2>5, PostKeeps
  <1>5. CASE PostUnchanged
    BY <1>1, <1>5, PostKeeps DEF PostUnchanged
  <1>6. CASE \E b \in BOOLEAN : PostWide(b)
    BY <1>1, <1>6, AnswersWith, PostKeeps DEF PostWide
  <1>7. CASE \E b \in BOOLEAN : PostNoServices(b)
    BY <1>1, <1>7, AnswersWith, PostKeeps DEF PostNoServices
  <1>8. CASE PostPayments
    <2>1. PICK payments \in PaymentsAnswers \cup {None} :
            Post([Page EXCEPT !.payments = payments])
      BY <1>8 DEF PostPayments
    <2> QED
      BY <1>1, <2>1, AnswersWith, PostKeeps
  <1>9. CASE SubmitFromDetail
    <2>1. /\ status' = "SUBMITTED" /\ checked' = FALSE
          /\ rows' = rows /\ noServices' = noServices /\ lines' = lines
      BY <1>9 DEF SubmitFromDetail
    <2> QED
      BY <2>1 DEF FormInv, FormTypeOK, HandsetsRingANumber, SubmittedIsComplete
  <1>10. CASE ReturnToDraft
    <2>1. /\ status' = "DRAFT" /\ checked' = checked
          /\ rows' = rows /\ noServices' = noServices /\ lines' = lines
      BY <1>10 DEF ReturnToDraft
    <2> QED
      BY <2>1 DEF FormInv, FormTypeOK, HandsetsRingANumber, SubmittedIsComplete
  <1>11. CASE UNCHANGED formVars
    <2>1. /\ status' = status /\ checked' = checked
          /\ rows' = rows /\ noServices' = noServices /\ lines' = lines
      BY <1>11 DEF formVars
    <2>2. FormTypeOK' /\ HandsetsRingANumber' /\ \A i \in DOMAIN lines' : LineOK(lines'[i])
      BY <2>1 DEF FormInv, FormTypeOK, HandsetsRingANumber
    <2>3. \A s, service : InSpace(s, service)' = InSpace(s, service)
      BY <2>1 DEF InSpace
    <2>4. SubmittedIsComplete'
      BY <2>1, <2>3 DEF FormInv, SubmittedIsComplete
    <2> QED
      BY <2>2, <2>4 DEF FormInv
  <1> QED
    BY <1>3, <1>4, <1>5, <1>6, <1>7, <1>8, <1>9, <1>10, <1>11 DEF FormNext

\* The inductive invariant of the form: what the properties below say, and what
\* each column of a saved line says of the others, so that the page rebuilt from
\* the lines is again one that can be posted.
THEOREM FormInvariant == FormSpec => []FormInv
  BY FormInitInv, FormNextInv, PTL DEF FormSpec

\* Whatever is posted, in whatever order, the saved rows and lines keep their
\* types, and a line's parent_line is a line of the same request.
THEOREM FormTypeCorrect == FormSpec => []FormTypeOK
  <1>1. FormInv => FormTypeOK
    BY DEF FormInv
  <1> QED
    BY <1>1, FormInvariant, PTL

\* expand_to_lines links a desk phone by position, in a list from which other
\* desk phones were dropped, and never to a line that is no number or to one
\* without voice: for every venue, every number of slots, and every card.
THEOREM HandsetsAlwaysRing == FormSpec => []HandsetsRingANumber
  <1>1. FormInv => HandsetsRingANumber
    BY DEF FormInv
  <1> QED
    BY <1>1, FormInvariant, PTL

\* What validate() accepts expands to lines that are whole, whatever drafts were
\* saved before it and whatever page the last of them left.
THEOREM SubmittedAlwaysComplete == FormSpec => []SubmittedIsComplete
  <1>1. FormInv => SubmittedIsComplete
    BY DEF FormInv
  <1> QED
    BY <1>1, FormInvariant, PTL

=============================================================================
