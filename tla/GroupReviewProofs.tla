-------------------------- MODULE GroupReviewProofs --------------------------
(***************************************************************************)
(* For any number of lines and of requests under way together, of which    *)
(* those that save the form are not overlapped: the request is FINALIZED   *)
(* exactly when every line is decided, a department that takes it back     *)
(* erases no answer, the overlapping handlers implement ItemReview, where  *)
(* every step is one decision, reopening, submission or return, and the    *)
(* staff's pages (GroupPages) agree, for any number of teams.              *)
(*                                                                         *)
(* What makes FinalizedIffDecided inductive is what the handlers find      *)
(* after their locks: reviews exist exactly while the request is out of    *)
(* the department's hands (so a stale page has no review to decide), it is *)
(* never out without lines, and a submit still under way has lines to      *)
(* submit unless a save deleted them under it.                             *)
(***************************************************************************)
EXTENDS GroupPages, FiniteSetTheorems, TLAPS

\* A request under way while the item has status st and lines ls.
RequestOK(r, st, ls) ==
    /\ r.op \in LineOps => r.line \in Lines /\ r.seen \in Columns
    /\ r.op \in FormOps => st = "DRAFT"
    /\ r.op = "SUBMIT" /\ ~r.gone => ls # {}

IInv ==
    /\ TypeOK
    /\ ReviewsWhileSubmitted
    /\ status # "DRAFT" => lines # {}
    /\ \A s \in Slots : req[s] # NULL => RequestOK(req[s], status, lines)
    /\ FinalizedIffDecided

-----------------------------------------------------------------------------
(* Operations and requests.                                                *)

LEMMA VerdictOfAction ==
    ASSUME NEW a \in Actions
    PROVE  /\ Verdict[a] \in Kickbacks \cup Verdicts
           /\ a \notin {"REOPEN", "RESPOND"}
           /\ a \notin FormOps \cup ReturnOps \cup {"SUBMIT"}
BY GroupAssumption DEF Verdict, Kickbacks, Verdicts, FormOps, ReturnOps

LEMMA LineOpIsNoOther ==
    ASSUME NEW op \in LineOps
    PROVE  op \notin FormOps \cup ReturnOps \cup {"SUBMIT"}
BY VerdictOfAction DEF LineOps, FormOps, ReturnOps

LEMMA ReqIsRequest ==
    ASSUME TypeOK, NEW s \in Slots, req[s] # NULL
    PROVE  req[s] \in Request
BY DEF TypeOK

\* What a decision that was accepted found after its locks.
LEMMA AcceptedDecision ==
    ASSUME IInv, NEW s \in Slots, req[s] # NULL, req[s].op \in LineOps,
           DecisionAccepted(req[s])
    PROVE  /\ req[s].line \in lines /\ req[s].line \in Lines
           /\ status \in {"SUBMITTED", "FINALIZED"}
           /\ \/ /\ req[s].op = "REOPEN"
                 /\ review[req[s].line] \in {"APPROVED", "REJECTED"}
              \/ /\ req[s].op = "RESPOND"
                 /\ review[req[s].line] \in Kickbacks
              \/ /\ req[s].op \in Actions
                 /\ review[req[s].line] = "PENDING"
           /\ Result(req[s].op) \in ReviewStatus
<1> DEFINE r == req[s]
           l == r.line
<1>1. l \in Lines /\ status # "DRAFT"
  BY DEF IInv, RequestOK, DecisionAccepted
<1>2. TransitionAllowed(r)
  BY DEF DecisionAccepted
<1>6. \/ r.op = "REOPEN" /\ review[l] \in {"APPROVED", "REJECTED"}
      \/ r.op = "RESPOND" /\ review[l] \in Kickbacks
      \/ r.op \in Actions /\ review[l] = "PENDING"
  <2>1. r.op \in Actions \/ r.op = "REOPEN" \/ r.op = "RESPOND"
    BY DEF LineOps
  <2>2. CASE r.op \in Actions
    BY <1>2, <2>2, VerdictOfAction DEF TransitionAllowed
  <2>3. QED
    BY <1>2, <2>1, <2>2 DEF TransitionAllowed
<1>7. review[l] # NULL
  BY <1>6, GroupAssumption DEF ReviewStatus, Kickbacks, Verdicts
<1>8. l \in lines
  BY <1>1, <1>7 DEF IInv, ReviewsWhileSubmitted
<1>9. Result(r.op) \in ReviewStatus
  <2>1. CASE r.op \in Actions
    BY <2>1, VerdictOfAction DEF Result, ReviewStatus
  <2>2. CASE r.op \in {"REOPEN", "RESPOND"}
    BY <2>2 DEF Result, ReviewStatus
  <2>3. QED
    BY <2>1, <2>2 DEF LineOps
<1>10. QED
  BY <1>1, <1>6, <1>8, <1>9 DEF IInv, TypeOK

-----------------------------------------------------------------------------
(* The request row, the lines and the reviews.                             *)

\* The part of the invariant that does not speak of requests under way.
ItemInv ==
    /\ status \in {"DRAFT", "SUBMITTED", "FINALIZED"}
    /\ lines \subseteq Lines
    /\ line \in [Lines -> Columns]
    /\ review \in [Lines -> ReviewStatus \cup {NULL}]
    /\ ReviewsWhileSubmitted
    /\ status # "DRAFT" => lines # {}
    /\ FinalizedIffDecided

LEMMA IInvSplit ==
    IInv <=> /\ ItemInv
             /\ deadlinePassed \in BOOLEAN
             /\ req \in [Slots -> Request \cup {NULL}]
             /\ \A s \in Slots : req[s] # NULL => RequestOK(req[s], status, lines)
BY DEF IInv, ItemInv, TypeOK

LEMMA SyncedTyped ==
    ASSUME NEW seen \in Columns, NEW new \in ReviewStatus, NEW current \in Columns
    PROVE  SyncedLine(seen, new, current) \in Columns
<1> DEFINE flag == new \in Kickbacks
<1>f. flag \in BOOLEAN
  OBVIOUS
<1>1. current.status \in ReviewStatus /\ current.needsAction \in BOOLEAN
  BY DEF Columns
<1>2. (IF new = seen.status THEN current.status ELSE new) \in ReviewStatus
  BY <1>1
<1>3. (IF flag = seen.needsAction THEN current.needsAction ELSE flag) \in BOOLEAN
  <2> HIDE DEF flag
  <2>1. QED
    BY <1>f, <1>1
<1>4. QED
  BY <1>2, <1>3 DEF SyncedLine, Columns

\* A decision leaves the status and the reviews in step: the flush of the
\* verdict and the look at all reviews are under one lock.
LEMMA DecisionKeepsItem ==
    ASSUME IInv, NEW s \in Slots, req[s] # NULL, FinishDecision(s)
    PROVE  ItemInv' /\ status' # "DRAFT" /\ lines' = lines
<1> DEFINE r == req[s]
           l == r.line
           new == Result(r.op)
<1>1. /\ l \in lines /\ l \in Lines
      /\ status \in {"SUBMITTED", "FINALIZED"}
      /\ \/ r.op = "REOPEN" /\ review[l] \in {"APPROVED", "REJECTED"}
         \/ r.op = "RESPOND" /\ review[l] \in Kickbacks
         \/ r.op \in Actions /\ review[l] = "PENDING"
      /\ new \in ReviewStatus
  BY AcceptedDecision DEF FinishDecision
<1>2. /\ review' = [review EXCEPT ![l] = new]
      /\ line' = [line EXCEPT ![l] = SyncedLine(r.seen, new, line[l])]
      /\ status' = AutoFinalized(StatusAfter(r.op), review')
      /\ lines' = lines
  BY DEF FinishDecision, Decision
<1>3. review' \in [Lines -> ReviewStatus \cup {NULL}]
  BY <1>1, <1>2 DEF IInv, TypeOK
<1>4. line' \in [Lines -> Columns]
  BY <1>1, <1>2, SyncedTyped DEF IInv, TypeOK, RequestOK, FinishDecision
<1>5. \A k \in Lines : review'[k] # NULL <=> k \in lines
  <2>1. new # NULL
    BY <1>1, GroupAssumption
  <2>2. \A k \in Lines : review'[k] = IF k = l THEN new ELSE review[k]
    BY <1>1, <1>2 DEF IInv, TypeOK
  <2>3. \A k \in Lines : review[k] # NULL <=> k \in lines
    BY <1>1 DEF IInv, ReviewsWhileSubmitted
  <2>4. QED
    BY <1>1, <2>1, <2>2, <2>3
<1>6. StatusAfter(r.op) = "SUBMITTED" \/ StatusAfter(r.op) = "FINALIZED"
  BY <1>1 DEF StatusAfter
<1>7. Undecided(review') = {} <=> \A k \in lines : review'[k] \in Verdicts
  <2>1. \A k \in Lines : review'[k] \in {"PENDING"} \cup Kickbacks
                             <=> k \in lines /\ review'[k] \notin Verdicts
    BY <1>3, <1>5, GroupAssumption DEF ReviewStatus, Kickbacks, Verdicts
  <2>2. QED
    BY <2>1 DEF Undecided, IInv, TypeOK
<1>8. Undecided(review') = {} => status' = "FINALIZED"
  <2>1. \E k \in Lines : review'[k] # NULL
    BY <1>1, <1>5
  <2>2. QED
    BY <1>2, <2>1 DEF AutoFinalized
<1>9. Undecided(review') # {} => status' = "SUBMITTED"
  <2>1. Undecided(review') # {} => status' = StatusAfter(r.op)
    BY <1>2 DEF AutoFinalized
  <2>2. r.op = "REOPEN" => StatusAfter(r.op) = "SUBMITTED"
    BY <1>1 DEF StatusAfter
  <2>3. r.op # "REOPEN" => status = "SUBMITTED" /\ StatusAfter(r.op) = status
    <3>1. r.op # "REOPEN" => review[l] \notin Verdicts
      BY <1>1 DEF Kickbacks, Verdicts
    <3>2. QED
      BY <1>1, <3>1 DEF IInv, FinalizedIffDecided, StatusAfter
  <2>4. QED
    BY <2>1, <2>2, <2>3
<1>10. status' \in {"SUBMITTED", "FINALIZED"}
  BY <1>8, <1>9
<1>11. ReviewsWhileSubmitted' /\ FinalizedIffDecided'
  BY <1>2, <1>5, <1>7, <1>8, <1>9, <1>10 DEF ReviewsWhileSubmitted, FinalizedIffDecided
<1>12. QED
  BY <1>1, <1>2, <1>3, <1>4, <1>10, <1>11 DEF ItemInv, IInv, TypeOK

LEMMA SubmitKeepsItem ==
    ASSUME IInv, NEW s \in Slots, req[s] # NULL, FinishSubmit(s)
    PROVE  ItemInv' /\ status = "DRAFT" /\ status' = "SUBMITTED"
           /\ lines' = lines /\ lines # {}
<1>1. ~req[s].gone /\ \A l \in lines : review[l] = NULL
  BY DEF FinishSubmit, SubmitAccepted
<1>2. lines # {}
  BY <1>1 DEF IInv, RequestOK, FinishSubmit
<1>3. status = "DRAFT"
  BY <1>1, <1>2 DEF IInv, ReviewsWhileSubmitted, TypeOK
<1>4. /\ status' = "SUBMITTED" /\ lines' = lines /\ line' = line
      /\ review' = [l \in Lines |-> IF l \in lines THEN "PENDING" ELSE review[l]]
  BY DEF FinishSubmit, Submitted
<1>5. "PENDING" \in ReviewStatus /\ "PENDING" # NULL /\ "PENDING" \notin Verdicts
  BY GroupAssumption DEF ReviewStatus, Verdicts
<1>6. review' \in [Lines -> ReviewStatus \cup {NULL}]
  BY <1>4, <1>5 DEF IInv, TypeOK
<1>7. ReviewsWhileSubmitted'
  BY <1>3, <1>4, <1>5 DEF IInv, ReviewsWhileSubmitted
<1>8. FinalizedIffDecided'
  BY <1>2, <1>4, <1>5 DEF IInv, TypeOK, FinalizedIffDecided
<1>9. QED
  BY <1>2, <1>3, <1>4, <1>6, <1>7, <1>8 DEF ItemInv, IInv, TypeOK

LEMMA ReturnKeepsItem ==
    ASSUME IInv, NEW s \in Slots, FinishReturn(s)
    PROVE  /\ ItemInv' /\ status # "DRAFT" /\ status' = "DRAFT" /\ lines' = lines
           /\ \A l \in Lines : review'[l] = NULL
<1>1. status # "DRAFT"
  BY DEF FinishReturn, PullBackAccepted, SendBackAccepted
<1>2. /\ status' = "DRAFT" /\ lines' = lines
      /\ line' = [l \in Lines |-> IF l \in lines THEN Fresh ELSE line[l]]
      /\ review' = [l \in Lines |-> IF l \in lines THEN NULL ELSE review[l]]
  BY DEF FinishReturn, Returned
<1>3. \A l \in Lines : review'[l] = NULL
  BY <1>1, <1>2 DEF IInv, ReviewsWhileSubmitted
<1>4. Fresh \in Columns
  BY DEF Fresh, Columns, ReviewStatus
<1>5. QED
  BY <1>1, <1>2, <1>3, <1>4 DEF ItemInv, IInv, TypeOK, ReviewsWhileSubmitted,
                                FinalizedIffDecided

LEMMA SaveKeepsItem ==
    ASSUME IInv, status = "DRAFT", NEW S \in SUBSET Lines, Saved(S)
    PROVE  ItemInv' /\ status' = "DRAFT" /\ lines' = S
           /\ \A l \in Lines : review'[l] = NULL
<1>1. Fresh \in Columns
  BY DEF Fresh, Columns, ReviewStatus
<1>2. QED
  BY <1>1 DEF Saved, ItemInv, ReviewsWhileSubmitted, FinalizedIffDecided

-----------------------------------------------------------------------------
(* The requests under way.                                                 *)

LEMMA OpsOfLists ==
    /\ FormOps \subseteq Ops /\ ReturnOps \subseteq Ops /\ LineOps \subseteq Ops
    /\ "SUBMIT" \in Ops
    /\ "SUBMIT" \notin FormOps \cup ReturnOps \cup LineOps
    /\ FormOps \cap ReturnOps = {}
    /\ LineOps \cap (FormOps \cup ReturnOps) = {}
BY LineOpIsNoOther DEF Ops, FormOps, ReturnOps

\* A new request, opened on what it loaded.
LEMMA OpensKeepsInv ==
    ASSUME IInv, NEW s \in Slots, NEW op \in Ops, NEW l \in Lines \cup {NULL},
           NEW seen \in Columns \cup {NULL}, Opens(s, op, l, seen),
           op \in LineOps => l \in Lines /\ seen \in Columns,
           op \in FormOps => status = "DRAFT",
           op = "SUBMIT" => lines # {}
    PROVE  IInv'
<1> DEFINE new == [op |-> op, line |-> l, seen |-> seen, gone |-> FALSE]
<1>1. new \in Request /\ RequestOK(new, status, lines)
  BY DEF Request, RequestOK
<1>2. /\ req' = [req EXCEPT ![s] = new]
      /\ status' = status /\ lines' = lines /\ line' = line /\ review' = review
      /\ deadlinePassed' = deadlinePassed
  BY DEF Opens, itemVars
<1>3. \A t \in Slots : req'[t] = IF t = s THEN new ELSE req[t]
  BY <1>2 DEF IInv, TypeOK
<1>4. ItemInv'
  BY <1>2, IInvSplit DEF ItemInv, ReviewsWhileSubmitted, FinalizedIffDecided
<1>5. req' \in [Slots -> Request \cup {NULL}]
  BY <1>1, <1>2 DEF IInv, TypeOK
<1>6. \A t \in Slots : req'[t] # NULL => RequestOK(req'[t], status', lines')
  BY <1>1, <1>2, <1>3 DEF IInv, RequestOK
<1>7. QED
  BY <1>2, <1>4, <1>5, <1>6 DEF IInv, ItemInv, TypeOK, RequestOK

LEMMA BeginKeepsInv ==
    ASSUME IInv, NEW s \in Slots, Begin(s)
    PROVE  IInv'
<1>1. CASE BeginSubmit(s)
  BY <1>1, OpensKeepsInv, OpsOfLists DEF BeginSubmit
<1>2. CASE BeginForm(s)
  BY <1>2, OpensKeepsInv, OpsOfLists DEF BeginForm
<1>3. CASE BeginReturn(s)
  BY <1>3, OpensKeepsInv, OpsOfLists DEF BeginReturn
<1>4. ASSUME NEW l \in Lines, BeginOnLine(s, l)
      PROVE  IInv'
  <2>1. PICK op \in LineOps : Opens(s, op, l, line[l])
    BY <1>4 DEF BeginOnLine
  <2>2. line[l] \in Columns
    BY DEF IInv, TypeOK
  <2>3. QED
    BY <2>1, <2>2, OpensKeepsInv, OpsOfLists
<1>5. QED
  BY <1>1, <1>2, <1>3, <1>4 DEF Begin

\* A request that ends leaves the others as they were, or gone.
LEMMA ClosesTyped ==
    ASSUME IInv, NEW s \in Slots, NEW lost, Closes(s, lost)
    PROVE  /\ req' \in [Slots -> Request \cup {NULL}]
           /\ req'[s] = NULL
           /\ \A t \in Slots \ {s} :
                 \/ req'[t] = req[t] /\ (req[t] = NULL \/ req[t].op \notin lost)
                 \/ /\ req[t] # NULL /\ req'[t] \in Request
                    /\ req'[t].op = req[t].op /\ req'[t].line = req[t].line
                    /\ req'[t].seen = req[t].seen /\ req'[t].gone
<1>1. \A t \in Slots : req[t] # NULL => req[t] \in Request
  BY DEF IInv, TypeOK
<1>2. \A t \in Slots : req[t] # NULL =>
          /\ [req[t] EXCEPT !.gone = TRUE] \in Request
          /\ [req[t] EXCEPT !.gone = TRUE].op = req[t].op
          /\ [req[t] EXCEPT !.gone = TRUE].line = req[t].line
          /\ [req[t] EXCEPT !.gone = TRUE].seen = req[t].seen
          /\ [req[t] EXCEPT !.gone = TRUE].gone
  BY <1>1 DEF Request
<1>3. QED
  BY <1>1, <1>2 DEF Closes

\* A request that is not the last to hold a form keeps what it was opened on.
LEMMA ClosesKeepsInv ==
    ASSUME IInv, ItemInv', NEW s \in Slots, NEW lost, Closes(s, lost),
           deadlinePassed' = deadlinePassed,
           \/ status' = "DRAFT"
           \/ \A t \in Slots \ {s} : req[t] # NULL => req[t].op \notin FormOps,
           lines' # {} \/ lines' = lines \/ "SUBMIT" \in lost
    PROVE  IInv'
<1>1. \A t \in Slots : req'[t] # NULL => t \in Slots \ {s}
  BY ClosesTyped
<1>2. ASSUME NEW t \in Slots, req'[t] # NULL
      PROVE  RequestOK(req'[t], status', lines')
  <2>1. t \in Slots \ {s} /\ req[t] # NULL
    BY <1>1, <1>2, ClosesTyped
  <2>2. RequestOK(req[t], status, lines)
    BY <2>1 DEF IInv
  <2>3. CASE req'[t] = req[t] /\ req[t].op \notin lost
    BY <2>1, <2>2, <2>3 DEF RequestOK
  <2>4. CASE /\ req'[t].op = req[t].op /\ req'[t].line = req[t].line
             /\ req'[t].seen = req[t].seen /\ req'[t].gone
    BY <2>1, <2>2, <2>4 DEF RequestOK
  <2>5. QED
    BY <2>1, <2>3, <2>4, ClosesTyped
<1>3. QED
  BY <1>2, ClosesTyped DEF IInv, ItemInv, TypeOK, RequestOK

\* No form is under way while another request finishes.
LEMMA NoFormBeside ==
    ASSUME ~FormOverlaps, NEW s \in Slots, FormLetsPass(s)
    PROVE  \A t \in Slots \ {s} : req[t] # NULL => req[t].op \notin FormOps
BY DEF FormLetsPass

LEMMA SaveAndSubmitKeepsInv ==
    ASSUME IInv, NEW s \in Slots, req[s] # NULL, FinishSaveAndSubmit(s),
           deadlinePassed' = deadlinePassed
    PROVE  IInv' /\ status = "DRAFT" /\ status' = "DRAFT"
           /\ \A l \in Lines : review'[l] = NULL
<1>1. status = "DRAFT"
  BY DEF FinishSaveAndSubmit, IInv, RequestOK, FormOps
<1>2. PICK S \in SUBSET Lines : S # {} /\ Saved(S)
  BY DEF FinishSaveAndSubmit
<1>3. /\ ItemInv' /\ status' = "DRAFT" /\ lines' = S /\ lines' # {}
      /\ \A l \in Lines : review'[l] = NULL
  BY <1>1, <1>2, SaveKeepsItem
<1>4. \A t \in Slots : req[t] # NULL => req[t] \in Request
  BY DEF IInv, TypeOK
<1>5. \A t \in Slots : req[t] # NULL =>
          /\ [req[t] EXCEPT !.gone = TRUE] \in Request
          /\ [req[t] EXCEPT !.gone = TRUE].op = req[t].op
          /\ [req[t] EXCEPT !.gone = TRUE].line = req[t].line
          /\ [req[t] EXCEPT !.gone = TRUE].seen = req[t].seen
          /\ [req[t] EXCEPT !.op = "SUBMIT"] \in Request
          /\ [req[t] EXCEPT !.op = "SUBMIT"].op = "SUBMIT"
  BY <1>4, OpsOfLists DEF Request
<1>6. req' = [t \in Slots |->
                 IF t = s THEN [req[s] EXCEPT !.op = "SUBMIT"]
                 ELSE IF req[t] # NULL /\ req[t].op \notin ReturnOps
                      THEN [req[t] EXCEPT !.gone = TRUE]
                      ELSE req[t]]
  BY DEF FinishSaveAndSubmit
<1>7. req' \in [Slots -> Request \cup {NULL}]
  BY <1>5, <1>6 DEF IInv, TypeOK
<1>8. ASSUME NEW t \in Slots, req'[t] # NULL
      PROVE  RequestOK(req'[t], status', lines')
  <2>1. CASE t = s
    BY <1>3, <1>5, <1>6, <2>1, OpsOfLists DEF RequestOK
  <2>2. CASE t # s
    <3>1. req[t] # NULL /\ RequestOK(req[t], status, lines)
      BY <1>6, <1>8, <2>2 DEF IInv
    <3>2. req'[t].op = req[t].op /\ req'[t].line = req[t].line /\ req'[t].seen = req[t].seen
      BY <1>5, <1>6, <2>2, <3>1
    <3>3. QED
      BY <1>3, <3>1, <3>2 DEF RequestOK
  <2>3. QED
    BY <2>1, <2>2
<1>9. QED
  BY <1>1, <1>3, <1>7, <1>8 DEF IInv, ItemInv, TypeOK, RequestOK

LEMMA InvIsKept ==
    ASSUME ~FormOverlaps, IInv, [Next]_vars
    PROVE  IInv'
<1>1. CASE UNCHANGED itemVars /\ UNCHANGED req /\ deadlinePassed' \in BOOLEAN
  BY <1>1 DEF itemVars, IInv, TypeOK, ReviewsWhileSubmitted, FinalizedIffDecided, RequestOK
<1>2. ASSUME NEW s \in Slots, Finish(s)
      PROVE  IInv'
  <2>1. /\ req[s] # NULL /\ deadlinePassed' = deadlinePassed
        /\ \A t \in Slots \ {s} : req[t] # NULL => req[t].op \notin FormOps
    BY <1>2, NoFormBeside DEF Finish
  <2>2. CASE FinishDecision(s)
    BY <2>1, <2>2, DecisionKeepsItem, ClosesKeepsInv DEF FinishDecision
  <2>3. CASE FinishSubmit(s)
    BY <2>1, <2>3, SubmitKeepsItem, ClosesKeepsInv DEF FinishSubmit
  <2>4. CASE FinishReturn(s)
    BY <2>1, <2>4, ReturnKeepsItem, ClosesKeepsInv DEF FinishReturn
  <2>5. CASE FinishSave(s)
    <3>1. status = "DRAFT"
      BY <2>1, <2>5 DEF FinishSave, IInv, RequestOK, FormOps
    <3>2. PICK S \in SUBSET Lines : Saved(S)
      BY <2>5 DEF FinishSave
    <3>3. QED
      BY <2>1, <2>5, <3>1, <3>2, SaveKeepsItem, ClosesKeepsInv DEF FinishSave
  <2>6. CASE FinishSaveAndSubmit(s)
    BY <2>1, <2>6, SaveAndSubmitKeepsInv
  <2>7. CASE Refused(s)
    <3>1. UNCHANGED itemVars /\ Closes(s, {})
      BY <2>7 DEF Refused
    <3>2. ItemInv'
      BY <3>1, IInvSplit DEF itemVars, ItemInv, ReviewsWhileSubmitted, FinalizedIffDecided
    <3>3. QED
      BY <2>1, <3>1, <3>2, ClosesKeepsInv DEF itemVars
  <2>8. QED
    BY <1>2, <2>2, <2>3, <2>4, <2>5, <2>6, <2>7 DEF Finish
<1>3. CASE DeadlineMoves
  BY <1>1, <1>3 DEF DeadlineMoves, IInv, TypeOK
<1>4. CASE UNCHANGED vars
  BY <1>1, <1>4 DEF vars, itemVars, IInv, TypeOK
<1>5. QED
  BY <1>2, <1>3, <1>4, BeginKeepsInv DEF Next

LEMMA InitInv == Init => IInv
BY GroupAssumption DEF Init, IInv, TypeOK, Fresh, Columns, ReviewStatus,
                       ReviewsWhileSubmitted, FinalizedIffDecided

\* The inductive invariant of a request under group review: reviews exist
\* exactly while the request is out of the department's hands, and a handler
\* under way holds what its locks protect (RequestOK).
THEOREM Invariance ==
    ASSUME ~FormOverlaps
    PROVE  Spec => []IInv
<1>1. IInv /\ [Next]_vars => IInv'
  BY InvIsKept
<1>2. QED
  BY <1>1, InitInv, PTL DEF Spec

\* The request is FINALIZED exactly when every line it has was decided, however
\* the reviewers' requests overlap (try_auto_finalize, apply_review_decision).
THEOREM FinalizedExactlyWhenDecided ==
    ASSUME ~FormOverlaps
    PROVE  Spec => []FinalizedIffDecided
<1>1. IInv => FinalizedIffDecided
  BY DEF IInv
<1>2. QED
  BY <1>1, Invariance, PTL

-----------------------------------------------------------------------------
(* Pulling back.                                                           *)

PullBackSafe ==
    \A s \in Slots :
        /\ req[s] # NULL /\ req'[s] = NULL
        /\ req[s].op = "PULL_BACK" /\ status' # status
        => \A l \in lines : review[l] = "PENDING"

LEMMA StepPullsBackSafely ==
    ASSUME ~FormOverlaps, IInv, [Next]_vars
    PROVE  PullBackSafe
<1> SUFFICES ASSUME NEW s \in Slots, req[s] # NULL, req'[s] = NULL,
                    req[s].op = "PULL_BACK", status' # status
             PROVE  \A l \in lines : review[l] = "PENDING"
  BY DEF PullBackSafe
<1>1. PICK t \in Slots : Finish(t)
  BY DEF Next, Begin, BeginSubmit, BeginForm, BeginReturn, BeginOnLine, Opens,
         DeadlineMoves, vars, itemVars
<1>2. t = s
  <2>1. SUFFICES ASSUME t # s PROVE FALSE
    OBVIOUS
  <2>2. req[s] \in Request
    BY ReqIsRequest DEF IInv
  <2>3. FinishSave(t) \/ FinishSaveAndSubmit(t) => status' = status
    BY DEF FinishSave, FinishSaveAndSubmit, Saved
  <2>4. Refused(t) => status' = status
    BY DEF Refused, itemVars
  <2>5. PICK lost : Closes(t, lost)
    BY <1>1, <2>3, <2>4 DEF Finish, FinishDecision, FinishSubmit, FinishReturn
  <2>6. req'[s] \in Request \/ req'[s] = req[s]
    BY <2>1, <2>5, ClosesTyped
  <2>7. req'[s] = req[s] \/ req'[s] = [req[s] EXCEPT !.gone = TRUE]
    BY <2>1, <2>5 DEF Closes
  <2>8. req'[s] = [req[s] EXCEPT !.gone = TRUE]
    BY <2>7
  <2>9. req'[s] \in Request
    BY <2>2, <2>8 DEF Request
  <2>10. QED
    BY <2>9, GroupAssumption
<1>3. PullBackAccepted
  BY <1>1, <1>2, OpsOfLists DEF Finish, FinishDecision, FinishSubmit, FinishReturn,
         FinishSave, FinishSaveAndSubmit, Refused, itemVars, ReturnOps
<1>4. QED
  BY <1>3 DEF PullBackAccepted, IInv, ReviewsWhileSubmitted, TypeOK

\* A department that takes its request back erases no answer of a reviewer,
\* also one that landed between its page and its click (techops_return_options
\* under the lock).
THEOREM PullBackNeverErases ==
    ASSUME ~FormOverlaps
    PROVE  Spec => PullBackErasesNothing
<1>1. IInv /\ [Next]_vars =>
          [\A s \in Slots :
              /\ req[s] # NULL /\ req'[s] = NULL
              /\ req[s].op = "PULL_BACK" /\ status' # status
              => \A l \in lines : review[l] = "PENDING"]_vars
  BY StepPullsBackSafely DEF PullBackSafe
<1>2. QED
  BY <1>1, Invariance, PTL DEF Spec, PullBackErasesNothing

-----------------------------------------------------------------------------
(* The refinement.  phase, asked and verdict are what ItemReview's          *)
(* variables are replaced by.                                              *)

phase == CASE status = "DRAFT"     -> "DRAFT"
           [] status = "SUBMITTED" -> "OPEN"
           [] status = "FINALIZED" -> "CLOSED"
asked == IF status = "DRAFT" THEN {} ELSE lines
verdict == [l \in Lines |-> IF review[l] \in Verdicts THEN review[l] ELSE NULL]

LEMMA PhaseOfStatus ==
    /\ status = "DRAFT" => phase = "DRAFT" /\ asked = {}
    /\ status = "SUBMITTED" => phase = "OPEN" /\ asked = lines
    /\ status = "FINALIZED" => phase = "CLOSED" /\ asked = lines
    /\ status' = "DRAFT" => phase' = "DRAFT" /\ asked' = {}
    /\ status' = "SUBMITTED" => phase' = "OPEN" /\ asked' = lines'
    /\ status' = "FINALIZED" => phase' = "CLOSED" /\ asked' = lines'
BY DEF phase, asked

LEMMA NullIsNoVerdict == NULL \notin Verdicts
BY GroupAssumption DEF ReviewStatus

\* Reviews without a verdict look alike from outside.
LEMMA NothingSaid ==
    /\ (\A l \in Lines : review[l] \notin Verdicts) => verdict = Promise!Unasked
    /\ (\A l \in Lines : review'[l] \notin Verdicts) => verdict' = Promise!Unasked
BY DEF verdict, Promise!Unasked

\* The abstract actions, in the names used here.
LEMMA SubmitMaps ==
    ASSUME phase = "DRAFT", phase' = "OPEN", asked' \subseteq Lines, asked' # {},
           verdict' = Promise!Unasked
    PROVE  Promise!Next
BY DEF Promise!Next, Promise!Submit, phase, asked, verdict

LEMMA SendBackMaps ==
    ASSUME phase # "DRAFT", phase' = "DRAFT", asked' = {}, verdict' = Promise!Unasked
    PROVE  Promise!Next
BY DEF Promise!Next, Promise!SendBack, phase, asked, verdict

LEMMA DecideMaps ==
    ASSUME NEW l \in Lines, NEW v \in Verdicts,
           phase = "OPEN", l \in asked, verdict[l] = NULL,
           verdict' = [verdict EXCEPT ![l] = v],
           phase' = IF \E k \in asked : verdict'[k] = NULL THEN "OPEN" ELSE "CLOSED",
           asked' = asked
    PROVE  Promise!Next
<1>1. Promise!Decide(l, v)
  BY DEF Promise!Decide, phase, asked, verdict
<1>2. QED
  BY <1>1 DEF Promise!Next

LEMMA ReopenMaps ==
    ASSUME NEW l \in Lines, phase # "DRAFT", verdict[l] # NULL,
           verdict' = [verdict EXCEPT ![l] = NULL], phase' = "OPEN", asked' = asked
    PROVE  Promise!Next
<1>1. Promise!Reopen(l)
  BY DEF Promise!Reopen, phase, asked, verdict
<1>2. QED
  BY <1>1 DEF Promise!Next

LEMMA InitMaps == Init => Promise!Init
<1> SUFFICES ASSUME Init PROVE Promise!Init
  OBVIOUS
<1>1. phase = "DRAFT" /\ asked = {} /\ verdict = Promise!Unasked
  BY NullIsNoVerdict, PhaseOfStatus, NothingSaid DEF Init
<1>2. QED
  BY <1>1 DEF Promise!Init, phase, asked, verdict

\* An accepted decision is Decide, Reopen or a stutter: the last verdict that
\* was missing and the closing of the request are one step.
LEMMA DecisionMaps ==
    ASSUME IInv, NEW s \in Slots, req[s] # NULL, FinishDecision(s)
    PROVE  Promise!Next \/ UNCHANGED <<phase, asked, verdict>>
<1> DEFINE r == req[s]
           l == r.line
           new == Result(r.op)
           said == IF new \in Verdicts THEN new ELSE NULL
<1>1. /\ l \in lines /\ l \in Lines
      /\ status \in {"SUBMITTED", "FINALIZED"}
      /\ \/ r.op = "REOPEN" /\ review[l] \in {"APPROVED", "REJECTED"}
         \/ r.op = "RESPOND" /\ review[l] \in Kickbacks
         \/ r.op \in Actions /\ review[l] = "PENDING"
  BY AcceptedDecision DEF FinishDecision
<1>2. review' = [review EXCEPT ![l] = new]
  BY DEF FinishDecision, Decision
<1>3. /\ lines' = lines /\ status' \in {"SUBMITTED", "FINALIZED"}
      /\ status' = "FINALIZED" <=> \A k \in lines : review'[k] \in Verdicts
  BY DecisionKeepsItem DEF ItemInv, FinalizedIffDecided
<1>4. status = "FINALIZED" <=> \A k \in lines : review[k] \in Verdicts
  BY <1>1 DEF IInv, FinalizedIffDecided
<1>5. asked = lines /\ asked' = asked
  BY <1>1, <1>3, PhaseOfStatus
<1>6. \A k \in Lines : review'[k] = IF k = l THEN new ELSE review[k]
  BY <1>1, <1>2 DEF IInv, TypeOK
<1>7. verdict' = [verdict EXCEPT ![l] = said]
  BY <1>1, <1>6 DEF verdict
<1>8. /\ \A k \in Lines : verdict[k] = NULL <=> review[k] \notin Verdicts
      /\ \A k \in Lines : verdict'[k] = NULL <=> review'[k] \notin Verdicts
  BY NullIsNoVerdict DEF verdict
<1>9. lines \subseteq Lines
  BY DEF IInv, TypeOK
<1>10. CASE r.op = "REOPEN"
  <2>1. new \notin Verdicts /\ review[l] \in Verdicts
    BY <1>1, <1>10, VerdictOfAction DEF Result, Verdicts, Kickbacks
  <2>2. phase # "DRAFT" /\ phase' = "OPEN"
    BY <1>1, <1>3, <1>6, <2>1, PhaseOfStatus
  <2>3. said = NULL /\ verdict[l] # NULL
    BY <1>1, <1>8, <2>1
  <2>4. QED
    BY <1>1, <1>5, <1>7, <2>2, <2>3, ReopenMaps
<1>11. CASE r.op # "REOPEN"
  <2>1. review[l] \notin Verdicts
    BY <1>1, <1>11 DEF Verdicts, Kickbacks
  <2>2. status = "SUBMITTED" /\ phase = "OPEN"
    BY <1>1, <1>4, <2>1, PhaseOfStatus
  <2>3. CASE new \in Verdicts
    <3>1. phase' = IF \E k \in asked : verdict'[k] = NULL THEN "OPEN" ELSE "CLOSED"
      BY <1>3, <1>5, <1>8, <1>9, PhaseOfStatus
    <3>2. said = new /\ verdict[l] = NULL
      BY <1>1, <1>8, <2>1, <2>3
    <3>3. QED
      BY <1>1, <1>5, <1>7, <2>2, <2>3, <3>1, <3>2, DecideMaps
  <2>4. CASE new \notin Verdicts
    <3>1. verdict' = verdict
      BY <1>1, <1>7, <1>8, <2>1, <2>4 DEF verdict
    <3>2. phase' = phase
      BY <1>1, <1>3, <1>6, <2>2, <2>4, PhaseOfStatus
    <3>3. QED
      BY <1>5, <3>1, <3>2
  <2>5. QED
    BY <2>3, <2>4
<1>12. QED
  BY <1>10, <1>11

LEMMA StepMaps ==
    ASSUME ~FormOverlaps, IInv, [Next]_vars
    PROVE  [Promise!Next]_(Promise!vars)
<1> SUFFICES Promise!Next \/ UNCHANGED <<phase, asked, verdict>>
  BY DEF Promise!vars, phase, asked, verdict
<1>1. CASE UNCHANGED itemVars
  BY <1>1 DEF itemVars, phase, asked, verdict
\* Reviews that say nothing before and after.
<1>2. ASSUME status = "DRAFT", status' = "DRAFT", \A l \in Lines : review'[l] = NULL
      PROVE  UNCHANGED <<phase, asked, verdict>>
  <2>1. \A l \in Lines : review[l] \notin Verdicts /\ review'[l] \notin Verdicts
    BY <1>2, NullIsNoVerdict DEF IInv, ReviewsWhileSubmitted
  <2>2. QED
    BY <1>2, <2>1, NothingSaid, PhaseOfStatus
<1>3. ASSUME NEW s \in Slots, Finish(s)
      PROVE  Promise!Next \/ UNCHANGED <<phase, asked, verdict>>
  <2>1. req[s] # NULL /\ deadlinePassed' = deadlinePassed
    BY <1>3 DEF Finish
  <2>2. CASE FinishDecision(s)
    BY <2>1, <2>2, DecisionMaps
  <2>3. CASE FinishSubmit(s)
    <3>1. /\ status = "DRAFT" /\ status' = "SUBMITTED"
          /\ lines' = lines /\ lines # {}
          /\ \A l \in Lines : review'[l] = IF l \in lines THEN "PENDING" ELSE review[l]
      BY <2>1, <2>3, SubmitKeepsItem DEF FinishSubmit, Submitted
    <3>2. \A l \in Lines : review'[l] \notin Verdicts
      BY <3>1, NullIsNoVerdict DEF IInv, ReviewsWhileSubmitted, Verdicts
    <3>3. lines \subseteq Lines
      BY DEF IInv, TypeOK
    <3>4. QED
      BY <3>1, <3>2, <3>3, NothingSaid, PhaseOfStatus, SubmitMaps
  <2>4. CASE FinishReturn(s)
    <3>1. /\ status \in {"SUBMITTED", "FINALIZED"} /\ status' = "DRAFT"
          /\ \A l \in Lines : review'[l] \notin Verdicts
      BY <2>4, ReturnKeepsItem, NullIsNoVerdict DEF IInv, TypeOK
    <3>2. QED
      BY <3>1, NothingSaid, PhaseOfStatus, SendBackMaps
  <2>5. CASE FinishSave(s)
    <3>1. status = "DRAFT"
      BY <2>1, <2>5 DEF FinishSave, IInv, RequestOK, FormOps
    <3>2. PICK S \in SUBSET Lines : Saved(S)
      BY <2>5 DEF FinishSave
    <3>3. QED
      BY <1>2, <3>1, <3>2, SaveKeepsItem
  <2>6. CASE FinishSaveAndSubmit(s)
    BY <1>2, <2>1, <2>6, SaveAndSubmitKeepsInv
  <2>7. CASE Refused(s)
    BY <1>1, <2>7 DEF Refused
  <2>8. QED
    BY <1>3, <2>2, <2>3, <2>4, <2>5, <2>6, <2>7 DEF Finish
<1>4. ASSUME NEW s \in Slots, Begin(s)
      PROVE  UNCHANGED itemVars
  BY <1>4 DEF Begin, BeginSubmit, BeginForm, BeginReturn, BeginOnLine, Opens
<1>5. CASE DeadlineMoves \/ UNCHANGED vars
  BY <1>1, <1>5 DEF DeadlineMoves, vars, itemVars
<1>6. QED
  BY <1>1, <1>3, <1>4, <1>5 DEF Next

\* The handlers, however they overlap, implement ItemReview: every commit is one
\* decision, one reopening, one submission, one return, or shows nothing.
THEOREM HandlersKeepPromise ==
    ASSUME ~FormOverlaps
    PROVE  Spec => KeepsPromise
<1>1. IInv /\ [Next]_vars => [Promise!Next]_(Promise!vars)
  BY StepMaps
<1>2. QED
  BY <1>1, InitMaps, Invariance, PTL DEF Spec, KeepsPromise, Promise!Spec

-----------------------------------------------------------------------------
(* The staff's pages.                                                      *)

LEMMA TwoParts ==
    ASSUME NEW S, NEW T, IsFiniteSet(S), IsFiniteSet(T), S \cap T = {}
    PROVE  /\ Cardinality(S \cup T) = Cardinality(S) + Cardinality(T)
           /\ Cardinality(S) \in Nat /\ Cardinality(T) \in Nat
<1>1. Cardinality(S) \in Nat /\ Cardinality(T) \in Nat /\ Cardinality({}) = 0
  BY FS_CardinalityType, FS_EmptySet
<1>2. Cardinality(S \cup T) = Cardinality(S) + Cardinality(T) - Cardinality({})
  BY FS_Union
<1>3. QED
  BY <1>1, <1>2

LEMMA ReviewsFinite ==
    ASSUME TypeOK, NEW S \in SUBSET lines
    PROVE  IsFiniteSet(S) /\ Cardinality(S) \in Nat
<1>1. S \in SUBSET Lines
  BY DEF TypeOK
<1>2. QED
  BY <1>1, PagesAssumption, FS_Subset, FS_CardinalityType

LEMMA KindsOfReview ==
    /\ ReviewStatus = ({"PENDING"} \cup Kickbacks) \cup Verdicts
    /\ "PENDING" \notin Kickbacks
    /\ Verdicts \cap ({"PENDING"} \cup Kickbacks) = {}
    /\ NULL \notin ReviewStatus
BY GroupAssumption DEF ReviewStatus, Kickbacks, Verdicts

\* A request that is out has reviews on all its lines; a draft has none.
LEMMA FiledHasReviews ==
    ASSUME IInv, NEW l \in lines
    PROVE  /\ Filed => review[l] \in ReviewStatus
           /\ ~Filed => review[l] = NULL
BY DEF IInv, TypeOK, ReviewsWhileSubmitted, Filed

\* The counts of a team's strip are those of the three kinds of review.
LEMMA ProgressCounts ==
    ASSUME IInv, NEW t \in Teams
    PROVE  /\ Progress(t).waiting = Cardinality(ReviewsOf(t, Kickbacks))
           /\ Progress(t).pending = Cardinality(ReviewsOf(t, {"PENDING"}))
           /\ Progress(t).total = Cardinality(ReviewsOf(t, ReviewStatus))
           /\ Progress(t).waiting \in Nat /\ Progress(t).pending \in Nat
           /\ Progress(t).pending + Progress(t).waiting
                = Cardinality(ReviewsOf(t, {"PENDING"} \cup Kickbacks))
<1> DEFINE P == ReviewsOf(t, {"PENDING"})
           K == ReviewsOf(t, Kickbacks)
           O == ReviewsOf(t, {"PENDING"} \cup Kickbacks)
           V == ReviewsOf(t, Verdicts)
           A == ReviewsOf(t, ReviewStatus)
<1>1. /\ O = P \cup K /\ P \cap K = {}
      /\ A = O \cup V /\ O \cap V = {}
  BY KindsOfReview DEF ReviewsOf
<1>2. P \in SUBSET lines /\ K \in SUBSET lines /\ O \in SUBSET lines /\ V \in SUBSET lines
  BY DEF ReviewsOf
<1>3. IsFiniteSet(P) /\ IsFiniteSet(K) /\ IsFiniteSet(O) /\ IsFiniteSet(V)
  BY <1>2, ReviewsFinite DEF IInv
<1>4. /\ Progress(t).total = Cardinality(A)
      /\ Progress(t).waiting = Cardinality(K)
      /\ Progress(t).pending = Cardinality(A) - Cardinality(V) - Cardinality(K)
  BY DEF Progress
<1> HIDE DEF P, K, O, V, A
<1>5. /\ Cardinality(O) = Cardinality(P) + Cardinality(K)
      /\ Cardinality(P) \in Nat /\ Cardinality(K) \in Nat
  BY <1>1, <1>3, TwoParts
<1>6. /\ Cardinality(A) = Cardinality(O) + Cardinality(V)
      /\ Cardinality(V) \in Nat
  BY <1>1, <1>3, TwoParts
<1>7. Progress(t).pending = Cardinality(P)
  BY <1>4, <1>5, <1>6
<1>8. QED
  BY <1>4, <1>5, <1>7 DEF P, K, O, A

\* The queue of a draft is empty anyway.
LEMMA QueueCounts ==
    ASSUME IInv, NEW t \in Teams
    PROVE  /\ Queue(t).waiting = Cardinality(ReviewsOf(t, Kickbacks))
           /\ Queue(t).waiting \in Nat /\ Queue(t).pending \in Nat
           /\ Queue(t).pending + Queue(t).waiting
                = Cardinality(ReviewsOf(t, {"PENDING"} \cup Kickbacks))
<1>1. CASE Filed
  BY <1>1, ProgressCounts DEF Queue
<1>2. CASE ~Filed
  <2>1. /\ ReviewsOf(t, Kickbacks) = {}
        /\ ReviewsOf(t, {"PENDING"} \cup Kickbacks) = {}
    BY <1>2, FiledHasReviews, KindsOfReview DEF ReviewsOf
  <2>2. QED
    BY <1>2, <2>1, FS_EmptySet DEF Queue
<1>3. QED
  BY <1>1, <1>2

\* A request is SUBMITTED while a line of it waits for somebody.
LEMMA UnfinishedIsOpen ==
    ASSUME IInv
    PROVE  Unfinished <=> \E t \in Teams : Queue(t).pending + Queue(t).waiting > 0
<1> DEFINE open(t) == ReviewsOf(t, {"PENDING"} \cup Kickbacks)
<1>1. Unfinished <=> \E l \in lines : review[l] \in {"PENDING"} \cup Kickbacks
  <2>1. Unfinished => \E l \in lines : review[l] \notin Verdicts
    BY DEF Unfinished, IInv, FinalizedIffDecided
  <2>2. Unfinished => Filed
    BY DEF Unfinished, Filed
  <2>3. ASSUME NEW l \in lines, review[l] \in {"PENDING"} \cup Kickbacks
        PROVE  Unfinished
    <3>1. review[l] # NULL /\ review[l] \notin Verdicts
      BY <2>3, KindsOfReview
    <3>2. status # "DRAFT"
      BY <3>1, FiledHasReviews DEF Filed
    <3>3. status # "FINALIZED"
      BY <3>1, <3>2 DEF IInv, FinalizedIffDecided
    <3>4. QED
      BY <3>2, <3>3 DEF Unfinished, IInv, TypeOK
  <2>4. QED
    BY <2>1, <2>2, <2>3, FiledHasReviews, KindsOfReview
<1>2. ASSUME NEW t \in Teams
      PROVE  Queue(t).pending + Queue(t).waiting > 0 <=> open(t) # {}
  <2>1. open(t) \in SUBSET lines
    BY DEF ReviewsOf
  <2>2. IsFiniteSet(open(t)) /\ Cardinality(open(t)) \in Nat
    BY <2>1, ReviewsFinite DEF IInv
  <2>3. Cardinality(open(t)) = 0 <=> open(t) = {}
    BY <2>2, FS_EmptySet
  <2>4. Queue(t).pending + Queue(t).waiting = Cardinality(open(t))
    BY QueueCounts
  <2> HIDE DEF open
  <2>5. QED
    BY <2>2, <2>3, <2>4
<1>3. (\E t \in Teams : open(t) # {})
        <=> \E l \in lines : review[l] \in {"PENDING"} \cup Kickbacks
  BY PagesAssumption DEF ReviewsOf, IInv, TypeOK
<1> HIDE DEF open
<1>4. QED
  BY <1>1, <1>2, <1>3

\* The worklist's words for a review.
LEMMA WorklistWords ==
    ASSUME NEW l, review[l] \in ReviewStatus
    PROVE  /\ WorklistStatus(l) \in {"pending", "waiting"}
                <=> review[l] \in {"PENDING"} \cup Kickbacks
           /\ WorklistStatus(l) = "approved"
                <=> review[l] \in {"APPROVED", "APPROVED_NEEDS_REVIEW"}
           /\ WorklistStatus(l) \in {"approved", "pending", "waiting", "rejected"}
BY DEF WorklistStatus, ReviewStatus, Kickbacks, Verdicts

\* The pending total of both filters counts the open reviews but the
\* affirmations; the approved total does not depend on rejected rows.
LEMMA WorklistCounts ==
    ASSUME IInv, NEW t \in Teams
    PROVE  LET open == ReviewsOf(t, {"PENDING"} \cup Kickbacks)
           IN  /\ Totals(WorklistRows({t}, "pending")).pending
                    = Cardinality(open \ Affirmations)
               /\ Totals(WorklistRows({t}, "not_rejected")).pending
                    = Cardinality(open \ Affirmations)
               /\ Totals(WorklistRows({t}, "not_rejected"))
                    = Totals(WorklistRows({t}, "all"))
<1> DEFINE open == ReviewsOf(t, {"PENDING"} \cup Kickbacks)
           Pending(rows) == {l \in rows : WorklistStatus(l) \in {"pending", "waiting"}}
           Approved(rows) == {l \in rows : WorklistStatus(l) = "approved"}
           some == WorklistRows({t}, "pending")
           most == WorklistRows({t}, "not_rejected")
           every == WorklistRows({t}, "all")
<1>1. Filed => \A l \in lines : review[l] \in ReviewStatus /\ review[l] # NULL
  BY FiledHasReviews, KindsOfReview
<1>2. ~Filed => open = {} /\ some = {} /\ most = {} /\ every = {}
  BY FiledHasReviews, KindsOfReview DEF WorklistRows, ReviewsOf
<1>3. /\ some = {l \in lines \ Affirmations :
                    /\ Filed /\ review[l] # NULL /\ TeamOf[l] = t
                    /\ WorklistStatus(l) \in {"pending", "waiting"}}
      /\ most = {l \in lines \ Affirmations :
                    /\ Filed /\ review[l] # NULL /\ TeamOf[l] = t
                    /\ WorklistStatus(l) \in {"approved", "pending", "waiting"}}
      /\ every = {l \in lines \ Affirmations :
                    /\ Filed /\ review[l] # NULL /\ TeamOf[l] = t
                    /\ WorklistStatus(l) \in {"approved", "pending", "waiting", "rejected"}}
  BY DEF WorklistRows, Shown
<1>4. open = {l \in lines : TeamOf[l] = t /\ review[l] \in {"PENDING"} \cup Kickbacks}
  BY DEF ReviewsOf
<1>5. Pending(some) = open \ Affirmations /\ Pending(most) = open \ Affirmations
  <2>1. CASE Filed
    <3>1. \A l \in lines : WorklistStatus(l) \in {"pending", "waiting"}
                              <=> review[l] \in {"PENDING"} \cup Kickbacks
      BY <1>1, <2>1, WorklistWords
    <3> HIDE DEF some, most, open
    <3>2. QED
      BY <1>1, <1>3, <1>4, <2>1, <3>1
  <2>2. CASE ~Filed
    <3> HIDE DEF some, most, every, open
    <3>1. QED
      BY <1>2, <2>2
  <2>3. QED
    BY <2>1, <2>2
<1>6. Pending(most) = Pending(every) /\ Approved(most) = Approved(every)
  <2> HIDE DEF some, most, every, open
  <2>1. QED
    BY <1>3
<1>7. \A rows : Totals(rows) = [approved |-> Cardinality(Approved(rows)),
                                pending |-> Cardinality(Pending(rows))]
  BY DEF Totals
<1> HIDE DEF some, most, every, open, Pending, Approved
<1>8. /\ Totals(some).pending = Cardinality(open \ Affirmations)
      /\ Totals(most).pending = Cardinality(open \ Affirmations)
      /\ Totals(most) = Totals(every)
  BY <1>5, <1>6, <1>7
<1>9. QED
  BY <1>8 DEF some, most, every, open

LEMMA PagesAgree ==
    ASSUME IInv
    PROVE  StaffPagesAgree
<1>1. ASSUME NEW t \in Teams
      PROVE  LET said == Cardinality(ReviewsOf(t, {"PENDING"} \cup Kickbacks)
                                       \cap Affirmations)
                 open == Queue(t).pending + Queue(t).waiting - said
             IN  /\ Totals(WorklistRows({t}, "pending")).pending = open
                 /\ Totals(WorklistRows({t}, "not_rejected")).pending = open
                 /\ Totals(WorklistRows({t}, "not_rejected"))
                       = Totals(WorklistRows({t}, "all"))
  <2> DEFINE open == ReviewsOf(t, {"PENDING"} \cup Kickbacks)
             said == open \cap Affirmations
             left == open \ Affirmations
  <2>1. open = said \cup left /\ said \cap left = {}
    OBVIOUS
  <2>2. said \in SUBSET lines /\ left \in SUBSET lines
    BY DEF ReviewsOf
  <2>3. IsFiniteSet(said) /\ IsFiniteSet(left)
    BY <2>2, ReviewsFinite DEF IInv
  <2>4. /\ Queue(t).pending + Queue(t).waiting = Cardinality(open)
        /\ Queue(t).pending \in Nat /\ Queue(t).waiting \in Nat
        /\ Totals(WorklistRows({t}, "pending")).pending = Cardinality(left)
        /\ Totals(WorklistRows({t}, "not_rejected")).pending = Cardinality(left)
        /\ Totals(WorklistRows({t}, "not_rejected"))
              = Totals(WorklistRows({t}, "all"))
    BY QueueCounts, WorklistCounts
  <2> HIDE DEF open, said, left
  <2>5. /\ Cardinality(open) = Cardinality(said) + Cardinality(left)
        /\ Cardinality(said) \in Nat /\ Cardinality(left) \in Nat
    BY <2>1, <2>3, TwoParts
  <2>6. Queue(t).pending + Queue(t).waiting - Cardinality(said) = Cardinality(left)
    BY <2>4, <2>5
  <2>7. QED
    BY <2>4, <2>6, Zenon DEF said, open
<1>2. ASSUME NEW t \in Teams
      PROVE  Queue(t).waiting =
                Cardinality({l \in lines : TeamOf[l] = t /\ Awaiting(l) = "REQUESTER"})
  <2>1. \A l \in lines : review[l] \in ReviewStatus \cup {NULL}
    BY DEF IInv, TypeOK
  <2>2. \A l \in lines : Awaiting(l) = "REQUESTER" <=> review[l] \in Kickbacks
    BY <2>1, KindsOfReview DEF Awaiting
  <2>3. ReviewsOf(t, Kickbacks) = {l \in lines : TeamOf[l] = t /\ Awaiting(l) = "REQUESTER"}
    BY <2>2 DEF ReviewsOf
  <2>4. QED
    BY <2>3, QueueCounts
<1>3. DraftOnly <=> \A t \in Teams : Progress(t).total = 0
  <2>1. ASSUME NEW t \in Teams
        PROVE  Progress(t).total = 0 <=> ReviewsOf(t, ReviewStatus) = {}
    <3>1. ReviewsOf(t, ReviewStatus) \in SUBSET lines
      BY DEF ReviewsOf
    <3>2. IsFiniteSet(ReviewsOf(t, ReviewStatus))
      BY <3>1, ReviewsFinite DEF IInv
    <3>3. QED
      BY <3>2, ProgressCounts, FS_EmptySet
  <2>2. ~Filed => \A t \in Teams : ReviewsOf(t, ReviewStatus) = {}
    BY FiledHasReviews, KindsOfReview DEF ReviewsOf
  <2>3. Filed => \E t \in Teams : ReviewsOf(t, ReviewStatus) # {}
    <3>1. SUFFICES ASSUME Filed PROVE \E t \in Teams : ReviewsOf(t, ReviewStatus) # {}
      OBVIOUS
    <3>2. PICK l \in lines : review[l] \in ReviewStatus
      BY <3>1, FiledHasReviews DEF IInv, Filed
    <3>3. l \in Lines /\ TeamOf[l] \in Teams
      BY PagesAssumption DEF IInv, TypeOK
    <3>4. l \in ReviewsOf(TeamOf[l], ReviewStatus)
      BY <3>2 DEF ReviewsOf
    <3>5. QED
      BY <3>3, <3>4
  <2>4. QED
    BY <2>1, <2>2, <2>3 DEF DraftOnly
<1>4. QED
  BY <1>1, <1>2, <1>3, UnfinishedIsOpen DEF StaffPagesAgree

\* The home cards, the queues, the worklist's totals and the progress strip tell
\* one story in every reachable state, for any teams, lines and affirmations
\* (team_queues, worklist_totals, group_progress_for_items).
THEOREM StaffPagesAlwaysAgree ==
    ASSUME ~FormOverlaps
    PROVE  Spec => []StaffPagesAgree
<1>1. IInv => StaffPagesAgree
  BY PagesAgree
<1>2. QED
  BY <1>1, Invariance, PTL
=============================================================================
