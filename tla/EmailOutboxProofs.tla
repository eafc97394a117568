--------------------------- MODULE EmailOutboxProofs ---------------------------
(***************************************************************************)
(* What the outbox promises, for any number of rows and runs, any limits   *)
(* and any number of losses.                                               *)
(***************************************************************************)
EXTENDS EmailOutbox, FiniteSetTheorems, TLAPS

-----------------------------------------------------------------------------
(***************************************************************************)
(* The inductive invariant.                                                *)
(***************************************************************************)

\* r has SES's answer for the row m and has not committed it.
Awaits(r, m) ==
    run[r] # NULL /\ run[r].answer # NULL /\ run[r].todo # <<>> /\ Head(run[r].todo) = m

\* How far a run is: its list names a row once, it has a list only in the loop
\* and after it, and an answer only for the first row of the list.
RunOK(x) ==
    /\ \A i, j \in 1 .. Len(x.todo) : x.todo[i] = x.todo[j] => i = j
    /\ x.at \in {"reap", "claim"} => x.todo = <<>> /\ x.answer = NULL
    /\ x.answer # NULL =>
          /\ x.at = "loop" /\ x.todo # <<>> /\ x.fails < FailureLimit
          /\ x.loaded[Head(x.todo)] # NULL

RunsOK == \A r \in Runs : run[r] # NULL => RunOK(run[r])

\* The row is claimed, or was when it was withdrawn.
Claimed(status) == status \in {"SENDING", "CANCELLED"}

\* A row in hand carries the claim of that run, and what a run has loaded still
\* says how often it was tried.
HeldOK ==
    \A r \in Runs : \A m \in InHand(r) :
        /\ Claimed(row[m].status) /\ row[m].owner = r
        /\ Awaits(r, m) => /\ Claimed(run[r].loaded[m].status)
                           /\ run[r].loaded[m].attempts = row[m].attempts

\* Only a crash leaves a stray, and only a stray is reaped.
StraysOK ==
    /\ \A m \in Rows : /\ row[m].stale => row[m].owner = Gone
                       /\ row[m].owner = Gone => lost > 0
    /\ \A r \in Runs : run[r] # NULL /\ run[r].at = "reap" =>
          /\ lost > 0
          /\ \A m \in Rows : run[r].loaded[m] # NULL =>
                /\ run[r].loaded[m].status = "SENDING" /\ Claimed(row[m].status)
                /\ run[r].loaded[m].stale
                /\ run[r].loaded[m].attempts = row[m].attempts

\* m was tried at most as often as its attempts say, and less often than the
\* limit; p and q are what an answer that is not committed adds.
Spent(m, p, q) ==
    /\ calls[m] <= row[m].attempts + lost + p
    /\ calls[m] + 1 <= MaxAttempts + lost + p
    /\ accepted[m] <= lost + q

\* m may still be given to SES: it is open, in hand or about to be reaped.
Alive(m) ==
    \/ row[m].status \notin Terminal
    \/ \E r \in Runs : m \in InHand(r)
    \/ \E r \in Runs : run[r] # NULL /\ run[r].at = "reap" /\ run[r].loaded[m] # NULL

SpentOK ==
    \A m \in Rows :
        /\ calls[m] <= MaxAttempts + lost /\ accepted[m] <= 1 + lost
        /\ Alive(m) /\ (\A r \in Runs : ~Awaits(r, m)) => Spent(m, 0, 0)
        /\ \A r \in Runs : Awaits(r, m) =>
              Spent(m, IF run[r].answer = "ACCOUNT_HALT" THEN 0 ELSE 1,
                       IF run[r].answer = "ACCEPTED" THEN 1 ELSE 0)

IInv ==
    /\ TypeOK
    /\ RunsOK
    /\ Exclusive => HeldOK /\ StraysOK /\ SpentOK

-----------------------------------------------------------------------------
(***************************************************************************)
(* Lemmas about sequences and about what is written to a row.              *)
(***************************************************************************)

\* Reading a non-empty list from its front.
LEMMA FrontOfList ==
    ASSUME NEW S, NEW s \in Seq(S), s # <<>>
    PROVE  /\ Len(s) \in Nat /\ Len(s) >= 1
           /\ Head(s) = s[1] /\ Head(s) \in S
           /\ Tail(s) \in Seq(S) /\ Len(Tail(s)) = Len(s) - 1
           /\ \A i \in 1 .. Len(Tail(s)) : Tail(s)[i] = s[i + 1]
  OBVIOUS

\* What is left of a list without repetitions has none, and lacks the head.
LEMMA RestOfList ==
    ASSUME NEW S, NEW s \in Seq(S), s # <<>>,
           \A i, j \in 1 .. Len(s) : s[i] = s[j] => i = j
    PROVE  /\ \A i, j \in 1 .. Len(Tail(s)) : Tail(s)[i] = Tail(s)[j] => i = j
           /\ {Tail(s)[i] : i \in 1 .. Len(Tail(s))} = {s[i] : i \in 1 .. Len(s)} \ {Head(s)}
  <1>1. \A i \in 1 .. Len(Tail(s)) : i + 1 \in 2 .. Len(s) /\ Tail(s)[i] = s[i + 1]
    BY FrontOfList
  <1>2. \A j \in 2 .. Len(s) : j - 1 \in 1 .. Len(Tail(s)) /\ Tail(s)[j - 1] = s[j]
    BY FrontOfList
  <1>3. 1 \in 1 .. Len(s) /\ Head(s) = s[1]
    BY FrontOfList
  <1>4. \A i, j \in 1 .. Len(Tail(s)) : Tail(s)[i] = Tail(s)[j] => i = j
    BY <1>1, FrontOfList
  <1>5. {Tail(s)[i] : i \in 1 .. Len(Tail(s))} \subseteq {s[i] : i \in 1 .. Len(s)} \ {Head(s)}
    BY <1>1, <1>3, FrontOfList
  <1>6. {s[i] : i \in 1 .. Len(s)} \ {Head(s)} \subseteq {Tail(s)[i] : i \in 1 .. Len(Tail(s))}
    BY <1>2, <1>3, FrontOfList
  <1> QED
    BY <1>4, <1>5, <1>6

\* Flush, field by field.
LEMMA FlushedFields ==
    ASSUME NEW cur \in RowRecord, NEW old \in RowRecord, NEW new \in RowRecord
    PROVE  /\ Flush(cur, old, new) \in RowRecord
           /\ Flush(cur, old, new).status = IF new.status = old.status THEN cur.status ELSE new.status
           /\ Flush(cur, old, new).owner = IF new.owner = old.owner THEN cur.owner ELSE new.owner
           /\ Flush(cur, old, new).stale = IF new.stale = old.stale THEN cur.stale ELSE new.stale
           /\ Flush(cur, old, new).attempts =
                 IF new.attempts = old.attempts THEN cur.attempts ELSE new.attempts
  BY DEF Flush, RowRecord

\* _clear_claim and the writes built on it.
LEMMA UnclaimedIsRow ==
    ASSUME NEW m \in RowRecord
    PROVE  /\ Unclaimed(m) \in RowRecord
           /\ Unclaimed(m).status = m.status /\ Unclaimed(m).attempts = m.attempts
           /\ Unclaimed(m).owner = NULL /\ Unclaimed(m).stale = FALSE
  BY DEF Unclaimed, RowRecord

\* Counting an attempt.
LEMMA TriedAgain ==
    ASSUME NEW m \in RowRecord, NEW s \in RowStatus
    PROVE  LET x == [m EXCEPT !.status = s, !.attempts = @ + 1] IN
           /\ x \in RowRecord /\ x.status = s /\ x.attempts = m.attempts + 1
           /\ x.owner = m.owner /\ x.stale = m.stale
  <1>1. m.attempts \in Nat /\ m.attempts + 1 \in Nat
    BY DEF RowRecord
  <1>2. ASSUME NEW n \in Nat PROVE [m EXCEPT !.status = s, !.attempts = n] \in RowRecord
    BY DEF RowRecord
  <1> QED
    BY <1>1, <1>2 DEF RowRecord

\* A reaped row is open again, and loses an attempt unless its template was at fault.
LEMMA ReapedIsRow ==
    ASSUME NEW m \in RowRecord
    PROVE  /\ Reaped(m) \in RowRecord
           /\ Reaped(m).status \in Claimable
           /\ Reaped(m).attempts \in {m.attempts, m.attempts + 1}
           /\ Reaped(m).owner = NULL /\ Reaped(m).stale = FALSE
  <1>1. [m EXCEPT !.status = "RENDER_BLOCKED"] \in RowRecord
    BY DEF RowRecord, RowStatus, Claimable
  <1>2. LET x == [m EXCEPT !.status = "QUEUED", !.attempts = @ + 1] IN
        /\ x \in RowRecord /\ x.status = "QUEUED" /\ x.attempts = m.attempts + 1
    BY TriedAgain DEF RowRecord, RowStatus, Claimable
  <1> QED
    BY <1>1, <1>2, UnclaimedIsRow DEF Reaped, RowRecord, Claimable

\* A row whose template does not render is open again, or failed.
LEMMA ParkedIsRow ==
    ASSUME NEW m \in RowRecord
    PROVE  /\ Parked(m) \in RowRecord
           /\ Parked(m).attempts = m.attempts
           /\ Parked(m).status \in {"FAILED", "RENDER_BLOCKED"}
           /\ Parked(m).owner \in {m.owner, NULL} /\ Parked(m).stale \in {m.stale, FALSE}
  <1>1. [m EXCEPT !.status = "FAILED"] \in RowRecord
    BY DEF RowRecord, RowStatus, Terminal
  <1>2. [m EXCEPT !.status = "RENDER_BLOCKED",
                  !.blocked = IF @ = "no" THEN "recent" ELSE @] \in RowRecord
    BY DEF RowRecord, RowStatus, Claimable
  <1> QED
    BY <1>1, <1>2, UnclaimedIsRow DEF Parked, RowRecord

\* A refused row fails at the limit and is open again before it.
LEMMA RequeuedIsRow ==
    ASSUME NEW m \in RowRecord
    PROVE  /\ Requeued(m) \in RowRecord
           /\ Requeued(m).attempts = m.attempts + 1
           /\ \/ Requeued(m).status = "FAILED"
              \/ Requeued(m).status = "QUEUED" /\ m.attempts + 2 <= MaxAttempts
           /\ Requeued(m).owner \in {m.owner, NULL} /\ Requeued(m).stale \in {m.stale, FALSE}
  <1>1. LET x == [m EXCEPT !.status = "FAILED", !.attempts = @ + 1] IN
        /\ x \in RowRecord /\ x.status = "FAILED" /\ x.attempts = m.attempts + 1
        /\ x.owner = m.owner /\ x.stale = m.stale
    BY TriedAgain DEF RowStatus, Terminal
  <1>2. LET x == [m EXCEPT !.status = "QUEUED", !.attempts = @ + 1] IN
        /\ x \in RowRecord /\ x.status = "QUEUED" /\ x.attempts = m.attempts + 1
    BY TriedAgain DEF RowStatus, Claimable
  <1>3. m.attempts \in Nat /\ MaxAttempts \in Nat
    BY OutboxAssumption DEF RowRecord
  <1>4. CASE m.attempts + 1 >= MaxAttempts
    BY <1>1, <1>4 DEF Requeued, RowRecord
  <1>5. CASE ~(m.attempts + 1 >= MaxAttempts)
    <2> DEFINE x == [m EXCEPT !.status = "QUEUED", !.attempts = @ + 1]
    <2>1. Requeued(m) = Unclaimed(x)
      BY <1>5 DEF Requeued
    <2>2. m.attempts + 2 <= MaxAttempts
      BY <1>3, <1>5
    <2>3. x \in RowRecord /\ x.status = "QUEUED" /\ x.attempts = m.attempts + 1
      BY <1>2
    <2> HIDE DEF x
    <2> QED
      BY <2>1, <2>2, <2>3, UnclaimedIsRow
  <1> QED
    BY <1>4, <1>5

\* What an answer makes of a row: an outcome, or an open row, with one more
\* attempt if SES was tried.
LEMMA AnsweredIsRow ==
    ASSUME NEW m \in RowRecord, NEW answer \in Answers
    PROVE  /\ Answered(m, answer) \in RowRecord
           /\ Answered(m, answer).owner \in {m.owner, NULL}
           /\ Answered(m, answer).stale \in {m.stale, FALSE}
           /\ \/ answer = "ACCEPTED" /\ Answered(m, answer).status = "SENT"
                 /\ Answered(m, answer).attempts = m.attempts
              \/ answer = "PERMANENT" /\ Answered(m, answer).status = "FAILED"
                 /\ Answered(m, answer).attempts = m.attempts
              \/ answer = "ACCOUNT_HALT" /\ Answered(m, answer).status = "QUEUED"
                 /\ Answered(m, answer).attempts = m.attempts
              \/ /\ answer \in {"LOST", "TRANSIENT", "TRANSIENT_ACCOUNT"}
                 /\ Answered(m, answer).attempts = m.attempts + 1
                 /\ \/ Answered(m, answer).status = "FAILED"
                    \/ Answered(m, answer).status = "QUEUED" /\ m.attempts + 2 <= MaxAttempts
  <1> DEFINE rendered == [m EXCEPT !.blocked = "no"]
  <1>1. /\ rendered \in RowRecord
        /\ rendered.owner = m.owner /\ rendered.stale = m.stale /\ rendered.attempts = m.attempts
    BY DEF RowRecord
  <1>2. \A s \in {"SENT", "FAILED", "QUEUED"} :
           LET x == [rendered EXCEPT !.status = s] IN
           /\ x \in RowRecord /\ x.status = s
           /\ x.owner = m.owner /\ x.stale = m.stale /\ x.attempts = m.attempts
    BY <1>1 DEF RowRecord, RowStatus, Terminal, Claimable
  <1>3. CASE answer = "ACCEPTED"
    BY <1>2, <1>3 DEF Answered
  <1>4. CASE answer = "PERMANENT"
    BY <1>2, <1>4 DEF Answered
  <1>5. CASE answer = "ACCOUNT_HALT"
    BY <1>2, <1>5, UnclaimedIsRow DEF Answered
  <1>6. CASE answer \in {"LOST", "TRANSIENT", "TRANSIENT_ACCOUNT"}
    <2>1. Answered(m, answer) = Requeued(rendered)
      BY <1>6 DEF Answered
    <2> QED
      BY <1>1, <1>6, <2>1, RequeuedIsRow
  <1> QED
    BY <1>3, <1>4, <1>5, <1>6 DEF Answers

\* The loop as it is entered with a list of rows.
LEMMA LoopIsRun ==
    ASSUME NEW todo \in Seq(Rows), NEW first \in BOOLEAN, NEW fails \in 0 .. FailureLimit
    PROVE  /\ Loop(todo, first, fails) \in RunRecord
           /\ Loop(todo, first, fails) # NULL
           /\ Loop(todo, first, fails).at = "loop"
           /\ Loop(todo, first, fails).todo = todo
           /\ Loop(todo, first, fails).fails = fails
           /\ Loop(todo, first, fails).answer = NULL
           /\ Loop(todo, first, fails).loaded = Nothing
  BY NullAssumption DEF Loop, RunRecord, Nothing

\* A row that is pushed back leaves a queue.
LEMMA WithoutIsQueue ==
    ASSUME due \in Seq(Rows), NEW m
    PROVE  Without(due, m) \in Seq(Rows)
  <1>1. CASE m \notin Backlog
    BY <1>1 DEF Without
  <1>2. CASE m \in Backlog
    <2>1. Place(m) \in 1 .. Len(due)
      BY <1>2 DEF Backlog, Place
    <2> QED
      BY <1>2, <2>1 DEF Without
  <1> QED
    BY <1>1, <1>2

\* A batch lists rows of open, each once.
LEMMA BatchLists ==
    ASSUME due \in Seq(Rows), NEW open \in SUBSET Backlog, NEW b \in FirstOf(open)
    PROVE  /\ b \in Seq(Rows)
           /\ \A i \in 1 .. Len(b) : b[i] \in open
           /\ \A i, j \in 1 .. Len(b) : b[i] = b[j] => i = j
  <1> DEFINE taken == {m \in open : Cardinality({x \in open : Place(x) < Place(m)}) < BatchSize}
  <1>1. due \in Surjection(1 .. Len(due), Backlog) /\ Backlog \subseteq Rows /\ Len(due) \in Nat
    BY DEF Surjection, Backlog
  <1>2. IsFiniteSet(Backlog)
    BY <1>1, FS_Interval, FS_Surjection
  <1>3. IsFiniteSet(taken) /\ Cardinality(taken) \in Nat
    BY <1>2, FS_Subset, FS_CardinalityType
  <1>4. /\ b \in [1 .. Cardinality(taken) -> taken]
        /\ \A i, j \in DOMAIN b : i < j => Place(b[i]) < Place(b[j])
    BY DEF FirstOf
  <1>5. b \in Seq(Rows) /\ Len(b) = Cardinality(taken) /\ DOMAIN b = 1 .. Len(b)
    <2> DEFINE n == Cardinality(taken)
    <2>1. n \in Nat /\ b \in [1 .. n -> Rows]
      BY <1>1, <1>3, <1>4
    <2> HIDE DEF n
    <2>2. b \in Seq(Rows) /\ Len(b) = n /\ DOMAIN b = 1 .. Len(b)
      BY <2>1
    <2> QED
      BY <2>2 DEF n
  <1>6. \A m \in Backlog : Place(m) \in Int
    BY <1>1 DEF Backlog, Place
  <1>7. \A i \in 1 .. Len(b) : b[i] \in open /\ Place(b[i]) \in Int
    BY <1>4, <1>5, <1>6
  <1>8. ASSUME NEW i \in 1 .. Len(b), NEW j \in 1 .. Len(b), b[i] = b[j], i # j PROVE FALSE
    <2>1. i < j \/ j < i
      BY <1>3, <1>5, <1>8
    <2>2. Place(b[i]) < Place(b[j]) \/ Place(b[j]) < Place(b[i])
      BY <1>4, <1>5, <2>1
    <2> QED
      BY <1>7, <1>8, <2>2
  <1> QED
    BY <1>5, <1>7, <1>8

-----------------------------------------------------------------------------
(***************************************************************************)
(* Types, and how far each run is.                                         *)
(***************************************************************************)

LEMMA TypesAtFirst == Init => TypeOK /\ RunsOK
  BY OutboxAssumption DEF Init, TypeOK, RunsOK, RowRecord, RowStatus

\* What the table holds and what a process does, by their types.
LEMMA Typed ==
    ASSUME TypeOK
    PROVE  /\ \A m \in Rows : row[m] \in RowRecord
           /\ \A r \in Runs : run[r] # NULL =>
                 /\ run[r] \in RunRecord /\ run[r].todo \in Seq(Rows)
                 /\ run[r].fails \in 0 .. FailureLimit
                 /\ run[r].loaded \in [Rows -> RowRecord \cup {NULL}]
                 /\ InHand(r) \subseteq Rows
  BY DEF TypeOK, RunRecord, InHand

\* A step of one run.
LEMMA TypesOneRun ==
    ASSUME TypeOK, RunsOK, NEW r \in Runs, NEW y \in RunRecord \cup {NULL},
           y # NULL => RunOK(y), run' = [run EXCEPT ![r] = y],
           row' \in [Rows -> RowRecord], due' \in Seq(Rows),
           withdrawing' = withdrawing,
           sentToday' \in Nat, lost' \in Nat, pauses' \in Nat,
           calls' \in [Rows -> Nat], accepted' \in [Rows -> Nat]
    PROVE  TypeOK' /\ RunsOK'
  <1>1. TypeOK'
    BY DEF TypeOK
  <1>2. ASSUME NEW s \in Runs, run'[s] # NULL PROVE RunOK(run'[s])
    <2>1. CASE s = r
      BY <1>2, <2>1 DEF TypeOK
    <2>2. CASE s # r
      BY <1>2, <2>2 DEF TypeOK, RunsOK
    <2> QED
      BY <2>1, <2>2
  <1> QED
    BY <1>1, <1>2 DEF RunsOK, RunOK

\* A step that leaves the runs alone.
LEMMA TypesNoRun ==
    ASSUME TypeOK, RunsOK, UNCHANGED run,
           row' \in [Rows -> RowRecord], due' \in Seq(Rows),
           withdrawing' \in (SUBSET Rows) \cup {NULL},
           sentToday' \in Nat, UNCHANGED <<lost, pauses, calls, accepted>>
    PROVE  TypeOK' /\ RunsOK'
  BY DEF TypeOK, RunsOK, RunOK

\* Going on with the rest of the list.
LEMMA RestOfRun ==
    ASSUME TypeOK, RunsOK, NEW r \in Runs, run[r] # NULL, run[r].todo # <<>>,
           NEW y, y.todo = Tail(run[r].todo), y.answer = NULL, y.at \in {"loop", "stop"}
    PROVE  /\ RunOK(y)
           /\ {y.todo[i] : i \in 1 .. Len(y.todo)} = InHand(r) \ {Head(run[r].todo)}
  <1> DEFINE s == run[r].todo
  <1>1. s \in Seq(Rows) /\ s # <<>> /\ (\A i, j \in 1 .. Len(s) : s[i] = s[j] => i = j)
    BY Typed DEF RunsOK, RunOK
  <1>2. InHand(r) = {s[i] : i \in 1 .. Len(s)}
    BY DEF InHand
  <1> HIDE DEF s
  <1>3. /\ \A i, j \in 1 .. Len(Tail(s)) : Tail(s)[i] = Tail(s)[j] => i = j
        /\ {Tail(s)[i] : i \in 1 .. Len(Tail(s))} = {s[i] : i \in 1 .. Len(s)} \ {Head(s)}
    BY <1>1, RestOfList
  <1>4. y.todo = Tail(s) /\ Head(s) = Head(run[r].todo)
    BY DEF s
  <1> QED
    <2>1. RunOK(y)
      BY <1>3, <1>4 DEF RunOK
    <2>2. {y.todo[i] : i \in 1 .. Len(y.todo)} = {Tail(s)[i] : i \in 1 .. Len(Tail(s))}
      BY <1>4
    <2> QED
      BY <1>2, <1>3, <1>4, <2>1, <2>2

LEMMA TypesWithoutSending ==
    ASSUME TypeOK, RunsOK, NEW r \in Runs, AtRow(r), NEW x \in RowRecord,
           NEW delayed \in BOOLEAN, WithoutSending(r, x, delayed)
    PROVE  TypeOK' /\ RunsOK'
  <1> DEFINE y == Loop(Tail(run[r].todo), FALSE, 0)
  <1>1. 0 \in 0 .. FailureLimit /\ Tail(run[r].todo) \in Seq(Rows)
    BY Typed, FrontOfList, OutboxAssumption DEF AtRow
  <1>2. /\ y \in RunRecord /\ y.todo = Tail(run[r].todo) /\ y.answer = NULL /\ y.at = "loop"
    BY <1>1, LoopIsRun
  <1>3. RunOK(y)
    BY <1>2, RestOfRun DEF AtRow
  <1>4. /\ run' = [run EXCEPT ![r] = y]
        /\ row' \in [Rows -> RowRecord] /\ due' \in Seq(Rows) /\ sentToday' \in Nat
    BY WithoutIsQueue DEF WithoutSending, TypeOK
  <1>5. UNCHANGED <<withdrawing, lost, pauses, calls, accepted>>
    BY DEF WithoutSending, history
  <1> HIDE DEF y
  <1> QED
    BY <1>2, <1>3, <1>4, <1>5, TypesOneRun DEF TypeOK

LEMMA TypesEnqueue ==
    ASSUME TypeOK, RunsOK, NEW m \in Rows, NEW deferred \in BOOLEAN, Enqueue(m, deferred)
    PROVE  TypeOK' /\ RunsOK'
  <1>1. row' \in [Rows -> RowRecord]
    BY DEF Enqueue, TypeOK, RowRecord, RowStatus, Claimable
  <1>2. due' \in Seq(Rows)
    BY DEF Enqueue, TypeOK
  <1> QED
    BY <1>1, <1>2, TypesNoRun DEF Enqueue, TypeOK, history

LEMMA TypesWithdraw ==
    ASSUME TypeOK, RunsOK, WithdrawRead \/ WithdrawCommit
    PROVE  TypeOK' /\ RunsOK'
  <1>1. CASE WithdrawRead
    <2>1. withdrawing' \in SUBSET Rows
      BY <1>1, OutboxAssumption DEF WithdrawRead
    <2> QED
      BY <1>1, <2>1, TypesNoRun DEF WithdrawRead, TypeOK, history
  <1>2. CASE WithdrawCommit
    <2>1. \A m \in Rows : [row[m] EXCEPT !.status = "CANCELLED"] \in RowRecord
      BY DEF TypeOK, RowRecord, RowStatus, Terminal
    <2>2. row' \in [Rows -> RowRecord]
      BY <1>2, <2>1 DEF WithdrawCommit, TypeOK
    <2> QED
      BY <1>2, <2>2, TypesNoRun DEF WithdrawCommit, TypeOK, history
  <1> QED
    BY <1>1, <1>2

LEMMA TypesStart ==
    ASSUME TypeOK, RunsOK, NEW r \in Runs, Start(r)
    PROVE  TypeOK' /\ RunsOK'
  <1> DEFINE strays == {m \in Rows : row[m].status = "SENDING" /\ row[m].stale}
             y == [Loop(<<>>, TRUE, 0) EXCEPT
                     !.at = IF strays = {} THEN "claim" ELSE "reap",
                     !.loaded = [m \in Rows |-> IF m \in strays THEN row[m] ELSE NULL]]
  <1>1. [m \in Rows |-> IF m \in strays THEN row[m] ELSE NULL] \in [Rows -> RowRecord \cup {NULL}]
    BY DEF TypeOK
  <1>2. /\ Loop(<<>>, TRUE, 0) \in RunRecord /\ Loop(<<>>, TRUE, 0).todo = <<>>
        /\ Loop(<<>>, TRUE, 0).answer = NULL
    <2>1. <<>> \in Seq(Rows) /\ 0 \in 0 .. FailureLimit
      BY OutboxAssumption
    <2> QED
      BY <2>1, LoopIsRun
  <1>3. y \in RunRecord /\ y.todo = <<>> /\ y.answer = NULL
    BY <1>1, <1>2 DEF RunRecord
  <1>4. run' = [run EXCEPT ![r] = y]
    BY DEF Start
  <1> HIDE DEF y
  <1>5. RunOK(y)
    BY <1>3 DEF RunOK
  <1> QED
    BY <1>3, <1>4, <1>5, TypesOneRun DEF Start, TypeOK, outbox, history

LEMMA TypesReap ==
    ASSUME TypeOK, RunsOK, NEW r \in Runs, Reap(r)
    PROVE  TypeOK' /\ RunsOK'
  <1> DEFINE y == [Loop(<<>>, TRUE, 0) EXCEPT !.at = "claim"]
  <1>1. <<>> \in Seq(Rows) /\ 0 \in 0 .. FailureLimit
    BY OutboxAssumption
  <1>2. Loop(<<>>, TRUE, 0) \in RunRecord /\ Loop(<<>>, TRUE, 0).todo = <<>>
        /\ Loop(<<>>, TRUE, 0).answer = NULL
    BY <1>1, LoopIsRun
  <1>3. y \in RunRecord /\ y.todo = <<>> /\ y.answer = NULL
    BY <1>2 DEF RunRecord
  <1>4. run' = [run EXCEPT ![r] = y]
    BY DEF Reap
  <1> HIDE DEF y
  <1>5. RunOK(y)
    BY <1>3 DEF RunOK
  <1>6. ASSUME NEW m \in Rows, run[r].loaded[m] # NULL
        PROVE  Flush(row[m], run[r].loaded[m], Reaped(run[r].loaded[m])) \in RowRecord
    <2>1. row[m] \in RowRecord /\ run[r].loaded[m] \in RowRecord
      BY <1>6, Typed DEF Reap
    <2>2. Reaped(run[r].loaded[m]) \in RowRecord
      BY <2>1, ReapedIsRow
    <2> QED
      BY <2>1, <2>2, FlushedFields
  <1>7. row' \in [Rows -> RowRecord]
    BY <1>6, Typed DEF Reap
  <1> QED
    BY <1>3, <1>4, <1>5, <1>7, TypesOneRun DEF Reap, TypeOK, history

\* What a claim does: it takes open rows, each once.
LEMMA Claims ==
    ASSUME TypeOK, NEW r \in Runs, Claim(r)
    PROVE  \E todo \in Seq(Rows) :
              /\ \A i, j \in 1 .. Len(todo) : todo[i] = todo[j] => i = j
              /\ \A i \in 1 .. Len(todo) : row[todo[i]].status \in Claimable
              /\ row' = [m \in Rows |->
                           IF m \in {todo[i] : i \in 1 .. Len(todo)}
                             THEN [row[m] EXCEPT !.status = "SENDING", !.owner = r,
                                                 !.stale = FALSE]
                             ELSE row[m]]
              /\ run' = [run EXCEPT ![r] = Loop(todo, TRUE, 0)]
  <1>1. PICK todo \in IF sentToday >= DailyLimit THEN {<<>>} ELSE Batch :
           /\ row' = [m \in Rows |->
                        IF m \in {todo[i] : i \in 1 .. Len(todo)}
                          THEN [row[m] EXCEPT !.status = "SENDING", !.owner = r,
                                              !.stale = FALSE]
                          ELSE row[m]]
           /\ run' = [run EXCEPT ![r] = Loop(todo, TRUE, 0)]
    BY DEF Claim
  <1>2. /\ todo \in Seq(Rows)
        /\ \A i, j \in 1 .. Len(todo) : todo[i] = todo[j] => i = j
        /\ \A i \in 1 .. Len(todo) : row[todo[i]].status \in Claimable
    <2> DEFINE open == {m \in Backlog : row[m].status \in Claimable}
    <2>1. CASE todo = <<>>
      BY <2>1
    <2>2. CASE todo \in FirstOf(open)
      <3>1. due \in Seq(Rows) /\ open \in SUBSET Backlog
        BY DEF TypeOK
      <3> QED
        BY <2>2, <3>1, BatchLists
    <2> QED
      BY <1>1, <2>1, <2>2 DEF Batch
  <1> QED
    BY <1>1, <1>2

LEMMA TypesClaim ==
    ASSUME TypeOK, RunsOK, NEW r \in Runs, Claim(r)
    PROVE  TypeOK' /\ RunsOK'
  <1>1. PICK todo \in Seq(Rows) :
           /\ \A i, j \in 1 .. Len(todo) : todo[i] = todo[j] => i = j
           /\ row' = [m \in Rows |->
                        IF m \in {todo[i] : i \in 1 .. Len(todo)}
                          THEN [row[m] EXCEPT !.status = "SENDING", !.owner = r,
                                              !.stale = FALSE]
                          ELSE row[m]]
           /\ run' = [run EXCEPT ![r] = Loop(todo, TRUE, 0)]
    BY Claims
  <1>2. \A m \in Rows : [row[m] EXCEPT !.status = "SENDING", !.owner = r, !.stale = FALSE]
                           \in RowRecord
    BY DEF TypeOK, RowRecord, RowStatus
  <1>3. row' \in [Rows -> RowRecord]
    BY <1>1, <1>2, Typed
  <1> DEFINE y == Loop(todo, TRUE, 0)
  <1>4. 0 \in 0 .. FailureLimit
    BY OutboxAssumption
  <1>5. y \in RunRecord /\ y.todo = todo /\ y.answer = NULL /\ y.at = "loop"
    BY <1>4, LoopIsRun
  <1> HIDE DEF y
  <1>6. RunOK(y)
    BY <1>1, <1>5 DEF RunOK
  <1> QED
    BY <1>1, <1>3, <1>5, <1>6, TypesOneRun DEF Claim, TypeOK, history, y

LEMMA TypesDrop ==
    ASSUME TypeOK, RunsOK, NEW r \in Runs, Drop(r) \/ Block(r)
    PROVE  TypeOK' /\ RunsOK'
  <1> DEFINE m == row[Head(run[r].todo)]
  <1>1. AtRow(r) /\ m \in RowRecord
    BY Typed, FrontOfList DEF Drop, Block, AtRow
  <1>2. /\ [m EXCEPT !.status = "CANCELLED"] \in RowRecord
        /\ [m EXCEPT !.status = "SUPPRESSED", !.blocked = "no"] \in RowRecord
        /\ Parked(m) \in RowRecord
    BY <1>1, ParkedIsRow DEF RowRecord, RowStatus, Terminal
  <1>3. \E x \in RowRecord, delayed \in BOOLEAN : WithoutSending(r, x, delayed)
    BY <1>2 DEF Drop, Block
  <1> QED
    BY <1>1, <1>3, TypesWithoutSending

LEMMA TypesSend ==
    ASSUME TypeOK, RunsOK, NEW r \in Runs, NEW answer \in Answers, Send(r, answer)
    PROVE  TypeOK' /\ RunsOK'
  <1> DEFINE m == Head(run[r].todo)
             y == [run[r] EXCEPT
                     !.answer = IF answer = "LOST" THEN "TRANSIENT" ELSE answer,
                     !.loaded = [Nothing EXCEPT ![m] = row[m]]]
  <1>1. /\ run[r] \in RunRecord /\ run[r].todo # <<>> /\ run[r].at = "loop"
        /\ run[r].fails < FailureLimit /\ m \in Rows /\ row[m] \in RowRecord
        /\ row[m] # NULL
    BY Typed, FrontOfList, NullAssumption DEF Send, AtRow
  <1>2. (IF answer = "LOST" THEN "TRANSIENT" ELSE answer) \in Answers \ {"LOST"}
    BY DEF Answers
  <1>3. /\ [Nothing EXCEPT ![m] = row[m]] \in [Rows -> RowRecord \cup {NULL}]
        /\ [Nothing EXCEPT ![m] = row[m]][m] # NULL
    BY <1>1 DEF Nothing
  <1>4. /\ y \in RunRecord /\ y.todo = run[r].todo /\ y.at = "loop" /\ y.fails = run[r].fails
        /\ y.loaded[m] # NULL
    BY <1>1, <1>2, <1>3 DEF RunRecord
  <1>5. run' = [run EXCEPT ![r] = y]
    BY DEF Send, TypeOK
  <1> HIDE DEF y
  <1>6. RunOK(y)
    <2>1. \A i, j \in 1 .. Len(run[r].todo) : run[r].todo[i] = run[r].todo[j] => i = j
      BY <1>1 DEF RunsOK, RunOK, Send, AtRow
    <2> QED
      BY <1>1, <1>4, <2>1 DEF RunOK
  <1>7. /\ calls' \in [Rows -> Nat] /\ accepted' \in [Rows -> Nat]
        /\ lost' \in Nat /\ pauses' \in Nat
    <2>1. \A f \in [Rows -> Nat] : [f EXCEPT ![m] = @ + 1] \in [Rows -> Nat]
      BY <1>1
    <2>2. lost + 1 \in Nat /\ pauses + 1 \in Nat
      BY DEF TypeOK
    <2> QED
      BY <2>1, <2>2 DEF Send, TypeOK
  <1> QED
    BY <1>4, <1>5, <1>6, <1>7, TypesOneRun DEF Send, TypeOK, outbox

\* The answer r has, and the row it was given for, as it was and as it is.
LEMMA AnswerAtHand ==
    ASSUME TypeOK, RunsOK, NEW r \in Runs, run[r] # NULL, run[r].answer # NULL
    PROVE  /\ run[r].at = "loop" /\ run[r].todo # <<>> /\ run[r].fails < FailureLimit
           /\ run[r].answer \in Answers \ {"LOST"}
           /\ Head(run[r].todo) \in Rows /\ Head(run[r].todo) \in InHand(r)
           /\ row[Head(run[r].todo)] \in RowRecord
           /\ run[r].loaded[Head(run[r].todo)] \in RowRecord
           /\ Awaits(r, Head(run[r].todo))
  <1>1. run[r].todo # <<>> /\ run[r].at = "loop" /\ run[r].fails < FailureLimit
        /\ run[r].loaded[Head(run[r].todo)] # NULL
    BY DEF RunsOK, RunOK
  <1>2. /\ Head(run[r].todo) = run[r].todo[1] /\ 1 \in 1 .. Len(run[r].todo)
        /\ Head(run[r].todo) \in Rows
    BY <1>1, Typed, FrontOfList
  <1>3. run[r].answer \in Answers \ {"LOST"}
    BY Typed DEF RunRecord
  <1> QED
    BY <1>1, <1>2, <1>3, Typed DEF InHand, Awaits

\* What the answer makes of the row is flushed over what the row is by now.
LEMMA Commits ==
    ASSUME TypeOK, RunsOK, NEW r \in Runs, Commit(r)
    PROVE  LET m == Head(run[r].todo)
               loaded == run[r].loaded[m]
               computed == Answered(loaded, run[r].answer)
           IN  /\ loaded \in RowRecord /\ computed \in RowRecord
               /\ row' = [row EXCEPT ![m] = Flush(row[m], loaded, computed)]
               /\ Flush(row[m], loaded, computed) \in RowRecord
               /\ \E y \in RunRecord :
                     /\ run' = [run EXCEPT ![r] = y]
                     /\ y.todo = Tail(run[r].todo) /\ y.answer = NULL /\ y # NULL
                     /\ y.at \in {"loop", "stop"}
  <1> DEFINE m == Head(run[r].todo)
             loaded == run[r].loaded[m]
             computed == Answered(loaded, run[r].answer)
  <1>1. /\ run[r] # NULL /\ run[r].answer # NULL
        /\ run[r].answer \in Answers /\ m \in Rows
        /\ loaded \in RowRecord /\ row[m] \in RowRecord
        /\ run[r].todo # <<>> /\ run[r].fails < FailureLimit
    BY AnswerAtHand DEF Commit
  <1>2. computed \in RowRecord
    BY <1>1, AnsweredIsRow
  <1>3. Flush(row[m], loaded, computed) \in RowRecord
    BY <1>1, <1>2, FlushedFields
  <1>4. row' = [row EXCEPT ![m] = Flush(row[m], loaded, computed)]
    BY DEF Commit, TypeOK
  <1> DEFINE fails == IF run[r].answer = "ACCEPTED" THEN 0 ELSE run[r].fails + 1
             next == Loop(Tail(run[r].todo), FALSE, fails)
             y == IF run[r].answer \in {"ACCOUNT_HALT", "TRANSIENT_ACCOUNT"}
                    THEN [next EXCEPT !.at = "stop", !.fails = 0] ELSE next
  <1>5. fails \in 0 .. FailureLimit /\ 0 \in 0 .. FailureLimit /\ Tail(run[r].todo) \in Seq(Rows)
    BY <1>1, Typed, FrontOfList, OutboxAssumption
  <1>6. run' = [run EXCEPT ![r] = y]
    BY DEF Commit
  <1> HIDE DEF fails
  <1>7. /\ next \in RunRecord /\ next.todo = Tail(run[r].todo) /\ next.answer = NULL
        /\ next.at = "loop"
    BY <1>5, LoopIsRun
  <1> HIDE DEF next
  <1>8. /\ y \in RunRecord /\ y.todo = Tail(run[r].todo) /\ y.answer = NULL
        /\ y.at \in {"loop", "stop"}
    BY <1>5, <1>7 DEF RunRecord
  <1> HIDE DEF y
  <1>9. y # NULL
    BY <1>8, NullAssumption
  <1> QED
    BY <1>1, <1>2, <1>3, <1>4, <1>6, <1>8, <1>9

LEMMA TypesCommit ==
    ASSUME TypeOK, RunsOK, NEW r \in Runs, Commit(r)
    PROVE  TypeOK' /\ RunsOK'
  <1>1. PICK y \in RunRecord :
           /\ run' = [run EXCEPT ![r] = y]
           /\ y.todo = Tail(run[r].todo) /\ y.answer = NULL
           /\ y.at \in {"loop", "stop"}
    BY Commits
  <1>2. RunOK(y)
    BY <1>1, AnswerAtHand, RestOfRun DEF Commit
  <1>3. row' \in [Rows -> RowRecord]
    BY Commits, Typed DEF TypeOK
  <1>4. due' \in Seq(Rows) /\ sentToday' \in Nat
    BY WithoutIsQueue DEF Commit, TypeOK
  <1>5. UNCHANGED <<withdrawing, calls, accepted, lost, pauses>>
    BY DEF Commit, history
  <1> QED
    BY <1>1, <1>2, <1>3, <1>4, <1>5, TypesOneRun DEF TypeOK

LEMMA TypesEnd ==
    ASSUME TypeOK, RunsOK, NEW r \in Runs, End(r)
    PROVE  TypeOK' /\ RunsOK'
  <1>1. ASSUME NEW m \in Rows PROVE Released(r, m) \in RowRecord
    <2>1. \A s \in {"QUEUED", "RENDER_BLOCKED"} : [row[m] EXCEPT !.status = s] \in RowRecord
      BY DEF TypeOK, RowRecord, RowStatus, Claimable
    <2> QED
      BY <2>1, Typed, UnclaimedIsRow DEF Released
  <1>2. row' \in [Rows -> RowRecord]
    BY <1>1 DEF End
  <1> QED
    BY <1>2, TypesOneRun DEF End, TypeOK, history

\* A run that stops keeps its list and drops its answer.
LEMMA StoppedRun ==
    ASSUME TypeOK, RunsOK, NEW r \in Runs, Sigterm(r) \/ CommitFails(r)
    PROVE  \E y \in RunRecord :
              /\ run' = [run EXCEPT ![r] = y]
              /\ y.at = "stop" /\ y.todo = run[r].todo /\ y.answer = NULL /\ y # NULL
  <1>1. run[r] \in RunRecord
    BY Typed DEF Sigterm, CommitFails
  <1>2. CASE Sigterm(r)
    <2> DEFINE y == [run[r] EXCEPT !.at = "stop"]
    <2>1. y \in RunRecord /\ y.at = "stop" /\ y.todo = run[r].todo /\ y.answer = run[r].answer
      BY <1>1 DEF RunRecord
    <2>2. run' = [run EXCEPT ![r] = y] /\ run[r].answer = NULL
      BY <1>2 DEF Sigterm
    <2> HIDE DEF y
    <2> QED
      BY <2>1, <2>2, NullAssumption
  <1>3. CASE CommitFails(r)
    <2> DEFINE y == [run[r] EXCEPT !.at = "stop", !.answer = NULL, !.loaded = Nothing]
    <2>1. Nothing \in [Rows -> RowRecord \cup {NULL}]
      BY DEF Nothing
    <2>2. y \in RunRecord /\ y.at = "stop" /\ y.todo = run[r].todo /\ y.answer = NULL
      BY <1>1, <2>1 DEF RunRecord
    <2>3. run' = [run EXCEPT ![r] = y]
      BY <1>3 DEF CommitFails, TypeOK
    <2> HIDE DEF y
    <2> QED
      BY <2>2, <2>3, NullAssumption
  <1> QED
    BY <1>2, <1>3

LEMMA TypesStops ==
    ASSUME TypeOK, RunsOK, NEW r \in Runs, Sigterm(r) \/ CommitFails(r)
    PROVE  TypeOK' /\ RunsOK'
  <1>1. PICK y \in RunRecord :
           /\ run' = [run EXCEPT ![r] = y]
           /\ y.at = "stop" /\ y.todo = run[r].todo /\ y.answer = NULL
    BY StoppedRun
  <1>2. run[r] # NULL
    BY DEF Sigterm, CommitFails
  <1>3. RunOK(y)
    BY <1>1, <1>2 DEF RunsOK, RunOK
  <1>4. /\ UNCHANGED <<row, due, withdrawing, sentToday, calls, accepted>>
        /\ lost' \in Nat /\ pauses' \in Nat
    BY DEF Sigterm, CommitFails, outbox, history, TypeOK
  <1> QED
    BY <1>1, <1>3, <1>4, TypesOneRun DEF TypeOK

LEMMA TypesCrash ==
    ASSUME TypeOK, RunsOK, NEW r \in Runs, Crash(r)
    PROVE  TypeOK' /\ RunsOK'
  <1>1. \A m \in Rows : [row[m] EXCEPT !.owner = Gone] \in RowRecord
    BY DEF TypeOK, RowRecord
  <1>2. row' \in [Rows -> RowRecord]
    BY <1>1, Typed DEF Crash
  <1> QED
    <2>1. /\ UNCHANGED <<due, withdrawing, sentToday, calls, accepted, pauses>>
          /\ run' = [run EXCEPT ![r] = NULL] /\ lost' \in Nat
      BY DEF Crash, history, TypeOK
    <2> QED
      BY <1>2, <2>1, TypesOneRun DEF TypeOK

LEMMA TypesTime ==
    ASSUME TypeOK, RunsOK,
           SendAges \/ \E m \in Rows : FallDue(m) \/ GoStale(m) \/ Age(m)
    PROVE  TypeOK' /\ RunsOK'
  <1>1. row' \in [Rows -> RowRecord]
    <2>1. ASSUME NEW m \in Rows, GoStale(m) \/ Age(m) PROVE row' \in [Rows -> RowRecord]
      <3>1. /\ [row[m] EXCEPT !.stale = TRUE] \in RowRecord
            /\ [row[m] EXCEPT !.blocked = "aged"] \in RowRecord
        BY DEF TypeOK, RowRecord
      <3> QED
        BY <2>1, <3>1 DEF GoStale, Age, TypeOK
    <2> QED
      BY <2>1 DEF SendAges, FallDue, outbox, TypeOK
  <1>2. due' \in Seq(Rows) /\ sentToday' \in Nat
    <2>1. CASE SendAges
      BY <2>1 DEF SendAges, outbox, TypeOK
    <2>2. ASSUME NEW m \in Rows, FallDue(m) \/ GoStale(m) \/ Age(m)
          PROVE  due' \in Seq(Rows) /\ sentToday' \in Nat
      <3>1. Append(due, m) \in Seq(Rows)
        BY DEF TypeOK
      <3> QED
        BY <2>2, <3>1 DEF FallDue, GoStale, Age, TypeOK
    <2> QED
      BY <2>1, <2>2
  <1>3. UNCHANGED <<run, withdrawing, lost, pauses, calls, accepted>>
    BY DEF SendAges, FallDue, GoStale, Age, outbox, history
  <1> QED
    BY <1>1, <1>2, <1>3, TypesNoRun DEF TypeOK

LEMMA TypesStep == TypeOK /\ RunsOK /\ [Next]_vars => TypeOK' /\ RunsOK'
  <1> SUFFICES ASSUME TypeOK, RunsOK, [Next]_vars PROVE TypeOK' /\ RunsOK'
    OBVIOUS
  <1>1. CASE UNCHANGED vars
    BY <1>1 DEF vars, outbox, history, TypeOK, RunsOK, RunOK
  <1>2. ASSUME NEW r \in Runs, Drain(r) PROVE TypeOK' /\ RunsOK'
    BY <1>2, TypesStart, TypesReap, TypesClaim, TypesDrop, TypesSend, TypesCommit, TypesEnd
       DEF Drain
  <1> QED
    BY <1>1, <1>2, TypesEnqueue, TypesWithdraw, TypesStops, TypesCrash, TypesTime DEF Next

\* Every variable keeps its type: the rows, the queue, each run and its list.
THEOREM OutboxTypes == Spec => []TypeOK
  <1>1. TypeOK /\ RunsOK /\ [Next]_vars => (TypeOK /\ RunsOK)'
    BY TypesStep
  <1>2. TypeOK /\ RunsOK => TypeOK
    OBVIOUS
  <1> QED
    BY TypesAtFirst, <1>1, <1>2, PTL DEF Spec

-----------------------------------------------------------------------------
(***************************************************************************)
(* Claims: who holds a row, and how often it was tried.                    *)
(***************************************************************************)

\* Nothing that was lost is found again.
LEMMA ExclusiveBefore ==
    ASSUME TypeOK, [Next]_vars, Exclusive'
    PROVE  Exclusive
  <1>1. lost' \in {lost, lost + 1}
    BY DEF Next, Drain, Enqueue, WithdrawRead, WithdrawCommit, Start, Reap, Claim, Drop, Block,
           WithoutSending, Send, Commit, End, Sigterm, CommitFails, Crash, FallDue, GoStale,
           Age, SendAges, vars
  <1> QED
    BY <1>1 DEF Exclusive, TypeOK

\* The invariant, as far as claims go.
Books == HeldOK /\ StraysOK /\ SpentOK

\* The run that holds a row is named on it, so it is the only one.
LEMMA OneHolder ==
    ASSUME HeldOK, NEW r \in Runs, NEW s \in Runs, NEW m \in InHand(r), m \in InHand(s)
    PROVE  r = s
  BY DEF HeldOK

LEMMA AwaitsInHand ==
    ASSUME TypeOK, NEW r \in Runs, NEW m, Awaits(r, m)
    PROVE  m \in InHand(r) /\ m \in Rows
  <1>1. run[r] # NULL /\ run[r].todo # <<>> /\ m = Head(run[r].todo)
    BY DEF Awaits
  <1>2. m = run[r].todo[1] /\ 1 \in 1 .. Len(run[r].todo) /\ m \in Rows
    BY <1>1, Typed, FrontOfList
  <1> QED
    BY <1>1, <1>2 DEF InHand

\* A run without a list holds nothing.
LEMMA EmptyHand ==
    ASSUME NEW r \in Runs
    PROVE  /\ run[r] = NULL \/ run[r].todo = <<>> =>
                 InHand(r) = {} /\ \A m : ~Awaits(r, m)
           /\ run'[r] = NULL \/ run'[r].todo = <<>> =>
                 InHand(r)' = {} /\ \A m : ~Awaits(r, m)'
  <1>1. run[r] = NULL \/ run[r].todo = <<>> => InHand(r) = {} /\ \A m : ~Awaits(r, m)
    BY DEF InHand, Awaits
  <1>2. run'[r] = NULL \/ run'[r].todo = <<>> => InHand(r)' = {} /\ \A m : ~Awaits(r, m)'
    BY DEF InHand, Awaits
  <1> QED
    BY <1>1, <1>2

\* A step of one run changes no other run's hand.
LEMMA OtherRuns ==
    ASSUME TypeOK, NEW r \in Runs, NEW y, run' = [run EXCEPT ![r] = y]
    PROVE  /\ run'[r] = y
           /\ \A s \in Runs \ {r} : /\ run'[s] = run[s]
                                    /\ InHand(s)' = InHand(s)
                                    /\ \A m : Awaits(s, m)' <=> Awaits(s, m)
  BY DEF TypeOK, InHand, Awaits

\* A step that leaves the runs, the claims and the counts alone, and opens no
\* row that was closed.
LEMMA BooksNoRun ==
    ASSUME TypeOK, Books, UNCHANGED <<run, calls, accepted, lost>>,
           \A m \in Rows :
              /\ row'[m].owner = row[m].owner /\ row'[m].attempts = row[m].attempts
              /\ row'[m].stale => row'[m].owner = Gone
              /\ \/ row'[m].status = row[m].status
                 \/ row'[m].status = "CANCELLED"
                 \/ row[m].status = "NONE" /\ row'[m].status = "QUEUED"
    PROVE  Books'
  <1>1. \A r \in Runs : InHand(r)' = InHand(r) /\ (\A m : Awaits(r, m)' <=> Awaits(r, m))
                        /\ InHand(r) \subseteq Rows
    BY Typed DEF InHand, Awaits
  <1>2. HeldOK'
    BY <1>1 DEF Books, HeldOK, Claimed
  <1>3. StraysOK'
    BY DEF Books, StraysOK, Claimed
  <1>4. SpentOK'
    <2>1. \A m \in Rows : Alive(m)' => Alive(m)
      BY <1>1 DEF Alive, Terminal
    <2>2. \A m \in Rows : \A p, q : Spent(m, p, q)' <=> Spent(m, p, q)
      BY DEF Spent
    <2> QED
      BY <1>1, <2>1, <2>2 DEF Books, SpentOK
  <1> QED
    BY <1>2, <1>3, <1>4 DEF Books

LEMMA BooksEnqueue ==
    ASSUME TypeOK, Books, NEW m \in Rows, NEW deferred \in BOOLEAN, Enqueue(m, deferred)
    PROVE  Books'
  <1>1. \A x \in Rows : /\ row'[x].owner = row[x].owner /\ row'[x].attempts = row[x].attempts
                        /\ row'[x].stale = row[x].stale
                        /\ \/ row'[x].status = row[x].status
                           \/ row[x].status = "NONE" /\ row'[x].status = "QUEUED"
    BY DEF Enqueue, TypeOK, RowRecord
  <1> QED
    BY <1>1, BooksNoRun DEF Enqueue, history, Books, StraysOK

LEMMA BooksWithdraw ==
    ASSUME TypeOK, Books, WithdrawRead \/ WithdrawCommit
    PROVE  Books'
  <1>1. \A x \in Rows : /\ row'[x].owner = row[x].owner /\ row'[x].attempts = row[x].attempts
                        /\ row'[x].stale = row[x].stale
                        /\ row'[x].status \in {row[x].status, "CANCELLED"}
    BY DEF WithdrawRead, WithdrawCommit, TypeOK, RowRecord
  <1>2. UNCHANGED <<run, calls, accepted, lost>>
    BY DEF WithdrawRead, WithdrawCommit, history
  <1> QED
    BY <1>1, <1>2, BooksNoRun DEF Books, StraysOK

LEMMA BooksTime ==
    ASSUME TypeOK, Books,
           SendAges \/ \E m \in Rows : FallDue(m) \/ GoStale(m) \/ Age(m)
    PROVE  Books'
  <1>1. UNCHANGED <<run, calls, accepted, lost>>
    BY DEF SendAges, FallDue, GoStale, Age, outbox, history
  <1>2. ASSUME NEW m \in Rows, GoStale(m) \/ Age(m), NEW x \in Rows
        PROVE  /\ row'[x].owner = row[x].owner /\ row'[x].attempts = row[x].attempts
               /\ row'[x].stale => row[x].stale \/ row[x].owner = Gone
               /\ row'[x].status = row[x].status
    <2>1. row[m] \in RowRecord
      BY Typed
    <2>2. CASE GoStale(m)
      BY <2>1, <2>2 DEF GoStale, TypeOK, RowRecord
    <2>3. CASE Age(m)
      BY <2>1, <2>3 DEF Age, TypeOK, RowRecord
    <2> QED
      BY <1>2, <2>2, <2>3
  <1>3. \A x \in Rows :
           /\ row'[x].owner = row[x].owner /\ row'[x].attempts = row[x].attempts
           /\ row'[x].stale => row[x].stale \/ row[x].owner = Gone
           /\ row'[x].status = row[x].status
    BY <1>2 DEF SendAges, FallDue, outbox
  <1> QED
    BY <1>1, <1>3, BooksNoRun DEF Books, StraysOK

\* Writing x over the first row in hand and going on with the others: whatever
\* is still open after that was tried less often than the limit.
LEMMA BooksNextRow ==
    ASSUME TypeOK, RunsOK, Books, Exclusive,
           NEW r \in Runs, run[r] # NULL, run[r].todo # <<>>, run[r].at # "reap",
           NEW m, m = Head(run[r].todo),
           NEW x \in RowRecord, row' = [row EXCEPT ![m] = x],
           x.owner \in {row[m].owner, NULL}, x.stale \in {row[m].stale, FALSE},
           x.status \notin Terminal => /\ calls[m] <= x.attempts + lost
                                      /\ calls[m] + 1 <= MaxAttempts + lost
                                      /\ accepted[m] <= lost,
           NEW y, run' = [run EXCEPT ![r] = y], y.todo = Tail(run[r].todo), y.answer = NULL,
           y.at \in {"loop", "stop"}, y # NULL,
           UNCHANGED <<calls, accepted, lost>>
    PROVE  Books'
  <1>1. m \in InHand(r) /\ m \in Rows
    <2>1. m = run[r].todo[1] /\ 1 \in 1 .. Len(run[r].todo) /\ m \in Rows
      BY Typed, FrontOfList
    <2> QED
      BY <2>1 DEF InHand
  <1>2. /\ row'[m] = x
        /\ \A n \in Rows \ {m} : row'[n] = row[n]
    BY <1>1 DEF TypeOK
  <1>3. InHand(r)' = InHand(r) \ {m} /\ (\A n : ~Awaits(r, n)')
    <2>1. run'[r] = y
      BY OtherRuns
    <2>2. {y.todo[i] : i \in 1 .. Len(y.todo)} = InHand(r) \ {m}
      BY RestOfRun
    <2> QED
      BY <2>1, <2>2 DEF InHand, Awaits
  <1>4. \A s \in Runs \ {r} : /\ run'[s] = run[s] /\ InHand(s)' = InHand(s) /\ m \notin InHand(s)
                             /\ \A n : Awaits(s, n)' <=> Awaits(s, n)
    BY <1>1, OtherRuns, OneHolder DEF Books
  <1>5. \A s \in Runs : InHand(s) \subseteq Rows
    BY Typed DEF InHand
  <1>6. HeldOK'
    BY <1>2, <1>3, <1>4, <1>5 DEF Books, HeldOK
  <1>7. ~row[m].stale /\ row[m].owner = r /\ r # Gone /\ r # NULL
    BY <1>1, OutboxAssumption DEF Books, HeldOK, StraysOK, TypeOK, RowRecord
  <1>8. \A s \in Runs : ~(run'[s] # NULL /\ run'[s].at = "reap")
    <2>1. \A s \in Runs : run[s] # NULL /\ run[s].at = "reap" => s = r
      BY DEF Exclusive, Books, StraysOK, TypeOK
    <2> QED
      BY <1>4, <2>1, OtherRuns
  <1>9. StraysOK'
    <2>1. \A n \in Rows : row'[n].stale => row'[n].owner = Gone
      <3>1. ~x.stale
        BY <1>7
      <3>2. \A n \in Rows : row[n].stale => row[n].owner = Gone
        BY DEF Books, StraysOK
      <3> QED
        BY <1>2, <3>1, <3>2
    <2>2. \A n \in Rows : row'[n].owner = Gone => row[n].owner = Gone
      BY <1>2, <1>7, OutboxAssumption
    <2> QED
      BY <1>8, <2>1, <2>2 DEF Books, StraysOK
  <1>10. ASSUME NEW n \in Rows, n # m
         PROVE  /\ Alive(n)' => Alive(n)
                /\ \A s \in Runs : Awaits(s, n)' <=> Awaits(s, n)
                /\ \A s \in Runs : Awaits(s, n) => run'[s] = run[s]
                /\ \A p, q : Spent(n, p, q)' <=> Spent(n, p, q)
    <2>1. ~Awaits(r, n)
      BY <1>10 DEF Awaits
    <2>2. Alive(n)' => Alive(n)
      BY <1>2, <1>3, <1>4, <1>8, <1>10 DEF Alive
    <2> QED
      BY <1>2, <1>3, <1>4, <1>10, <2>1, <2>2 DEF Spent
  <1>11. /\ \A s \in Runs : ~Awaits(s, m)'
         /\ Alive(m)' => Spent(m, 0, 0)'
    <2>1. \A s \in Runs : ~Awaits(s, m)'
      BY <1>3, <1>4, AwaitsInHand
    <2>2. Alive(m)' => row'[m].status \notin Terminal
      BY <1>3, <1>4, <1>8 DEF Alive
    <2>3. x.status \notin Terminal => Spent(m, 0, 0)'
      BY <1>1, <1>2, OutboxAssumption DEF Spent, TypeOK, RowRecord
    <2> QED
      BY <1>2, <2>1, <2>2, <2>3
  <1>12. SpentOK'
    <2> SUFFICES ASSUME NEW n \in Rows
                 PROVE  /\ calls'[n] <= MaxAttempts + lost' /\ accepted'[n] <= 1 + lost'
                        /\ Alive(n)' /\ (\A s \in Runs : ~Awaits(s, n)') => Spent(n, 0, 0)'
                        /\ \A s \in Runs : Awaits(s, n)' =>
                             Spent(n, IF run[s].answer = "ACCOUNT_HALT" THEN 0 ELSE 1,
                                      IF run[s].answer = "ACCEPTED" THEN 1 ELSE 0)'
      BY DEF SpentOK
    <2>1. calls'[n] <= MaxAttempts + lost' /\ accepted'[n] <= 1 + lost'
      BY DEF Books, SpentOK
    <2>2. CASE n = m
      BY <1>11, <2>1, <2>2
    <2>3. CASE n # m
      BY <1>10, <2>1, <2>3 DEF Books, SpentOK
    <2> QED
      BY <2>2, <2>3
  <1> QED
    BY <1>6, <1>9, <1>12 DEF Books

LEMMA BooksWithoutSending ==
    ASSUME TypeOK, RunsOK, Books, Exclusive, NEW r \in Runs, Drop(r) \/ Block(r)
    PROVE  Books'
  <1> DEFINE m == Head(run[r].todo)
             y == Loop(Tail(run[r].todo), FALSE, 0)
  <1>1. /\ run[r] # NULL /\ run[r].at = "loop" /\ run[r].answer = NULL /\ run[r].todo # <<>>
        /\ m \in InHand(r) /\ m \in Rows /\ row[m] \in RowRecord
    <2>1. run[r] # NULL /\ run[r].at = "loop" /\ run[r].answer = NULL /\ run[r].todo # <<>>
      BY DEF Drop, Block, AtRow
    <2>2. m = run[r].todo[1] /\ 1 \in 1 .. Len(run[r].todo) /\ m \in Rows
      BY <2>1, Typed, FrontOfList
    <2> QED
      BY <2>1, <2>2, Typed DEF InHand
  <1>2. /\ calls[m] <= row[m].attempts + lost
        /\ calls[m] + 1 <= MaxAttempts + lost
        /\ accepted[m] <= lost
    <2>1. \A s \in Runs : ~Awaits(s, m)
      BY <1>1, AwaitsInHand, OneHolder DEF Awaits, Books
    <2>2. Alive(m)
      BY <1>1 DEF Alive
    <2>3. Spent(m, 0, 0)
      BY <1>1, <2>1, <2>2 DEF Books, SpentOK
    <2> QED
      BY <1>1, <2>3, OutboxAssumption DEF Spent, TypeOK, RowRecord
  <1>3. PICK x \in RowRecord :
           /\ row' = [row EXCEPT ![m] = x]
           /\ x.owner \in {row[m].owner, NULL} /\ x.stale \in {row[m].stale, FALSE}
           /\ x.attempts = row[m].attempts
    <2>1. CASE Block(r)
      BY <1>1, <2>1, ParkedIsRow DEF Block, WithoutSending
    <2>2. CASE Drop(r)
      <3> DEFINE a == [row[m] EXCEPT !.status = "CANCELLED"]
                 b == [row[m] EXCEPT !.status = "SUPPRESSED", !.blocked = "no"]
      <3>1. /\ a \in RowRecord /\ a.owner = row[m].owner /\ a.stale = row[m].stale
            /\ a.attempts = row[m].attempts
        BY <1>1 DEF RowRecord, RowStatus, Terminal
      <3>2. /\ b \in RowRecord /\ b.owner = row[m].owner /\ b.stale = row[m].stale
            /\ b.attempts = row[m].attempts
        BY <1>1 DEF RowRecord, RowStatus, Terminal
      <3>3. row' = [row EXCEPT ![m] = a] \/ row' = [row EXCEPT ![m] = b]
        BY <2>2 DEF Drop, WithoutSending
      <3> HIDE DEF a, b
      <3> QED
        BY <3>1, <3>2, <3>3
    <2> QED
      BY <2>1, <2>2
  <1>4. run' = [run EXCEPT ![r] = y] /\ UNCHANGED <<calls, accepted, lost>>
    BY DEF Drop, Block, WithoutSending, history
  <1>5. y.todo = Tail(run[r].todo) /\ y.answer = NULL /\ y.at = "loop" /\ y # NULL
    <2>1. 0 \in 0 .. FailureLimit /\ Tail(run[r].todo) \in Seq(Rows)
      BY <1>1, Typed, FrontOfList, OutboxAssumption
    <2> QED
      BY <2>1, LoopIsRun
  <1> HIDE DEF m, y
  <1> QED
    BY <1>1, <1>2, <1>3, <1>4, <1>5, BooksNextRow DEF m

LEMMA BooksCommit ==
    ASSUME TypeOK, RunsOK, Books, Exclusive, NEW r \in Runs, Commit(r)
    PROVE  Books'
  <1> DEFINE m == Head(run[r].todo)
             loaded == run[r].loaded[m]
             computed == Answered(loaded, run[r].answer)
             x == Flush(row[m], loaded, computed)
  <1>1. /\ run[r] # NULL /\ run[r].at = "loop" /\ run[r].todo # <<>>
        /\ run[r].answer \in Answers \ {"LOST"} /\ m \in Rows /\ m \in InHand(r)
        /\ row[m] \in RowRecord /\ Awaits(r, m)
    BY AnswerAtHand DEF Commit
  <1>2. /\ loaded \in RowRecord /\ computed \in RowRecord /\ x \in RowRecord
        /\ row' = [row EXCEPT ![m] = x]
    BY Commits
  <1>3. PICK y \in RunRecord :
           /\ run' = [run EXCEPT ![r] = y]
           /\ y.todo = Tail(run[r].todo) /\ y.answer = NULL /\ y # NULL
           /\ y.at \in {"loop", "stop"}
    BY Commits
  <1>4. Claimed(loaded.status) /\ loaded.attempts = row[m].attempts
    BY <1>1 DEF Books, HeldOK
  <1>5. /\ calls[m] <= row[m].attempts + lost
              + (IF run[r].answer = "ACCOUNT_HALT" THEN 0 ELSE 1)
        /\ calls[m] + 1 <= MaxAttempts + lost
              + (IF run[r].answer = "ACCOUNT_HALT" THEN 0 ELSE 1)
        /\ accepted[m] <= lost + (IF run[r].answer = "ACCEPTED" THEN 1 ELSE 0)
    BY <1>1 DEF Books, SpentOK, Spent
  <1> HIDE DEF m, loaded
  <1>6. /\ computed.owner \in {loaded.owner, NULL} /\ computed.stale \in {loaded.stale, FALSE}
        /\ \/ computed.status = "SENT" /\ computed.attempts = loaded.attempts
           \/ computed.status = "FAILED" /\ computed.attempts = loaded.attempts
           \/ run[r].answer = "ACCOUNT_HALT" /\ computed.status = "QUEUED"
              /\ computed.attempts = loaded.attempts
           \/ /\ run[r].answer \in {"TRANSIENT", "TRANSIENT_ACCOUNT"}
              /\ computed.attempts = loaded.attempts + 1
              /\ \/ computed.status = "FAILED"
                 \/ computed.status = "QUEUED" /\ loaded.attempts + 2 <= MaxAttempts
    BY <1>1, <1>2, AnsweredIsRow
  <1> HIDE DEF computed
  <1>7. /\ x.status = IF computed.status = loaded.status THEN row[m].status ELSE computed.status
        /\ x.owner = IF computed.owner = loaded.owner THEN row[m].owner ELSE computed.owner
        /\ x.stale = IF computed.stale = loaded.stale THEN row[m].stale ELSE computed.stale
        /\ x.attempts = IF computed.attempts = loaded.attempts THEN row[m].attempts
                        ELSE computed.attempts
    BY <1>1, <1>2, FlushedFields
  <1> HIDE DEF x
  <1>8. x.owner \in {row[m].owner, NULL} /\ x.stale \in {row[m].stale, FALSE}
    <2>1. x.owner \in {row[m].owner, NULL}
      BY <1>6, <1>7
    <2>2. x.stale \in {row[m].stale, FALSE}
      BY <1>6, <1>7, Zenon
    <2> QED
      BY <2>1, <2>2
  <1>9. x.status = computed.status /\ x.attempts = computed.attempts
    <2>1. computed.status \in {"SENT", "FAILED", "QUEUED"}
      BY <1>6
    <2>2. computed.status # loaded.status
      BY <1>4, <2>1 DEF Claimed
    <2>3. computed.attempts = loaded.attempts => x.attempts = computed.attempts
      BY <1>4, <1>7
    <2> QED
      BY <1>7, <2>2, <2>3
  <1>10. x.status \notin Terminal => /\ calls[m] <= x.attempts + lost
                                    /\ calls[m] + 1 <= MaxAttempts + lost
                                    /\ accepted[m] <= lost
    <2>1. /\ calls[m] \in Nat /\ accepted[m] \in Nat /\ lost \in Nat /\ MaxAttempts \in Nat
          /\ row[m].attempts \in Nat
      BY <1>1, OutboxAssumption DEF TypeOK, RowRecord
    <2>2. \/ run[r].answer = "ACCOUNT_HALT" /\ x.attempts = row[m].attempts
          \/ /\ run[r].answer \in {"TRANSIENT", "TRANSIENT_ACCOUNT"}
             /\ x.attempts = row[m].attempts + 1
             /\ x.status = "FAILED" \/ row[m].attempts + 2 <= MaxAttempts
          \/ x.status \in {"SENT", "FAILED"}
      BY <1>4, <1>9, <1>6
    <2>3. CASE run[r].answer = "ACCOUNT_HALT" /\ x.attempts = row[m].attempts
      BY <1>5, <2>1, <2>3
    <2>4. CASE /\ run[r].answer \in {"TRANSIENT", "TRANSIENT_ACCOUNT"}
               /\ x.attempts = row[m].attempts + 1
               /\ row[m].attempts + 2 <= MaxAttempts
      BY <1>5, <2>1, <2>4
    <2> QED
      BY <2>2, <2>3, <2>4 DEF Terminal
  <1>11. UNCHANGED <<calls, accepted, lost>>
    BY DEF Commit, history
  <1> QED
    BY <1>1, <1>2, <1>3, <1>8, <1>10, <1>11, BooksNextRow DEF m

\* While claims are exclusive, a run that reaps is the only one.
LEMMA OneReaper ==
    ASSUME TypeOK, Books, Exclusive, NEW r \in Runs, NEW s \in Runs,
           run[s] # NULL, run[s].at = "reap"
    PROVE  s = r
  BY DEF Exclusive, Books, StraysOK, TypeOK

LEMMA BooksStart ==
    ASSUME TypeOK, RunsOK, Books, Exclusive, NEW r \in Runs, Start(r)
    PROVE  Books'
  <1> DEFINE strays == {m \in Rows : row[m].status = "SENDING" /\ row[m].stale}
             loaded == [m \in Rows |-> IF m \in strays THEN row[m] ELSE NULL]
             y == [Loop(<<>>, TRUE, 0) EXCEPT
                     !.at = IF strays = {} THEN "claim" ELSE "reap", !.loaded = loaded]
  <1>1. /\ y.todo = <<>> /\ y.answer = NULL /\ y.loaded = loaded
        /\ y.at = "reap" => strays # {}
    BY DEF Loop
  <1>2. /\ run' = [run EXCEPT ![r] = y] /\ run[r] = NULL
        /\ UNCHANGED <<row, calls, accepted, lost>>
    BY DEF Start, outbox, history
  <1> HIDE DEF y
  <1>3. /\ run'[r] = y /\ InHand(r)' = {} /\ (\A m : ~Awaits(r, m)') /\ InHand(r) = {}
        /\ \A m : ~Awaits(r, m)
    BY <1>1, <1>2, OtherRuns, EmptyHand
  <1>4. \A s \in Runs : /\ InHand(s)' = InHand(s) /\ InHand(s) \subseteq Rows
                        /\ \A m : Awaits(s, m)' <=> Awaits(s, m)
                        /\ \A m : Awaits(s, m) => run'[s] = run[s]
    <2>1. \A s \in Runs : InHand(s) \subseteq Rows
      BY <1>3, Typed, EmptyHand
    <2> QED
      BY <1>2, <1>3, <2>1, OtherRuns
  <1>5. HeldOK'
    BY <1>2, <1>4 DEF Books, HeldOK
  <1>6. \A m \in Rows : loaded[m] # NULL => m \in strays /\ loaded[m] = row[m]
    OBVIOUS
  <1>7. StraysOK'
    <2>1. \A m \in strays : row[m].owner = Gone /\ lost > 0
      BY DEF Books, StraysOK
    <2>2. ASSUME NEW s \in Runs, run'[s] # NULL, run'[s].at = "reap" PROVE s = r
      BY <1>2, <2>2, OtherRuns, OneReaper
    <2>3. y.at = "reap" =>
             /\ lost > 0
             /\ \A m \in Rows : y.loaded[m] # NULL =>
                   /\ y.loaded[m].status = "SENDING" /\ Claimed(row[m].status)
                   /\ y.loaded[m].stale /\ y.loaded[m].attempts = row[m].attempts
      BY <1>1, <1>6, <2>1 DEF Claimed
    <2> QED
      BY <1>2, <1>3, <2>2, <2>3 DEF Books, StraysOK
  <1>8. SpentOK'
    <2>1. \A m \in Rows : Alive(m)' => Alive(m)
      <3> SUFFICES ASSUME NEW m \in Rows, Alive(m)', row[m].status \in Terminal PROVE Alive(m)
        BY DEF Alive
      <3>1. m \notin strays
        BY DEF Terminal
      <3>2. y.loaded[m] = NULL
        BY <1>1, <3>1
      <3> QED
        BY <1>2, <1>3, <1>4, <3>2, OtherRuns DEF Alive
    <2>2. \A m \in Rows : \A p, q : Spent(m, p, q)' <=> Spent(m, p, q)
      BY <1>2 DEF Spent
    <2> QED
      BY <1>2, <1>4, <2>1, <2>2 DEF Books, SpentOK
  <1> QED
    BY <1>5, <1>7, <1>8 DEF Books

LEMMA BooksReap ==
    ASSUME TypeOK, RunsOK, Books, Exclusive, NEW r \in Runs, Reap(r)
    PROVE  Books'
  <1> DEFINE loaded == run[r].loaded
             y == [Loop(<<>>, TRUE, 0) EXCEPT !.at = "claim"]
             x(m) == Flush(row[m], loaded[m], Reaped(loaded[m]))
  <1>1. /\ run[r] # NULL /\ run[r].at = "reap" /\ run[r].todo = <<>> /\ lost > 0
        /\ run' = [run EXCEPT ![r] = y]
        /\ UNCHANGED <<calls, accepted, lost>>
    BY DEF Reap, RunsOK, RunOK, Books, StraysOK, history
  <1>2. y.todo = <<>> /\ y.answer = NULL /\ y.at = "claim"
    BY DEF Loop
  <1> HIDE DEF y
  <1>3. \A s \in Runs : s = r
    BY <1>1 DEF Exclusive, TypeOK
  <1>4. /\ run'[r] = y /\ InHand(r)' = {} /\ InHand(r) = {}
        /\ \A m : ~Awaits(r, m) /\ ~Awaits(r, m)'
    BY <1>1, <1>2, OtherRuns, EmptyHand
  <1>5. ASSUME NEW m \in Rows, loaded[m] # NULL
        PROVE  /\ row'[m].status \in Claimable
               /\ row'[m].attempts \in {row[m].attempts, row[m].attempts + 1}
               /\ ~row'[m].stale
               /\ Alive(m)
    <2>1. /\ row[m] \in RowRecord /\ loaded[m] \in RowRecord
          /\ loaded[m].status = "SENDING" /\ loaded[m].stale
          /\ loaded[m].attempts = row[m].attempts
      BY <1>1, <1>5, Typed DEF Books, StraysOK
    <2>2. row'[m] = Flush(row[m], loaded[m], Reaped(loaded[m]))
      BY <1>5 DEF Reap
    <2>3. /\ Reaped(loaded[m]) \in RowRecord
          /\ Reaped(loaded[m]).status \in Claimable
          /\ Reaped(loaded[m]).attempts \in {loaded[m].attempts, loaded[m].attempts + 1}
          /\ Reaped(loaded[m]).stale = FALSE
      BY <2>1, ReapedIsRow
    <2>4. row'[m].status = Reaped(loaded[m]).status
      BY <2>1, <2>2, <2>3, FlushedFields DEF Claimable
    <2>5. row'[m].attempts = Reaped(loaded[m]).attempts
      BY <2>1, <2>2, <2>3, FlushedFields
    <2>6. row'[m].stale = FALSE
      BY <2>1, <2>2, <2>3, FlushedFields
    <2> QED
      BY <1>1, <1>5, <2>1, <2>3, <2>4, <2>5, <2>6 DEF Alive
  <1>6. ASSUME NEW m \in Rows, loaded[m] = NULL
        PROVE  row'[m] = row[m]
    BY <1>6 DEF Reap
  <1>7. HeldOK'
    BY <1>3, <1>4 DEF HeldOK
  <1>8. StraysOK'
    <2>1. \A m \in Rows : row'[m].stale => row'[m].owner = Gone
      BY <1>5, <1>6 DEF Books, StraysOK
    <2> QED
      BY <1>1, <1>2, <1>3, <1>4, <2>1 DEF StraysOK
  <1>9. SpentOK'
    <2>1. ASSUME NEW m \in Rows, Alive(m)' PROVE Spent(m, 0, 0)'
      <3>1. row'[m].status \notin Terminal
        BY <1>2, <1>3, <1>4, <2>1 DEF Alive
      <3>2. Alive(m)
        BY <1>5, <1>6, <3>1 DEF Alive
      <3>3. Spent(m, 0, 0)
        BY <1>3, <1>4, <3>2 DEF Books, SpentOK
      <3>4. /\ calls'[m] = calls[m] /\ accepted'[m] = accepted[m] /\ lost' = lost
            /\ row'[m].attempts \in {row[m].attempts, row[m].attempts + 1}
            /\ row[m].attempts \in Nat /\ calls[m] \in Nat /\ lost \in Nat
        BY <1>1, <1>5, <1>6, Typed DEF TypeOK, RowRecord
      <3> QED
        BY <3>3, <3>4 DEF Spent
    <2> QED
      BY <1>1, <1>3, <1>4, <2>1 DEF Books, SpentOK
  <1> QED
    BY <1>7, <1>8, <1>9 DEF Books

LEMMA BooksClaim ==
    ASSUME TypeOK, RunsOK, Books, Exclusive, NEW r \in Runs, Claim(r)
    PROVE  Books'
  <1>1. PICK todo \in Seq(Rows) :
           /\ \A i \in 1 .. Len(todo) : row[todo[i]].status \in Claimable
           /\ row' = [m \in Rows |->
                        IF m \in {todo[i] : i \in 1 .. Len(todo)}
                          THEN [row[m] EXCEPT !.status = "SENDING", !.owner = r,
                                              !.stale = FALSE]
                          ELSE row[m]]
           /\ run' = [run EXCEPT ![r] = Loop(todo, TRUE, 0)]
    BY Claims
  <1> DEFINE mine == {todo[i] : i \in 1 .. Len(todo)}
             y == Loop(todo, TRUE, 0)
  <1>2. y.todo = todo /\ y.answer = NULL /\ y.at = "loop" /\ y # NULL
    <2>1. 0 \in 0 .. FailureLimit
      BY OutboxAssumption
    <2> QED
      BY <2>1, LoopIsRun
  <1>3. /\ run[r] # NULL /\ run[r].at = "claim" /\ run[r].todo = <<>>
        /\ UNCHANGED <<calls, accepted, lost>>
    BY DEF Claim, RunsOK, RunOK, history
  <1>4. run' = [run EXCEPT ![r] = y] /\ mine \subseteq Rows
    <2>1. \A i \in 1 .. Len(todo) : todo[i] \in Rows
      OBVIOUS
    <2> QED
      BY <1>1, <2>1
  <1> HIDE DEF y
  <1>5. /\ run'[r] = y /\ InHand(r)' = mine /\ (\A m : ~Awaits(r, m)')
        /\ InHand(r) = {} /\ (\A m : ~Awaits(r, m))
    <2>1. run'[r] = y
      BY <1>4, OtherRuns
    <2>2. InHand(r)' = mine /\ (\A m : ~Awaits(r, m)')
      BY <1>2, <2>1 DEF InHand, Awaits
    <2> QED
      BY <1>3, <2>1, <2>2, EmptyHand
  <1>6. ASSUME NEW m \in mine
        PROVE  /\ row'[m].status = "SENDING" /\ row'[m].owner = r /\ row'[m].stale = FALSE
               /\ row'[m].attempts = row[m].attempts
               /\ row[m].status \in Claimable
    BY <1>1, <1>4, Typed DEF RowRecord
  <1>7. \A m \in Rows \ mine : row'[m] = row[m]
    BY <1>1
  <1>8. \A s \in Runs \ {r} : /\ run'[s] = run[s] /\ InHand(s)' = InHand(s)
                              /\ InHand(s) \subseteq Rows \ mine
                              /\ \A m : Awaits(s, m)' <=> Awaits(s, m)
    <2>1. \A m \in mine : ~Claimed(row[m].status)
      BY <1>6 DEF Claimed, Claimable
    <2>2. \A s \in Runs : InHand(s) \subseteq Rows \ mine
      BY <2>1, Typed, EmptyHand DEF Books, HeldOK
    <2> QED
      BY <1>4, <2>2, OtherRuns
  <1>9. \A s \in Runs : ~(run'[s] # NULL /\ run'[s].at = "reap")
                         /\ ~(run[s] # NULL /\ run[s].at = "reap")
    BY <1>2, <1>3, <1>5, <1>8, OneReaper
  <1>10. HeldOK'
    <2>1. \A m \in InHand(r)' : Claimed(row'[m].status) /\ row'[m].owner = r
      BY <1>5, <1>6 DEF Claimed
    <2> QED
      BY <1>5, <1>7, <1>8, <2>1 DEF Books, HeldOK
  <1>11. StraysOK'
    <2>1. \A m \in Rows : row'[m].stale => row'[m].owner = Gone
      BY <1>6, <1>7 DEF Books, StraysOK
    <2>2. \A m \in Rows : row'[m].owner = Gone => lost' > 0
      BY <1>3, <1>6, <1>7, OutboxAssumption DEF Books, StraysOK
    <2> QED
      BY <1>9, <2>1, <2>2 DEF StraysOK
  <1>12. SpentOK'
    <2>1. \A m \in Rows : Alive(m)' => Alive(m)
      <3>1. \A m \in mine : Alive(m)
        BY <1>6 DEF Alive, Claimable, Terminal
      <3>2. ASSUME NEW m \in Rows \ mine, Alive(m)' PROVE Alive(m)
        <4>1. CASE row'[m].status \notin Terminal
          BY <1>7, <4>1 DEF Alive
        <4>2. CASE \E s \in Runs : m \in InHand(s)'
          BY <1>5, <1>8, <3>2, <4>2 DEF Alive
        <4> QED
          BY <1>9, <3>2, <4>1, <4>2 DEF Alive
      <3> QED
        BY <3>1, <3>2
    <2>2. \A m \in Rows : \A p, q : Spent(m, p, q)' <=> Spent(m, p, q)
      BY <1>3, <1>6, <1>7 DEF Spent
    <2>3. \A s \in Runs, m \in Rows : Awaits(s, m)' <=> Awaits(s, m)
      BY <1>5, <1>8
    <2>4. \A s \in Runs, m \in Rows : Awaits(s, m) => run'[s] = run[s]
      BY <1>5, <1>8
    <2> QED
      BY <1>3, <2>1, <2>2, <2>3, <2>4 DEF Books, SpentOK
  <1> QED
    BY <1>10, <1>11, <1>12 DEF Books

\* Giving a row to SES adds to its calls at most what the answer stands for.
LEMMA SpentBySend ==
    ASSUME TypeOK, NEW r \in Runs, NEW answer \in Answers, Send(r, answer),
           NEW m, m = Head(run[r].todo), m \in Rows, Spent(m, 0, 0)
    PROVE  /\ calls'[m] <= MaxAttempts + lost' /\ accepted'[m] <= 1 + lost'
           /\ Spent(m, IF answer = "ACCOUNT_HALT" THEN 0 ELSE 1,
                       IF answer = "ACCEPTED" THEN 1 ELSE 0)'
  <1>1. /\ calls[m] \in Nat /\ accepted[m] \in Nat /\ lost \in Nat /\ MaxAttempts \in Nat
        /\ row[m].attempts \in Nat /\ row' = row
    BY Typed, OutboxAssumption DEF TypeOK, RowRecord, Send, outbox
  <1>2. /\ calls'[m] = IF answer = "ACCOUNT_HALT" THEN calls[m] ELSE calls[m] + 1
        /\ accepted'[m] = IF answer \in {"ACCEPTED", "LOST"} THEN accepted[m] + 1 ELSE accepted[m]
        /\ lost' = IF answer = "LOST" THEN lost + 1 ELSE lost
    BY DEF Send, TypeOK
  <1>3. /\ calls[m] <= row[m].attempts + lost
        /\ calls[m] + 1 <= MaxAttempts + lost
        /\ accepted[m] <= lost
    BY <1>1 DEF Spent
  <1>4. CASE answer = "ACCOUNT_HALT"
    BY <1>1, <1>2, <1>3, <1>4 DEF Spent
  <1>5. CASE answer = "ACCEPTED"
    BY <1>1, <1>2, <1>3, <1>5 DEF Spent
  <1>6. CASE answer = "LOST"
    BY <1>1, <1>2, <1>3, <1>6 DEF Spent
  <1>7. CASE answer \notin {"ACCOUNT_HALT", "ACCEPTED", "LOST"}
    BY <1>1, <1>2, <1>3, <1>7 DEF Spent
  <1> QED
    BY <1>4, <1>5, <1>6, <1>7

LEMMA BooksSend ==
    ASSUME TypeOK, RunsOK, Books, Exclusive, NEW r \in Runs, NEW answer \in Answers,
           Send(r, answer), NEW m, m = Head(run[r].todo)
    PROVE  Books'
  <1> DEFINE a == IF answer = "LOST" THEN "TRANSIENT" ELSE answer
             y == [run[r] EXCEPT !.answer = a, !.loaded = [Nothing EXCEPT ![m] = row[m]]]
  <1>1. /\ run[r] \in RunRecord /\ run[r] # NULL /\ run[r].todo # <<>> /\ run[r].at = "loop"
        /\ run[r].answer = NULL /\ m \in InHand(r) /\ m \in Rows
    <2>1. run[r] # NULL /\ run[r].todo # <<>> /\ run[r].at = "loop" /\ run[r].answer = NULL
      BY DEF Send, AtRow
    <2>2. m = run[r].todo[1] /\ 1 \in 1 .. Len(run[r].todo) /\ m \in Rows
      BY <2>1, Typed, FrontOfList
    <2> QED
      BY <2>1, <2>2, Typed DEF InHand
  <1>2. /\ y.answer = a /\ y.todo = run[r].todo /\ y.at = "loop"
        /\ y.loaded[m] = row[m]
    BY <1>1 DEF RunRecord, Nothing
  <1>3. run' = [run EXCEPT ![r] = y] /\ UNCHANGED row
    BY DEF Send, TypeOK, outbox
  <1> HIDE DEF y
  <1>4. /\ run'[r] = y /\ InHand(r)' \subseteq InHand(r)
        /\ (\A n : ~Awaits(r, n)) /\ (\A n : Awaits(r, n)' => n = m)
    <2>1. run'[r] = y
      BY <1>3, OtherRuns
    <2> QED
      BY <1>1, <1>2, <2>1 DEF InHand, Awaits
  <1>5. \A s \in Runs \ {r} : /\ run'[s] = run[s] /\ InHand(s)' = InHand(s) /\ m \notin InHand(s)
                              /\ \A n : Awaits(s, n)' <=> Awaits(s, n)
    BY <1>1, <1>3, OtherRuns, OneHolder DEF Books
  <1>6. \A s \in Runs : InHand(s) \subseteq Rows
    BY <1>1, Typed, EmptyHand
  <1>7. \A s \in Runs : ~(run'[s] # NULL /\ run'[s].at = "reap")
                         /\ ~(run[s] # NULL /\ run[s].at = "reap")
    BY <1>1, <1>2, <1>4, <1>5, OneReaper
  <1>8. HeldOK'
    <2>1. \A n \in InHand(r)' : /\ Claimed(row[n].status) /\ row[n].owner = r
                                /\ Awaits(r, n)' => Claimed(y.loaded[n].status)
                                                    /\ y.loaded[n].attempts = row[n].attempts
      BY <1>1, <1>2, <1>4 DEF Books, HeldOK
    <2> QED
      BY <1>3, <1>4, <1>5, <2>1 DEF Books, HeldOK
  <1>9. lost' \in {lost, lost + 1} /\ lost \in Nat
    BY DEF Send, TypeOK
  <1>10. StraysOK'
    BY <1>3, <1>7, <1>9 DEF Books, StraysOK
  <1>11. ASSUME NEW n \in Rows, n # m
         PROVE  /\ calls'[n] = calls[n] /\ accepted'[n] = accepted[n]
                /\ Alive(n)' => Alive(n)
                /\ \A s \in Runs : Awaits(s, n)' <=> Awaits(s, n)
                /\ \A s \in Runs : Awaits(s, n) => run'[s] = run[s]
    <2>1. calls'[n] = calls[n] /\ accepted'[n] = accepted[n]
      BY <1>11 DEF Send, TypeOK
    <2>2. Alive(n)' => Alive(n)
      BY <1>3, <1>4, <1>5, <1>7 DEF Alive
    <2> QED
      BY <1>4, <1>5, <1>11, <2>1, <2>2
  <1>12. ASSUME NEW n \in Rows, n # m, NEW p \in {0, 1}, NEW q \in {0, 1}, Spent(n, p, q)
         PROVE  Spent(n, p, q)'
    <2>1. calls[n] \in Nat /\ accepted[n] \in Nat /\ row[n].attempts \in Nat /\ MaxAttempts \in Nat
      BY Typed, OutboxAssumption DEF TypeOK, RowRecord
    <2> QED
      BY <1>3, <1>9, <1>11, <1>12, <2>1 DEF Spent
  <1>13. Spent(m, 0, 0)
    <2>1. Alive(m) /\ \A s \in Runs : ~Awaits(s, m)
      BY <1>1, <1>4, <1>5, AwaitsInHand DEF Alive
    <2> QED
      BY <1>1, <2>1 DEF Books, SpentOK
  <1>14. /\ calls'[m] <= MaxAttempts + lost' /\ accepted'[m] <= 1 + lost'
         /\ Spent(m, IF answer = "ACCOUNT_HALT" THEN 0 ELSE 1,
                     IF answer = "ACCEPTED" THEN 1 ELSE 0)'
    BY <1>1, <1>13, SpentBySend
  <1>15. /\ run'[r].answer = "ACCOUNT_HALT" <=> answer = "ACCOUNT_HALT"
         /\ run'[r].answer = "ACCEPTED" <=> answer = "ACCEPTED"
    BY <1>2, <1>4
  <1>16. Awaits(r, m)'
    <2>1. a \in Answers /\ a # NULL
      BY NullAssumption DEF Answers
    <2>2. [Nothing EXCEPT ![m] = row[m]] \in [Rows -> RowRecord \cup {NULL}]
      BY Typed DEF Nothing
    <2>3. y # NULL
      <3>1. a \in Answers \ {"LOST"}
        BY DEF Answers
      <3>2. y \in RunRecord
        BY <1>1, <2>2, <3>1 DEF y, RunRecord
      <3> QED
        BY <3>2, NullAssumption
    <2>4. run'[r] = y /\ y.answer = a /\ y.todo = run[r].todo
      BY <1>2, <1>4
    <2> QED
      BY <1>1, <2>1, <2>3, <2>4 DEF Awaits
  <1>17. SpentOK'
    <2> SUFFICES ASSUME NEW n \in Rows
                 PROVE  /\ calls'[n] <= MaxAttempts + lost' /\ accepted'[n] <= 1 + lost'
                        /\ Alive(n)' /\ (\A s \in Runs : ~Awaits(s, n)') => Spent(n, 0, 0)'
                        /\ \A s \in Runs : Awaits(s, n)' =>
                             Spent(n, IF run[s].answer = "ACCOUNT_HALT" THEN 0 ELSE 1,
                                      IF run[s].answer = "ACCEPTED" THEN 1 ELSE 0)'
      BY DEF SpentOK
    <2>1. CASE n = m
      <3>1. \A s \in Runs : Awaits(s, m)' => s = r
        BY <1>5, AwaitsInHand, Zenon
      <3> QED
        BY <1>14, <1>15, <1>16, <2>1, <3>1
    <2>2. CASE n # m
      <3>1. calls'[n] <= MaxAttempts + lost' /\ accepted'[n] <= 1 + lost'
        BY <1>9, <1>11, <2>2, OutboxAssumption DEF Books, SpentOK, TypeOK
      <3>2. Alive(n)' /\ (\A s \in Runs : ~Awaits(s, n)') => Spent(n, 0, 0)'
        BY <1>11, <1>12, <2>2 DEF Books, SpentOK
      <3>3. ASSUME NEW s \in Runs, Awaits(s, n)'
            PROVE  Spent(n, IF run[s].answer = "ACCOUNT_HALT" THEN 0 ELSE 1,
                            IF run[s].answer = "ACCEPTED" THEN 1 ELSE 0)'
        <4>1. Awaits(s, n) /\ run'[s] = run[s]
          BY <1>11, <2>2, <3>3
        <4>2. Spent(n, IF run[s].answer = "ACCOUNT_HALT" THEN 0 ELSE 1,
                       IF run[s].answer = "ACCEPTED" THEN 1 ELSE 0)
          BY <4>1 DEF Books, SpentOK
        <4> QED
          BY <1>12, <2>2, <4>1, <4>2
      <3> QED
        BY <3>1, <3>2, <3>3
    <2> QED
      BY <2>1, <2>2
  <1> QED
    BY <1>8, <1>10, <1>17 DEF Books

LEMMA BooksEnd ==
    ASSUME TypeOK, RunsOK, Books, Exclusive, NEW r \in Runs, End(r)
    PROVE  Books'
  <1>1. /\ run[r] # NULL /\ run[r].at # "reap" /\ run[r].answer = NULL
        /\ run' = [run EXCEPT ![r] = NULL]
        /\ UNCHANGED <<calls, accepted, lost>>
    BY DEF End, history
  <1>2. /\ run'[r] = NULL /\ InHand(r)' = {} /\ (\A m : ~Awaits(r, m)')
        /\ (\A m : ~Awaits(r, m))
    <2>1. run'[r] = NULL
      BY <1>1, OtherRuns
    <2> QED
      BY <1>1, <2>1, EmptyHand DEF Awaits
  <1>3. \A s \in Runs \ {r} : /\ run'[s] = run[s] /\ InHand(s)' = InHand(s)
                              /\ InHand(s) \subseteq Rows
                              /\ \A n : Awaits(s, n)' <=> Awaits(s, n)
    <2>1. \A s \in Runs : InHand(s) \subseteq Rows
      BY Typed, EmptyHand
    <2> QED
      BY <1>1, <2>1, OtherRuns
  <1>4. ASSUME NEW m \in Rows
        PROVE  \/ row'[m] = row[m]
               \/ /\ row[m].owner = r /\ row[m].status = "SENDING"
                  /\ row'[m].owner = NULL /\ row'[m].stale = FALSE
                  /\ row'[m].attempts = row[m].attempts
    <2>1. \A s \in {"QUEUED", "RENDER_BLOCKED"} :
             /\ [row[m] EXCEPT !.status = s] \in RowRecord
             /\ [row[m] EXCEPT !.status = s].attempts = row[m].attempts
      BY Typed DEF RowRecord, RowStatus, Claimable
    <2>2. row'[m] = Released(r, m)
      BY DEF End
    <2> QED
      BY <2>1, <2>2, UnclaimedIsRow DEF Released
  <1>5. \A s \in Runs : ~(run'[s] # NULL /\ run'[s].at = "reap")
    BY <1>1, <1>2, <1>3, OneReaper
  <1>6. HeldOK'
    <2>1. ASSUME NEW s \in Runs \ {r}, NEW m \in InHand(s) PROVE row'[m] = row[m]
      <3>1. m \in Rows /\ row[m].owner = s
        BY <1>3 DEF Books, HeldOK
      <3> QED
        BY <1>4, <3>1
    <2> QED
      BY <1>2, <1>3, <2>1 DEF Books, HeldOK
  <1>7. StraysOK'
    <2>1. \A m \in Rows : row'[m].stale => row'[m].owner = Gone
      BY <1>4 DEF Books, StraysOK
    <2>2. \A m \in Rows : row'[m].owner = Gone => lost' > 0
      BY <1>1, <1>4, OutboxAssumption DEF Books, StraysOK
    <2> QED
      BY <1>5, <2>1, <2>2 DEF StraysOK
  <1>8. SpentOK'
    <2>1. ASSUME NEW m \in Rows, Alive(m)' PROVE Alive(m)
      <3>1. CASE row'[m].status \notin Terminal
        BY <1>4, <3>1 DEF Alive, Terminal
      <3>2. CASE \E s \in Runs : m \in InHand(s)'
        BY <1>2, <1>3, <3>2 DEF Alive
      <3> QED
        BY <1>5, <2>1, <3>1, <3>2 DEF Alive
    <2>2. \A m \in Rows : \A p, q : Spent(m, p, q)' <=> Spent(m, p, q)
      BY <1>1, <1>4 DEF Spent
    <2>3. \A s \in Runs, m \in Rows : /\ Awaits(s, m)' <=> Awaits(s, m)
                                      /\ Awaits(s, m) => run'[s] = run[s]
      BY <1>2, <1>3
    <2> QED
      BY <1>1, <2>1, <2>2, <2>3 DEF Books, SpentOK
  <1> QED
    BY <1>6, <1>7, <1>8 DEF Books

\* What was lost covers the answer that is dropped with it.
LEMMA SpentByLoss ==
    ASSUME TypeOK, NEW m \in Rows, NEW p \in {0, 1}, NEW q \in {0, 1}, Spent(m, p, q),
           calls' = calls, accepted' = accepted, row'[m].attempts = row[m].attempts,
           lost' = lost + 1
    PROVE  Spent(m, 0, 0)'
  <1>1. /\ calls[m] \in Nat /\ accepted[m] \in Nat /\ lost \in Nat /\ MaxAttempts \in Nat
        /\ row[m].attempts \in Nat
    BY Typed, OutboxAssumption DEF TypeOK, RowRecord
  <1> QED
    BY <1>1 DEF Spent

\* A row that is alive costs a loss at most one call and one acceptance.
LEMMA AliveByLoss ==
    ASSUME TypeOK, Books, NEW m \in Rows, Alive(m),
           calls' = calls, accepted' = accepted, row'[m].attempts = row[m].attempts,
           lost' = lost + 1
    PROVE  Spent(m, 0, 0)'
  <1>1. CASE \A s \in Runs : ~Awaits(s, m)
    BY <1>1, SpentByLoss DEF Books, SpentOK
  <1>2. ASSUME NEW s \in Runs, Awaits(s, m) PROVE Spent(m, 0, 0)'
    <2>1. PICK p \in {0, 1}, q \in {0, 1} : Spent(m, p, q)
      BY <1>2 DEF Books, SpentOK
    <2> QED
      BY <2>1, SpentByLoss
  <1> QED
    BY <1>1, <1>2

LEMMA BooksStops ==
    ASSUME TypeOK, RunsOK, Books, Exclusive, NEW r \in Runs, Sigterm(r) \/ CommitFails(r)
    PROVE  Books'
  <1>1. PICK y \in RunRecord :
           /\ run' = [run EXCEPT ![r] = y]
           /\ y.at = "stop" /\ y.todo = run[r].todo /\ y.answer = NULL /\ y # NULL
    BY StoppedRun
  <1>2. /\ run[r] # NULL /\ UNCHANGED <<row, calls, accepted>>
        /\ \/ run[r].answer = NULL /\ lost' = lost
           \/ lost' = lost + 1
    BY DEF Sigterm, CommitFails, outbox, history
  <1>3. run[r].at # "reap"
    BY AnswerAtHand DEF Sigterm, CommitFails
  <1>4. run'[r] = y /\ InHand(r)' = InHand(r) /\ (\A m : ~Awaits(r, m)')
    <2>1. run'[r] = y
      BY <1>1, OtherRuns
    <2> QED
      BY <1>1, <1>2, <2>1 DEF InHand, Awaits
  <1>5. \A s \in Runs \ {r} : /\ run'[s] = run[s] /\ InHand(s)' = InHand(s)
                              /\ \A n : Awaits(s, n)' <=> Awaits(s, n)
    BY <1>1, OtherRuns
  <1>6. \A s \in Runs : InHand(s) \subseteq Rows
    BY Typed, EmptyHand
  <1>7. \A s \in Runs : ~(run'[s] # NULL /\ run'[s].at = "reap")
    BY <1>1, <1>3, <1>4, <1>5, OneReaper
  <1>8. lost' \in {lost, lost + 1} /\ lost \in Nat
    BY <1>2 DEF TypeOK
  <1>9. HeldOK'
    BY <1>2, <1>4, <1>5 DEF Books, HeldOK
  <1>10. StraysOK'
    BY <1>2, <1>7, <1>8 DEF Books, StraysOK
  <1>11. \A m \in Rows : Alive(m)' => Alive(m)
    BY <1>2, <1>4, <1>5, <1>7 DEF Alive
  <1>12. SpentOK'
    <2> SUFFICES ASSUME NEW n \in Rows
                 PROVE  /\ calls'[n] <= MaxAttempts + lost' /\ accepted'[n] <= 1 + lost'
                        /\ Alive(n)' /\ (\A s \in Runs : ~Awaits(s, n)') => Spent(n, 0, 0)'
                        /\ \A s \in Runs : Awaits(s, n)' =>
                             Spent(n, IF run[s].answer = "ACCOUNT_HALT" THEN 0 ELSE 1,
                                      IF run[s].answer = "ACCEPTED" THEN 1 ELSE 0)'
      BY DEF SpentOK
    <2>1. calls'[n] <= MaxAttempts + lost' /\ accepted'[n] <= 1 + lost'
      BY <1>2, <1>8, OutboxAssumption DEF Books, SpentOK, TypeOK
    <2>2. \A s \in Runs : Awaits(s, n)' => Awaits(s, n) /\ run'[s] = run[s]
      BY <1>4, <1>5
    <2>3. CASE lost' = lost + 1
      <3>1. Alive(n)' => Spent(n, 0, 0)'
        BY <1>2, <1>11, <2>3, AliveByLoss
      <3>2. ASSUME NEW s \in Runs, Awaits(s, n)'
            PROVE  Spent(n, IF run[s].answer = "ACCOUNT_HALT" THEN 0 ELSE 1,
                            IF run[s].answer = "ACCEPTED" THEN 1 ELSE 0)'
        <4>1. Alive(n)
          BY <2>2, <3>2, AwaitsInHand DEF Alive
        <4>2. Spent(n, 0, 0)'
          BY <1>2, <2>3, <4>1, AliveByLoss
        <4>3. /\ calls[n] \in Nat /\ accepted[n] \in Nat /\ row[n].attempts \in Nat
              /\ MaxAttempts \in Nat
          BY Typed, OutboxAssumption DEF TypeOK, RowRecord
        <4>4. /\ calls'[n] \in Nat /\ accepted'[n] \in Nat /\ row'[n].attempts \in Nat
              /\ lost' \in Nat
          BY <1>2, <1>8, <4>3
        <4>5. ASSUME NEW p \in {0, 1}, NEW q \in {0, 1} PROVE Spent(n, p, q)'
          BY <4>2, <4>3, <4>4 DEF Spent
        <4> QED
          BY <4>5
      <3> QED
        BY <2>1, <3>1, <3>2
    <2>4. CASE lost' = lost /\ run[r].answer = NULL
      <3>1. \A p, q : Spent(n, p, q)' <=> Spent(n, p, q)
        BY <1>2, <2>4 DEF Spent
      <3>2. \A s \in Runs : Awaits(s, n)' <=> Awaits(s, n)
        BY <1>4, <1>5, <2>4 DEF Awaits
      <3> QED
        BY <1>11, <2>1, <2>2, <3>1, <3>2 DEF Books, SpentOK
    <2> QED
      BY <1>2, <2>3, <2>4
  <1> QED
    BY <1>9, <1>10, <1>12 DEF Books

LEMMA BooksCrash ==
    ASSUME TypeOK, RunsOK, Books, Exclusive', NEW r \in Runs, Crash(r)
    PROVE  Books'
  <1>1. /\ run' = [run EXCEPT ![r] = NULL] /\ lost' = lost + 1 /\ lost' > 0 /\ lost \in Nat
        /\ UNCHANGED <<calls, accepted>>
    BY DEF Crash, history, TypeOK
  <1>2. \A s \in Runs : s = r
    BY <1>1 DEF Exclusive
  <1>3. run'[r] = NULL /\ InHand(r)' = {} /\ (\A m : ~Awaits(r, m)')
    BY <1>1, OtherRuns, EmptyHand
  <1>4. \A m \in Rows : /\ row'[m].status = row[m].status /\ row'[m].attempts = row[m].attempts
                        /\ row'[m].stale = row[m].stale
                        /\ row'[m].owner = row[m].owner \/ row[m].owner = r
    BY Typed DEF Crash, RowRecord
  <1>5. HeldOK'
    BY <1>2, <1>3 DEF HeldOK
  <1>6. StraysOK'
    <2>1. \A m \in Rows : row'[m].stale => row'[m].owner = Gone
      BY <1>4, OutboxAssumption DEF Books, StraysOK
    <2> QED
      BY <1>1, <1>2, <1>3, <2>1 DEF StraysOK
  <1>7. SpentOK'
    <2>1. ASSUME NEW m \in Rows, Alive(m)' PROVE Spent(m, 0, 0)'
      <3>1. Alive(m)
        BY <1>2, <1>3, <1>4, <2>1 DEF Alive
      <3> QED
        BY <1>1, <1>4, <3>1, AliveByLoss
    <2>2. \A m \in Rows : calls'[m] <= MaxAttempts + lost' /\ accepted'[m] <= 1 + lost'
      BY <1>1, OutboxAssumption DEF Books, SpentOK, TypeOK
    <2> QED
      BY <1>2, <1>3, <2>1, <2>2 DEF SpentOK
  <1> QED
    BY <1>5, <1>6, <1>7 DEF Books

LEMMA BooksStep ==
    ASSUME TypeOK, RunsOK, Books, Exclusive, Exclusive', [Next]_vars
    PROVE  Books'
  <1>1. CASE UNCHANGED vars
    <2>1. \A r \in Runs : InHand(r)' = InHand(r) /\ (\A m : Awaits(r, m)' <=> Awaits(r, m))
      BY <1>1 DEF vars, InHand, Awaits
    <2>2. UNCHANGED <<run, row, calls, accepted, lost>>
      BY <1>1 DEF vars, outbox, history
    <2> QED
      BY <2>2, BooksNoRun DEF Books, StraysOK
  <1>2. ASSUME NEW r \in Runs, Drain(r) PROVE Books'
    BY <1>2, BooksStart, BooksReap, BooksClaim, BooksWithoutSending, BooksSend, BooksCommit,
       BooksEnd DEF Drain
  <1> QED
    BY <1>1, <1>2, BooksEnqueue, BooksWithdraw, BooksStops, BooksCrash, BooksTime DEF Next

LEMMA IInvAtFirst == Init => IInv
  <1> SUFFICES ASSUME Init PROVE IInv
    OBVIOUS
  <1>1. \A r \in Runs : run[r] = NULL /\ InHand(r) = {} /\ \A m : ~Awaits(r, m)
    BY EmptyHand DEF Init
  <1>2. HeldOK /\ StraysOK
    BY <1>1, OutboxAssumption DEF Init, HeldOK, StraysOK
  <1>3. SpentOK
    BY <1>1, OutboxAssumption DEF Init, SpentOK, Spent
  <1> QED
    BY <1>2, <1>3, TypesAtFirst DEF IInv

LEMMA IInvStep == IInv /\ [Next]_vars => IInv'
  <1> SUFFICES ASSUME IInv, [Next]_vars PROVE IInv'
    OBVIOUS
  <1>1. TypeOK' /\ RunsOK'
    BY TypesStep DEF IInv
  <1>2. Exclusive' => Books'
    BY ExclusiveBefore, BooksStep DEF IInv, Books
  <1> QED
    BY <1>1, <1>2 DEF IInv, Books

\* The inductive invariant of the outbox: what each run of drain_outbox holds,
\* and, while no claim is reaped under a live run, an account of every send.
THEOREM OutboxInvariant == Spec => []IInv
  BY IInvAtFirst, IInvStep, PTL DEF Spec

-----------------------------------------------------------------------------
(***************************************************************************)
(* What the outbox promises.                                               *)
(***************************************************************************)

\* Two runs never work on one row: the claim of one is on it.
THEOREM OutboxClaims == Spec => []ClaimsAreDisjoint
  <1>1. IInv => ClaimsAreDisjoint
    BY OneHolder DEF IInv, ClaimsAreDisjoint
  <1> QED
    BY <1>1, OutboxInvariant, PTL

\* SES is tried MaxAttempts times for a row, and once more per loss.
THEOREM OutboxRetries == Spec => []RetryBudget
  <1>1. IInv => RetryBudget
    BY DEF IInv, RetryBudget, SpentOK
  <1> QED
    BY <1>1, OutboxInvariant, PTL

\* SES accepts a row once, and once more per loss.
THEOREM OutboxSends == Spec => []SentOnce
  <1>1. IInv => SentOnce
    BY DEF IInv, SentOnce, SpentOK
  <1> QED
    BY <1>1, OutboxInvariant, PTL

\* Whatever a step writes, it writes to a row that is open, claimed or withdrawn.
LEMMA OutcomeStep ==
    ASSUME IInv, [Next]_vars, Exclusive, NEW m \in Rows,
           row[m].status \in {"SENT", "FAILED", "SUPPRESSED"}
    PROVE  row'[m].status \in Terminal
  <1>1. TypeOK /\ RunsOK /\ Books /\ row[m] \in RowRecord
    BY Typed DEF IInv, Books
  <1>2. row[m].status \in Terminal /\ ~Claimed(row[m].status) /\ row[m].status \notin Claimable
    BY DEF Terminal, Claimed, Claimable
  <1>3. \A r \in Runs : m \notin InHand(r)
    BY <1>1, <1>2 DEF Books, HeldOK
  <1>4. CASE UNCHANGED row
    BY <1>2, <1>4
  <1>5. ASSUME NEW x \in Rows, NEW deferred \in BOOLEAN, Enqueue(x, deferred)
        PROVE  row'[m] = row[m]
    BY <1>1, <1>2, <1>5 DEF Enqueue, TypeOK, Terminal
  <1>6. CASE WithdrawCommit
    BY <1>1, <1>2, <1>6 DEF WithdrawCommit, RowRecord, Terminal
  <1>7. ASSUME NEW r \in Runs, Reap(r) PROVE row'[m] = row[m]
    BY <1>1, <1>2, <1>7 DEF Reap, Books, StraysOK
  <1>8. ASSUME NEW r \in Runs, Claim(r) PROVE row'[m] = row[m]
    <2>1. PICK todo \in Seq(Rows) :
             /\ \A i \in 1 .. Len(todo) : row[todo[i]].status \in Claimable
             /\ row' = [n \in Rows |->
                          IF n \in {todo[i] : i \in 1 .. Len(todo)}
                            THEN [row[n] EXCEPT !.status = "SENDING", !.owner = r,
                                                !.stale = FALSE]
                            ELSE row[n]]
      BY <1>1, <1>8, Claims
    <2> QED
      BY <1>2, <2>1
  <1>9. ASSUME NEW r \in Runs, Drop(r) \/ Block(r) \/ Commit(r) PROVE row'[m] = row[m]
    <2>1. \E x : row' = [row EXCEPT ![Head(run[r].todo)] = x]
      BY <1>9 DEF Drop, Block, WithoutSending, Commit
    <2>2. run[r] # NULL /\ run[r].todo # <<>>
      BY <1>1, <1>9, AnswerAtHand DEF Drop, Block, AtRow, Commit
    <2>3. Head(run[r].todo) \in InHand(r)
      BY <1>1, <2>2, Typed, FrontOfList DEF InHand
    <2> QED
      BY <1>3, <2>1, <2>3
  <1>10. ASSUME NEW r \in Runs, End(r) PROVE row'[m] = row[m]
    BY <1>2, <1>10 DEF End, Released, Claimed
  <1>11. ASSUME NEW r \in Runs, Crash(r) PROVE row'[m].status = row[m].status
    BY <1>1, <1>11 DEF Crash, RowRecord
  <1>12. ASSUME NEW x \in Rows, GoStale(x) \/ Age(x) PROVE row'[m].status = row[m].status
    <2>1. CASE GoStale(x)
      BY <1>1, <2>1 DEF GoStale, TypeOK, RowRecord
    <2>2. CASE Age(x)
      BY <1>1, <2>2 DEF Age, TypeOK, RowRecord
    <2> QED
      BY <1>12, <2>1, <2>2
  <1>13. ASSUME NEW r \in Runs,
                \/ Start(r) \/ Sigterm(r) \/ CommitFails(r)
                \/ \E answer \in Answers : Send(r, answer)
         PROVE  row' = row
    BY <1>13 DEF Start, Send, Sigterm, CommitFails, outbox
  <1>14. ASSUME WithdrawRead \/ SendAges \/ \E x \in Rows : FallDue(x) PROVE row' = row
    BY <1>14 DEF WithdrawRead, SendAges, FallDue, outbox
  <1>15. CASE UNCHANGED vars
    BY <1>4, <1>15 DEF vars, outbox
  <1>16. ASSUME NEW r \in Runs, Drain(r) PROVE row'[m].status \in Terminal
    BY <1>2, <1>7, <1>8, <1>9, <1>10, <1>13, <1>16 DEF Drain
  <1> QED
    BY <1>2, <1>5, <1>6, <1>11, <1>12, <1>13, <1>14, <1>15, <1>16 DEF Next

\* A row that was sent, failed or suppressed stays at an outcome.
THEOREM OutboxOutcomes == Spec => OutcomeStands
  <1>1. IInv /\ [Next]_vars =>
          [Exclusive =>
             \A m \in Rows : row[m].status \in {"SENT", "FAILED", "SUPPRESSED"} =>
                                row'[m].status \in Terminal]_vars
    BY OutcomeStep
  <1> QED
    BY <1>1, OutboxInvariant, PTL DEF Spec, OutcomeStands
=============================================================================
