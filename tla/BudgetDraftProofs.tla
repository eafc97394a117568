------------------------- MODULE BudgetDraftProofs --------------------------
(***************************************************************************)
(* Theorems about BudgetDraft: the edit page shows every line, and after   *)
(* dispatch only the lines of late edits go unreviewed.                    *)
(*                                                                         *)
(* Both are about what a handler still knows when it commits.  An edit     *)
(* that lost no line either finds the list as it loaded it, or finds the   *)
(* next number taken (CleanOK); a dispatcher has every line on its list    *)
(* that was not written behind its back (DispatchOK).                      *)
(***************************************************************************)
EXTENDS BudgetDraft, FiniteSetTheorems, WellFoundedInduction, TLAPS

Under(r, op) == req[r] # NULL /\ req[r].op = op

\* An edit that is clean finds its list as it loaded it, or its number taken.
CleanOK ==
    \A r \in Requests : Under(r, "EDIT") /\ req[r].clean =>
        /\ req[r].lines \subseteq Rows(lines)
        /\ \/ Rows(lines) = req[r].lines
           \/ \E l \in lines : l.number = NextNumber(req[r].lines)

\* A dispatcher's list has every line that is not late.
DispatchOK ==
    \A r \in Requests : Under(r, "DISPATCH") =>
        \A l \in lines : l.id \in late \/ \E row \in req[r].lines : row.id = l.id

\* An account with two lines came by them otherwise than by two tab saves.
DoubledOK ==
    \A k, l \in lines : k.account = l.account => k = l \/ k.account \in doubled

\* Numbers run behind ids, in the request and in every list loaded of it.
NumbersOK ==
    /\ \A l \in lines : l.number < nextId
    /\ \A r \in Requests : req[r] # NULL => \A row \in req[r].lines : row.number < nextId

IInv ==
    /\ TypeOK /\ IsFiniteSet(lines)
    /\ CleanOK
    /\ DispatchOK
    /\ DoubledOK
    /\ NumbersOK
    /\ OnlyLateLinesGoUnreviewed

\* What an edit may make of the lines.
Sound(r, after, several) ==
    /\ after \subseteq Line /\ IsFiniteSet(after) /\ Numbered(after)
    /\ \A k, l \in after : k.id = l.id => k = l
    /\ nextId + Cardinality(Added(after)) \in nextId .. MaxIds + 1
    /\ \A l \in after : /\ l.id < nextId + Cardinality(Added(after))
                        /\ l.number < nextId + Cardinality(Added(after))
    /\ several \subseteq Accounts
    /\ \A k, l \in after : k.account = l.account =>
           \/ k = l \/ k.account \in doubled \cup several
           \/ ~req[r].clean /\ k.account \in {m.account : m \in Added(after)}
    /\ Rows(lines) \subseteq Rows(after) =>
           \/ Rows(after) = Rows(lines)
           \/ /\ Added(after) # {}
              /\ req[r].clean => /\ Rows(lines) = req[r].lines
                                 /\ \E l \in after : l.number = NextNumber(req[r].lines)

-----------------------------------------------------------------------------
(* Numbers, accounts and rows.                                             *)

\* A set of numbers with a bound has a greatest.
LEMMA GreatestIs ==
    ASSUME NEW S \in SUBSET Nat, S # {}, NEW b \in Nat, \A x \in S : x <= b
    PROVE  Max(S) \in S /\ \A x \in S : x <= Max(S)
  <1> DEFINE B == {n \in Nat : \A x \in S : x <= n}
  <1>1. PICK m \in B : \A n \in B : ~(<<n, m>> \in OpToRel(<, Nat))
    <2>1. B \subseteq Nat /\ B # {}
      OBVIOUS
    <2> QED
      BY <2>1, NatLessThanWellFounded, WFMin
  <1>2. m \in S
    <2> SUFFICES ASSUME m \notin S PROVE FALSE
      OBVIOUS
    <2>1. \A x \in S : x < m /\ x \in Nat
      OBVIOUS
    <2>2. m \in Nat /\ m > 0
      <3>1. PICK x \in S : x < m /\ x \in Nat
        BY <2>1
      <3>2. m \in Nat
        BY <1>1
      <3> QED
        BY <3>1, <3>2
    <2>3. m - 1 \in B /\ m - 1 < m
      BY <2>1, <2>2
    <2> QED
      BY <2>3, <1>1 DEF OpToRel
  <1>3. \A x \in S : m >= x
    OBVIOUS
  <1> QED
    BY <1>2, <1>3 DEF Max

\* The next number is past every number of the list, and not past any bound
\* the list keeps.
LEMMA NextNumberIs ==
    ASSUME NEW ls, \A l \in ls : l.number \in 1 .. MaxIds
    PROVE  /\ NextNumber(ls) \in Nat /\ NextNumber(ls) >= 1
           /\ \A l \in ls : l.number < NextNumber(ls)
           /\ \A b \in Nat : b >= 1 /\ (\A l \in ls : l.number < b) => NextNumber(ls) <= b
  <1> DEFINE S == {l.number : l \in ls} \cup {0}
  <1>1. Max(S) \in S /\ \A x \in S : x <= Max(S)
    <2>1. S \in SUBSET Nat /\ S # {} /\ MaxIds \in Nat /\ \A x \in S : x <= MaxIds
      BY DraftAssumption
    <2> HIDE DEF S
    <2> QED
      BY <2>1, GreatestIs
  <1>2. NextNumber(ls) = Max(S) + 1
    BY DEF NextNumber
  <1>3. S \subseteq Nat
    BY DraftAssumption
  <1>4. \A b \in Nat : b >= 1 /\ (\A l \in ls : l.number < b) => Max(S) < b
    BY <1>1
  <1>5. \A l \in ls : l.number <= Max(S) /\ l.number \in Nat
    BY <1>1, DraftAssumption
  <1> HIDE DEF S
  <1>6. Max(S) \in Nat
    BY <1>1, <1>3
  <1> QED
    BY <1>2, <1>4, <1>5, <1>6

\* Two lines of an account are several.
LEMMA SeveralIs ==
    ASSUME NEW ls, IsFiniteSet(ls), NEW k \in ls, NEW l \in ls, k # l,
           k.account = l.account, k.account \in Accounts
    PROVE  k.account \in Several(ls)
  <1> DEFINE a == k.account
  <1>1. IsFiniteSet(Of(ls, a)) /\ Of(ls, a) \in SUBSET ls
    BY FS_Subset DEF Of
  <1>2. {k, l} \in SUBSET Of(ls, a)
    BY DEF Of
  <1>3. Cardinality({k, l}) = 2
    <2>1. Cardinality({k}) = 1 /\ IsFiniteSet({k})
      BY FS_Singleton
    <2>2. l \notin {k} /\ {k} \cup {l} = {k, l}
      OBVIOUS
    <2>3. Cardinality({k} \cup {l}) = IF l \in {k} THEN Cardinality({k}) ELSE Cardinality({k}) + 1
      BY <2>1, FS_AddElement
    <2> QED
      BY <2>1, <2>2, <2>3
  <1>4. Cardinality({k, l}) <= Cardinality(Of(ls, a)) /\ Cardinality(Of(ls, a)) \in Nat
    BY <1>1, <1>2, FS_Subset, FS_CardinalityType
  <1> QED
    BY <1>3, <1>4 DEF Several

\* A row is what a list keeps of a line.
RowOf(l) == [id |-> l.id, number |-> l.number, account |-> l.account]

LEMMA RowsAre ==
    /\ \A ls : Rows(ls) = {RowOf(l) : l \in ls}
    /\ \A k, l : RowOf(k) = RowOf(l) <=>
          k.id = l.id /\ k.number = l.number /\ k.account = l.account
    /\ \A l : RowOf(l).id = l.id /\ RowOf(l).number = l.number /\ RowOf(l).account = l.account
  BY DEF Rows, RowOf

-----------------------------------------------------------------------------
(* A sound edit keeps the invariant.                                       *)

LEMMA SoundKeepsTypes ==
    ASSUME IInv, NEW r \in Requests, Under(r, "EDIT"), NEW after, NEW several,
           Sound(r, after, several), Writes(r, after, several)
    PROVE  TypeOK' /\ IsFiniteSet(lines)' /\ NumbersOK'
  <1> DEFINE gone == {l.id : l \in lines} \ {l.id : l \in after}
             n == Cardinality(Added(after))
  <1>1. /\ lines' = after /\ reviewed' = reviewed \ gone /\ nextId' = nextId + n
        /\ late' = (late \ gone) \cup Missed({l.id : l \in after \ lines})
        /\ UNCHANGED <<status, settings>>
    BY DEF Writes
  <1>2. nextId' \in 1 .. MaxIds + 1 /\ nextId \in Nat /\ nextId' >= nextId /\ nextId' \in Nat
    BY <1>1, DraftAssumption DEF Sound, IInv, TypeOK
  <1>3. /\ \A s \in Requests : req'[s] # NULL =>
              req[s] # NULL /\ req'[s].lines = req[s].lines
        /\ req' \in [Requests -> Request \cup {NULL}]
    <2>1. ASSUME NEW s \in Requests, req[s] # NULL
          PROVE  /\ [req[s] EXCEPT !.clean = FALSE] \in Request
                 /\ [req[s] EXCEPT !.clean = FALSE].lines = req[s].lines
      BY <2>1 DEF IInv, TypeOK, Request
    <2>2. \A s \in Requests : req'[s] \in {NULL, req[s], [req[s] EXCEPT !.clean = FALSE]}
                              /\ (req[s] = NULL => req'[s] = NULL)
      BY DEF Writes
    <2>3. req' = [s \in Requests |-> req'[s]]
      BY DEF Writes
    <2>4. \A s \in Requests : req[s] \in Request \cup {NULL}
      BY DEF IInv, TypeOK
    <2> QED
      BY <2>1, <2>2, <2>3, <2>4
  <1>4. late' \subseteq {l.id : l \in after} /\ reviewed' \subseteq {l.id : l \in after}
    BY <1>1 DEF IInv, TypeOK, Missed
  <1>5. doubled' \subseteq Accounts
    BY DEF Writes, Sound, Added, Line, IInv, TypeOK
  <1>6. NumbersOK'
    BY <1>1, <1>2, <1>3 DEF IInv, TypeOK, NumbersOK, Sound, Request, Row
  <1>7. TypeOK'
    BY <1>1, <1>2, <1>3, <1>4, <1>5 DEF IInv, TypeOK, Sound, Numbered
  <1> QED
    BY <1>1, <1>6, <1>7 DEF Sound

LEMMA SoundKeepsInv ==
    ASSUME IInv, NEW r \in Requests, Under(r, "EDIT"), NEW after, NEW several,
           Sound(r, after, several), Writes(r, after, several)
    PROVE  IInv'
  <1> DEFINE gone == {l.id : l \in lines} \ {l.id : l \in after}
             fresh == {l.id : l \in after \ lines}
  <1>1. /\ lines' = after /\ reviewed' = reviewed \ gone
        /\ late' = (late \ gone) \cup Missed(fresh)
        /\ status' = status
    BY DEF Writes
  <1>2. \A l \in after : l.id \notin gone
    OBVIOUS
  <1>3. \A s \in Requests :
          /\ Under(s, "EDIT")' /\ req'[s].clean =>
                /\ Under(s, "EDIT") /\ req[s].clean /\ req'[s].lines = req[s].lines
                /\ ~Misleads(r, after)
          /\ Under(s, "DISPATCH")' => Under(s, "DISPATCH") /\ req'[s].lines = req[s].lines
    <2> SUFFICES ASSUME NEW s \in Requests, req'[s] # NULL
                 PROVE  /\ req'[s].op = "EDIT" /\ req'[s].clean =>
                             /\ req[s] # NULL /\ req[s].op = "EDIT"
                             /\ req[s].clean /\ req'[s].lines = req[s].lines
                             /\ ~Misleads(r, after)
                        /\ req'[s].op = "DISPATCH" =>
                             /\ req[s] # NULL /\ req[s].op = "DISPATCH"
                             /\ req'[s].lines = req[s].lines
      BY DEF Under
    <2>1. req[s] # NULL /\ req[s] \in Request
      BY DEF Writes, IInv, TypeOK
    <2>2. CASE req[s].op = "EDIT" /\ Misleads(r, after)
      <3>1. req'[s] = [req[s] EXCEPT !.clean = FALSE]
        BY <2>1, <2>2 DEF Writes
      <3> QED
        BY <2>1, <2>2, <3>1 DEF Request
    <2>3. CASE ~(req[s].op = "EDIT" /\ Misleads(r, after))
      BY <2>1, <2>3 DEF Writes
    <2> QED
      BY <2>2, <2>3
  <1>4. DoubledOK'
    BY <1>1 DEF DoubledOK, Sound, Writes
  <1>5. DispatchOK'
    <2> SUFFICES ASSUME NEW s \in Requests, Under(s, "DISPATCH")', NEW l \in after
                 PROVE  l.id \in late' \/ \E row \in req'[s].lines : row.id = l.id
      BY <1>1 DEF DispatchOK
    <2>1. Under(s, "DISPATCH") /\ req'[s].lines = req[s].lines
      BY <1>3
    <2>2. CASE l \in lines
      BY <1>1, <1>2, <2>1, <2>2 DEF IInv, DispatchOK
    <2>3. CASE l \notin lines
      <3>1. l.id \in fresh
        BY <2>3
      <3>2. Missed(fresh) = fresh
        BY <2>1 DEF Missed, Under
      <3> QED
        BY <1>1, <3>1, <3>2
    <2> QED
      BY <2>2, <2>3
  <1>6. OnlyLateLinesGoUnreviewed'
    <2> SUFFICES ASSUME status = "SUBMITTED", NEW l \in after
                 PROVE  l.id \in late' \/ (l.id \in reviewed' /\ l.group # NULL)
      BY <1>1 DEF OnlyLateLinesGoUnreviewed
    <2>1. CASE l \in lines
      BY <1>1, <1>2, <2>1 DEF IInv, OnlyLateLinesGoUnreviewed
    <2>2. CASE l \notin lines
      <3>1. l.id \in fresh
        BY <2>2
      <3>2. Missed(fresh) = fresh
        BY DEF Missed
      <3> QED
        BY <1>1, <3>1, <3>2
    <2> QED
      BY <2>1, <2>2
  <1>7. CleanOK'
    <2> SUFFICES ASSUME NEW s \in Requests, Under(s, "EDIT"), req[s].clean, ~Misleads(r, after)
                 PROVE  /\ req[s].lines \subseteq Rows(after)
                        /\ \/ Rows(after) = req[s].lines
                           \/ \E l \in after : l.number = NextNumber(req[s].lines)
      BY <1>1, <1>3 DEF CleanOK, Rows, NextNumber
    <2>1. Rows(lines) \subseteq Rows(after) /\ (Added(after) # {} => req[r].clean)
      BY DEF Misleads
    <2>2. /\ req[s].lines \subseteq Rows(lines)
          /\ \/ Rows(lines) = req[s].lines
             \/ \E l \in lines : l.number = NextNumber(req[s].lines)
      BY DEF IInv, CleanOK
    <2>3. CASE \E l \in lines : l.number = NextNumber(req[s].lines)
      <3>1. PICK l \in lines : l.number = NextNumber(req[s].lines)
        BY <2>3
      <3>2. RowOf(l) \in Rows(after)
        BY <2>1, RowsAre
      <3>3. PICK k \in after : RowOf(k) = RowOf(l)
        BY <3>2, RowsAre
      <3>4. k.number = l.number
        BY <3>3, RowsAre
      <3> QED
        BY <2>1, <2>2, <3>1, <3>4
    <2>4. CASE Rows(lines) = req[s].lines
      BY <2>1, <2>4 DEF Sound
    <2> QED
      BY <2>2, <2>3, <2>4
  <1>8. TypeOK' /\ IsFiniteSet(lines)' /\ NumbersOK'
    BY SoundKeepsTypes
  <1> QED
    BY <1>4, <1>5, <1>6, <1>7, <1>8 DEF IInv

-----------------------------------------------------------------------------
(* Inserts.                                                                *)

\* What an insert keeps: lines of the request, at new prices perhaps, and
\* every line its handler did not load.
KeepsOK(r, kept) ==
    /\ kept \subseteq Line
    /\ \A x \in kept : \E l \in lines : RowOf(l) = RowOf(x)
    /\ \A x, y \in kept : x.id = y.id => x = y
    /\ \A l \in lines : (\A row \in req[r].lines : row.id # l.id) =>
                            \E x \in kept : RowOf(x) = RowOf(l)

\* The line an insert makes for an account, at the place f gives it.
New(r, price, f, a) ==
    [id |-> nextId + f[a], number |-> NextNumber(req[r].lines) + f[a],
     account |-> a, price |-> price[a], group |-> NULL]

\* Places are handed out from the first.
LEMMA FirstPlace ==
    ASSUME NEW S, IsFiniteSet(S), S # {}, NEW f \in [S -> 0 .. Cardinality(S) - 1],
           \A a, b \in S : f[a] = f[b] => a = b
    PROVE  \E a \in S : f[a] = 0
  <1> DEFINE T == 0 .. Cardinality(S) - 1
  <1>1. Cardinality(S) \in Nat /\ Cardinality(S) # 0
    BY FS_CardinalityType, FS_EmptySet
  <1>2. IsFiniteSet(T) /\ Cardinality(T) = Cardinality(S)
    <2>1. 0 \in Int /\ Cardinality(S) - 1 \in Int
      BY <1>1
    <2>2. /\ IsFiniteSet(T)
          /\ Cardinality(T) = IF 0 > Cardinality(S) - 1 THEN 0
                              ELSE (Cardinality(S) - 1) - 0 + 1
      BY <2>1, FS_Interval
    <2> QED
      BY <1>1, <2>2
  <1>3. f \in Injection(S, T)
    BY DEF Injection, IsInjective
  <1> HIDE DEF T
  <1>4. f \in Surjection(S, T)
    BY <1>2, <1>3, FS_Injection
  <1>5. 0 \in T
    BY <1>1 DEF T
  <1> QED
    BY <1>4, <1>5 DEF Surjection

\* An injective image is as large.
LEMMA AsMany ==
    ASSUME NEW S, IsFiniteSet(S), NEW g, DOMAIN g = S,
           \A a, b \in S : g[a] = g[b] => a = b
    PROVE  /\ IsFiniteSet({g[a] : a \in S})
           /\ Cardinality({g[a] : a \in S}) = Cardinality(S)
  <1> DEFINE T == {g[a] : a \in S}
             f == [a \in S |-> g[a]]
  <1>1. f \in [S -> T] /\ (\A a \in S : f[a] = g[a])
    OBVIOUS
  <1>2. \A t \in T : \E a \in S : f[a] = t
    OBVIOUS
  <1>3. \A a, b \in S : f[a] = f[b] => a = b
    OBVIOUS
  <1> HIDE DEF T, f
  <1>4. f \in Surjection(S, T)
    BY <1>1, <1>2 DEF Surjection
  <1>5. f \in Injection(S, T)
    BY <1>1, <1>3 DEF Injection, IsInjective
  <1>6. IsFiniteSet(T) /\ Cardinality(T) = Cardinality(S)
    BY <1>4, <1>5, FS_Surjection
  <1> QED
    BY <1>6 DEF T

\* Lines with ids of their own are finitely many.
LEMMA KeyedIsFinite ==
    ASSUME NEW ls, ls \subseteq Line, \A k, l \in ls : k.id = l.id => k = l
    PROVE  IsFiniteSet(ls)
  <1> DEFINE T == 1 .. MaxIds
             f == [l \in ls |-> l.id]
  <1>1. f \in [ls -> T] /\ \A k, l \in ls : f[k] = f[l] => k = l
    BY DEF Line
  <1>2. IsFiniteSet(T)
    <2>1. 1 \in Int /\ MaxIds \in Int
      BY DraftAssumption
    <2> QED
      BY <2>1, FS_Interval
  <1> HIDE DEF T, f
  <1>3. f \in Injection(ls, T)
    BY <1>1 DEF Injection, IsInjective
  <1> QED
    BY <1>2, <1>3, FS_Injection

\* A new line is a line, with an id and a number of its own.
LEMMA NewIs ==
    ASSUME IInv, NEW r \in Requests, Under(r, "EDIT"), NEW made \in SUBSET Accounts,
           NEW price \in [made -> Nat], NEW f \in [made -> 0 .. Cardinality(made) - 1],
           nextId + Cardinality(made) <= MaxIds + 1, NEW a \in made
    PROVE  /\ New(r, price, f, a) \in Line
           /\ New(r, price, f, a).account = a
           /\ New(r, price, f, a).id = nextId + f[a]
           /\ New(r, price, f, a).number = NextNumber(req[r].lines) + f[a]
           /\ f[a] \in Nat /\ f[a] < Cardinality(made) /\ Cardinality(made) \in Nat
           /\ NextNumber(req[r].lines) \in Nat /\ NextNumber(req[r].lines) <= nextId
  <1>1. Cardinality(made) \in Nat
    <2>1. IsFiniteSet(made)
      BY DraftAssumption, FS_Subset
    <2> QED
      BY <2>1, FS_CardinalityType
  <1>2. req[r].lines \in SUBSET Row
    BY DEF IInv, TypeOK, Under, Request
  <1>3. /\ \A l \in req[r].lines : l.number \in 1 .. MaxIds /\ l.number < nextId
        /\ nextId \in Nat /\ nextId >= 1
    BY <1>2, DraftAssumption DEF IInv, TypeOK, NumbersOK, Under, Row
  <1>4. /\ NextNumber(req[r].lines) \in Nat /\ NextNumber(req[r].lines) >= 1
        /\ NextNumber(req[r].lines) <= nextId
    BY <1>3, NextNumberIs
  <1>5. f[a] \in Nat /\ f[a] < Cardinality(made)
    BY <1>1
  <1>6. /\ nextId + f[a] \in 1 .. MaxIds
        /\ NextNumber(req[r].lines) + f[a] \in 1 .. MaxIds
    BY <1>1, <1>3, <1>4, <1>5, DraftAssumption
  <1>7. price[a] \in Nat /\ a \in Accounts
    OBVIOUS
  <1> QED
    BY <1>1, <1>4, <1>5, <1>6, <1>7 DEF New, Line

\* An insert that finds its number free finds its list as it loaded it.
LEMMA FreeNumber ==
    ASSUME IInv, NEW r \in Requests, Under(r, "EDIT"), req[r].clean,
           NEW kept, KeepsOK(r, kept), NEW after, kept \subseteq after, Numbered(after),
           NEW n \in after, n.number = NextNumber(req[r].lines), n.id >= nextId,
           n.id \in Nat
    PROVE  Rows(lines) = req[r].lines
  <1> SUFFICES ASSUME NEW l \in lines, l.number = NextNumber(req[r].lines)
               PROVE  FALSE
    BY DEF IInv, CleanOK
  <1>1. \A row \in req[r].lines : row.number < NextNumber(req[r].lines) /\ row.number \in Nat
    <2>1. req[r].lines \in SUBSET Row
      BY DEF IInv, TypeOK, Under, Request
    <2>2. \A row \in req[r].lines : row.number \in 1 .. MaxIds
      BY <2>1 DEF Row
    <2> QED
      BY <2>2, NextNumberIs, DraftAssumption
  <1>2. \A row \in req[r].lines : row.id # l.id
    <2> SUFFICES ASSUME NEW row \in req[r].lines, row.id = l.id PROVE FALSE
      OBVIOUS
    <2>1. row \in Rows(lines)
      BY DEF IInv, CleanOK
    <2>2. PICK k \in lines : row = RowOf(k)
      BY <2>1, RowsAre
    <2>3. k = l
      BY <2>2, RowsAre DEF IInv, TypeOK
    <2> QED
      BY <1>1, <2>2, <2>3, RowsAre
  <1>3. PICK x \in kept : RowOf(x) = RowOf(l)
    BY <1>2 DEF KeepsOK
  <1>4. x.number = l.number /\ x.id = l.id
    BY <1>3, RowsAre
  <1>5. x.id = n.id
    BY <1>4 DEF Numbered
  <1>6. l.id \in Nat /\ nextId \in Nat /\ l.id < nextId
    BY DraftAssumption DEF IInv, TypeOK, Line
  <1>7. n.id = l.id
    BY <1>4, <1>5
  <1> QED
    BY <1>6, <1>7

\* An insert is sound, if the accounts it gives several lines are the ones it
\* means to, or if its list had no line of the accounts it serves.
LEMMA InsertIsSound ==
    ASSUME IInv, NEW r \in Requests, Under(r, "EDIT"), NEW made \in SUBSET Accounts,
           NEW price \in [made -> Nat], nextId + Cardinality(made) <= MaxIds + 1,
           NEW kept, KeepsOK(r, kept),
           NEW after, after \in Inserted(r, made, price, kept), Numbered(after),
           NEW several,
           \/ several = Several(after)
           \/ several = {} /\ \A a \in made : \A row \in req[r].lines : row.account # a
    PROVE  Sound(r, after, several)
  <1>1. PICK f \in [made -> 0 .. Cardinality(made) - 1] :
           /\ \A a, b \in made : f[a] = f[b] => a = b
           /\ after = kept \cup {New(r, price, f, a) : a \in made}
    BY DEF Inserted, New
  <1> DEFINE N(a) == New(r, price, f, a)
             new == {N(a) : a \in made}
  <1>2. \A a \in made :
           /\ N(a) \in Line /\ N(a).account = a
           /\ N(a).id = nextId + f[a] /\ N(a).number = NextNumber(req[r].lines) + f[a]
           /\ f[a] \in Nat /\ f[a] < Cardinality(made) /\ Cardinality(made) \in Nat
           /\ NextNumber(req[r].lines) \in Nat /\ NextNumber(req[r].lines) <= nextId
    BY NewIs
  <1>3. IsFiniteSet(made) /\ Cardinality(made) \in Nat
    BY DraftAssumption, FS_Subset, FS_CardinalityType
  <1>4. /\ nextId \in Nat /\ nextId >= 1 /\ MaxIds \in Nat
        /\ \A l \in lines : /\ l.id \in Nat /\ l.number \in Nat
                            /\ l.id < nextId /\ l.number < nextId
    BY DraftAssumption DEF IInv, TypeOK, NumbersOK, Line
  <1>5. \A x \in kept : x \in Line /\ x.id < nextId /\ x.number < nextId
                        /\ x.id \in Nat /\ x.number \in Nat
    BY <1>4, RowsAre DEF KeepsOK
  <1> HIDE DEF N
  <1>6. \A a, b \in made : N(a).id = N(b).id => a = b
    BY <1>1, <1>2, <1>4
  <1>7. \A x \in kept, a \in made : x.id # N(a).id
    BY <1>2, <1>4, <1>5
  <1>8. Added(after) = new
    <2>1. \A x \in kept : x.id \in {k.id : k \in lines}
      BY RowsAre DEF KeepsOK
    <2>2. \A a \in made : N(a).id \notin {k.id : k \in lines}
      BY <1>2, <1>4
    <2> QED
      BY <1>1, <2>1, <2>2 DEF Added, N
  <1>9. Cardinality(Added(after)) = Cardinality(made)
    <2> DEFINE g == [a \in made |-> N(a)]
    <2>1. DOMAIN g = made /\ {g[a] : a \in made} = new
      OBVIOUS
    <2>2. \A a, b \in made : g[a] = g[b] => a = b
      BY <1>6
    <2> HIDE DEF g, new
    <2>3. Cardinality({g[a] : a \in made}) = Cardinality(made)
      BY <1>3, <2>1, <2>2, AsMany
    <2> QED
      BY <1>8, <2>1, <2>3
  <1>10. after \subseteq Line /\ \A k, l \in after : k.id = l.id => k = l
    <2>1. \A k \in after : k \in kept \/ \E a \in made : k = N(a)
      BY <1>1 DEF N
    <2>2. \A k, l \in kept : k.id = l.id => k = l
      BY DEF KeepsOK
    <2> QED
      BY <1>2, <1>5, <1>6, <1>7, <2>1, <2>2
  <1>11. IsFiniteSet(after)
    BY <1>10, KeyedIsFinite
  <1>12. \A l \in after : /\ l.id < nextId + Cardinality(made)
                          /\ l.number < nextId + Cardinality(made)
    <2>1. \A x \in kept : /\ x.id < nextId + Cardinality(made)
                          /\ x.number < nextId + Cardinality(made)
      BY <1>3, <1>4, <1>5
    <2>2. \A a \in made : /\ N(a).id < nextId + Cardinality(made)
                          /\ N(a).number < nextId + Cardinality(made)
      BY <1>2, <1>4
    <2> QED
      BY <1>1, <2>1, <2>2 DEF N
  <1>13. req[r].clean /\ made # {} =>
            Rows(lines) = req[r].lines /\ \E l \in after : l.number = NextNumber(req[r].lines)
    <2> SUFFICES ASSUME req[r].clean, made # {}
                 PROVE  /\ Rows(lines) = req[r].lines
                        /\ \E l \in after : l.number = NextNumber(req[r].lines)
      OBVIOUS
    <2>1. PICK a \in made : f[a] = 0
      BY <1>1, <1>3, FirstPlace
    <2>2. N(a) \in after
      BY <1>1 DEF N
    <2>3. N(a).number = NextNumber(req[r].lines) /\ N(a).id >= nextId /\ N(a).id \in Nat
      BY <1>2, <1>4, <2>1
    <2>4. kept \subseteq after
      BY <1>1
    <2> QED
      BY <2>2, <2>3, <2>4, FreeNumber
  <1>14. \A k, l \in after : k.account = l.account =>
           \/ k = l \/ k.account \in doubled \cup several
           \/ ~req[r].clean /\ k.account \in {m.account : m \in Added(after)}
    <2> SUFFICES ASSUME NEW k \in after, NEW l \in after, k.account = l.account, k # l,
                        several = {}, \A a \in made : \A row \in req[r].lines : row.account # a
                 PROVE  \/ k.account \in doubled
                        \/ ~req[r].clean /\ k.account \in {m.account : m \in Added(after)}
      <3>1. several = Several(after) => \A k, l \in after :
                k.account = l.account /\ k # l => k.account \in several
        <4>1. \A k \in after : k.account \in Accounts
          BY <1>10 DEF Line
        <4> QED
          BY <4>1, <1>11, SeveralIs
      <3> QED
        BY <3>1
    <2>1. CASE k \in kept /\ l \in kept
      <3>1. PICK i \in lines, j \in lines : RowOf(i) = RowOf(k) /\ RowOf(j) = RowOf(l)
        BY <2>1 DEF KeepsOK
      <3>2. /\ i.account = k.account /\ j.account = k.account
            /\ i.id = k.id /\ j.id = l.id
        BY <3>1, RowsAre
      <3>3. i # j
        BY <1>10, <3>2
      <3> QED
        BY <3>2, <3>3 DEF IInv, DoubledOK
    <2>2. CASE k.account \in made
      <3>1. k.account \in {m.account : m \in Added(after)}
        BY <1>2, <1>8, <2>2
      <3>2. ASSUME req[r].clean PROVE FALSE
        <4>1. Rows(lines) = req[r].lines
          BY <1>13, <2>2, <3>2
        <4>2. \A x \in kept : x.account # k.account
          <5> SUFFICES ASSUME NEW x \in kept, x.account = k.account PROVE FALSE
            OBVIOUS
          <5>1. PICK i \in lines : RowOf(i) = RowOf(x)
            BY DEF KeepsOK
          <5>2. RowOf(i) \in req[r].lines /\ RowOf(i).account = k.account
            BY <4>1, <5>1, RowsAre
          <5> QED
            BY <2>2, <5>2
        <4>3. k \in new /\ l \in new
          BY <1>1, <4>2 DEF N
        <4> QED
          BY <1>2, <4>3
      <3> QED
        BY <3>1, <3>2
    <2>3. (k \in kept /\ l \in kept) \/ k.account \in made
      BY <1>1, <1>2 DEF N
    <2> QED
      BY <2>1, <2>2, <2>3
  <1>15. Rows(lines) \subseteq Rows(after) =>
           \/ Rows(after) = Rows(lines)
           \/ /\ Added(after) # {}
              /\ req[r].clean => /\ Rows(lines) = req[r].lines
                                 /\ \E l \in after : l.number = NextNumber(req[r].lines)
    <2>1. CASE made = {}
      <3>1. Rows(after) \subseteq Rows(lines)
        <4>1. after = kept
          BY <1>1, <2>1
        <4> QED
          BY <4>1, RowsAre DEF KeepsOK
      <3> QED
        BY <3>1
    <2>2. CASE made # {}
      BY <1>8, <1>13, <2>2
    <2> QED
      BY <2>1, <2>2
  <1>16. several \subseteq Accounts
    BY DEF Several
  <1>17. nextId + Cardinality(Added(after)) \in nextId .. MaxIds + 1
    BY <1>3, <1>4, <1>9
  <1> HIDE DEF new
  <1> QED
    BY <1>9, <1>10, <1>11, <1>12, <1>14, <1>15, <1>16, <1>17 DEF Sound

-----------------------------------------------------------------------------
(* Each edit is sound.                                                     *)

\* The effective price of an account is a price.
LEMMA LockedPriceIs ==
    ASSUME IInv, NEW a \in Accounts
    PROVE  LockedPrice(a) \in Nat
  <1>1. settings[a] \in Setting
    BY DEF IInv, TypeOK
  <1>2. settings[a].price \in Nat /\ settings[a].over.price \in Nat \cup {NULL}
    BY <1>1 DEF Setting, Override
  <1> QED
    BY <1>2 DEF LockedPrice

\* The request's own lines are kept.
LEMMA AllKept ==
    ASSUME IInv, NEW r \in Requests
    PROVE  KeepsOK(r, lines)
  BY DEF IInv, TypeOK, KeepsOK

\* One more line.
LEMMA OneMore ==
    ASSUME IInv, NEW r \in Requests, Under(r, "EDIT"), NEW a \in Accounts, NEW p \in Nat,
           nextId <= MaxIds,
           NEW after, after \in Inserted(r, {a}, [b \in {a} |-> p], lines), Numbered(after)
    PROVE  Sound(r, after, Several(after))
  <1> DEFINE made == {a}
             price == [b \in {a} |-> p]
             several == Several(after)
  <1>1. Cardinality(made) = 1
    BY FS_Singleton
  <1>2. nextId + Cardinality(made) <= MaxIds + 1
    BY <1>1, DraftAssumption DEF IInv, TypeOK
  <1>3. price \in [made -> Nat] /\ made \in SUBSET Accounts
    OBVIOUS
  <1>4. KeepsOK(r, lines)
    BY AllKept
  <1>5. after \in Inserted(r, made, price, lines)
    OBVIOUS
  <1>6. \/ several = Several(after)
        \/ several = {} /\ \A b \in made : \A row \in req[r].lines : row.account # b
    OBVIOUS
  <1> HIDE DEF made, price, several
  <1>7. Sound(r, after, several)
    BY <1>2, <1>3, <1>4, <1>5, <1>6, InsertIsSound
  <1> QED
    BY <1>7 DEF several

LEMMA CreateKeepsInv ==
    ASSUME IInv, NEW r \in Requests, Under(r, "EDIT"), FinishCreate(r)
    PROVE  IInv'
  <1>1. PICK a \in Accounts, p \in Prices :
           /\ nextId <= MaxIds
           /\ \E after \in Inserted(r, {a}, [b \in {a} |-> p], lines) :
                 Fits(after) /\ Numbered(after) /\ Writes(r, after, Several(after))
    BY DEF FinishCreate
  <1>2. PICK after \in Inserted(r, {a}, [b \in {a} |-> p], lines) :
           Numbered(after) /\ Writes(r, after, Several(after))
    BY <1>1
  <1>3. p \in Nat
    BY DraftAssumption
  <1>4. Sound(r, after, Several(after))
    BY <1>1, <1>2, <1>3, OneMore
  <1> QED
    BY <1>2, <1>4, SoundKeepsInv

LEMMA WizardKeepsInv ==
    ASSUME IInv, NEW r \in Requests, Under(r, "EDIT"), FinishWizard(r)
    PROVE  IInv'
  <1>1. PICK a \in Rooms :
           /\ nextId <= MaxIds
           /\ \E after \in Inserted(r, {a}, [b \in {a} |-> LockedPrice(a)], lines) :
                 Fits(after) /\ Numbered(after) /\ Writes(r, after, Several(after))
    BY DEF FinishWizard
  <1>2. a \in Accounts
    BY DraftAssumption
  <1>3. LockedPrice(a) \in Nat
    BY <1>2, LockedPriceIs
  <1>4. PICK after \in Inserted(r, {a}, [b \in {a} |-> LockedPrice(a)], lines) :
           Numbered(after) /\ Writes(r, after, Several(after))
    BY <1>1
  <1>5. Sound(r, after, Several(after))
    BY <1>1, <1>2, <1>3, <1>4, OneMore
  <1> QED
    BY <1>4, <1>5, SoundKeepsInv

\* An edit that numbers no line is sound, if the accounts it gives several
\* lines are the ones it means to.
LEMMA NothingAdded ==
    ASSUME IInv, NEW r \in Requests, NEW after, NEW several, several \subseteq Accounts,
           after \subseteq Line, \A k, l \in after : k.id = l.id => k = l,
           \A x \in after : \E l \in lines : x.id = l.id /\ x.number = l.number,
           \A k, l \in after : k.account = l.account => k = l \/ k.account \in doubled \cup several
    PROVE  Sound(r, after, several)
  <1>1. Added(after) = {}
    BY DEF Added
  <1>2. Cardinality(Added(after)) = 0
    BY <1>1, FS_EmptySet
  <1>3. IsFiniteSet(after)
    BY KeyedIsFinite
  <1>4. nextId \in Nat /\ nextId \in 1 .. MaxIds + 1 /\ \A l \in lines : l.id < nextId /\ l.number < nextId
    BY DraftAssumption DEF IInv, TypeOK, NumbersOK
  <1>5. Numbered(after)
    BY DEF Numbered, IInv, TypeOK
  <1>6. Rows(lines) \subseteq Rows(after) => Rows(after) = Rows(lines)
    <2> SUFFICES ASSUME Rows(lines) \subseteq Rows(after), NEW x \in after
                 PROVE  RowOf(x) \in Rows(lines)
      <3>1. Rows(after) = {RowOf(x) : x \in after}
        BY RowsAre
      <3> QED
        BY <3>1
    <2>1. PICK l \in lines : x.id = l.id
      OBVIOUS
    <2>2. RowOf(l) \in Rows(lines)
      BY RowsAre
    <2>3. PICK y \in after : RowOf(y) = RowOf(l)
      BY <2>2, RowsAre
    <2>4. y = x
      BY <2>1, <2>3, RowsAre
    <2> QED
      BY <2>2, <2>3, <2>4
  <1>7. nextId + Cardinality(Added(after)) = nextId
    BY <1>2, <1>4
  <1>8. nextId + Cardinality(Added(after)) \in nextId .. MaxIds + 1
    BY <1>4, <1>7, DraftAssumption
  <1>9. \A l \in after : l.id < nextId /\ l.number < nextId
    BY <1>4
  <1> QED
    BY <1>3, <1>5, <1>6, <1>7, <1>8, <1>9 DEF Sound

LEMMA DeleteKeepsInv ==
    ASSUME IInv, NEW r \in Requests, Under(r, "EDIT"), FinishDelete(r)
    PROVE  IInv'
  <1>1. PICK ids : Writes(r, {l \in lines : l.id \notin ids}, {})
    BY DEF FinishDelete
  <1> DEFINE after == {l \in lines : l.id \notin ids}
  <1>2. /\ after \subseteq Line /\ \A k, l \in after : k.id = l.id => k = l
        /\ \A x \in after : \E l \in lines : x.id = l.id /\ x.number = l.number
        /\ \A k, l \in after : k.account = l.account => k = l \/ k.account \in doubled \cup {}
    BY DEF IInv, TypeOK, DoubledOK
  <1>3. Writes(r, after, {})
    BY <1>1
  <1> HIDE DEF after
  <1>4. Sound(r, after, {})
    BY <1>2, NothingAdded
  <1> QED
    BY <1>3, <1>4, SoundKeepsInv

LEMMA UpdateKeepsInv ==
    ASSUME IInv, NEW r \in Requests, Under(r, "EDIT"), FinishUpdate(r)
    PROVE  IInv'
  <1>1. PICK a \in Accounts, p \in Prices, now \in lines :
           LET after == (lines \ {now}) \cup {[now EXCEPT !.account = a, !.price = p]}
           IN  Writes(r, after, Several(after))
    BY DEF FinishUpdate
  <1> DEFINE moved == [now EXCEPT !.account = a, !.price = p]
             after == (lines \ {now}) \cup {moved}
  <1>2. moved \in Line /\ moved.id = now.id /\ moved.number = now.number
    BY DraftAssumption DEF IInv, TypeOK, Line
  <1>3. \A x \in after : \E l \in lines : x.id = l.id /\ x.number = l.number
    BY <1>2
  <1>4. after \subseteq Line /\ \A k, l \in after : k.id = l.id => k = l
    BY <1>2 DEF IInv, TypeOK
  <1>5. Writes(r, after, Several(after))
    BY <1>1
  <1>6. Several(after) \subseteq Accounts
    BY DEF Several
  <1> HIDE DEF moved, after
  <1>7. IsFiniteSet(after)
    BY <1>4, KeyedIsFinite
  <1>8. \A k, l \in after : k.account = l.account =>
           k = l \/ k.account \in doubled \cup Several(after)
    <2>1. \A k \in after : k.account \in Accounts
      BY <1>4 DEF Line
    <2> QED
      BY <1>7, <2>1, SeveralIs
  <1>9. Sound(r, after, Several(after))
    BY <1>3, <1>4, <1>6, <1>8, NothingAdded
  <1> QED
    BY <1>5, <1>9, SoundKeepsInv

\* A tab knows a row of its list for every account that has one there.
LEMMA ExistingIs ==
    ASSUME NEW ls \in SUBSET Row, NEW a
    PROVE  /\ Existing(ls, a) \subseteq ls
           /\ Existing(ls, a) = {} => \A row \in ls : row.account # a
  <1>1. CASE Of(ls, a) = {}
    BY <1>1 DEF Existing, Of
  <1>2. CASE Of(ls, a) # {}
    <2> DEFINE S == {l.number : l \in Of(ls, a)}
    <2>1. S \in SUBSET Nat /\ S # {} /\ MaxIds \in Nat /\ \A x \in S : x <= MaxIds
      BY <1>2, DraftAssumption DEF Of, Row
    <2>2. Max(S) \in S /\ \A x \in S : x <= Max(S)
      <3> HIDE DEF S
      <3> QED
        BY <2>1, GreatestIs
    <2>3. PICK l \in Of(ls, a) : l.number = Max(S)
      BY <2>2
    <2>4. \A k \in Of(ls, a) : k.number <= l.number
      BY <2>2, <2>3
    <2>5. Kept(ls, a) \in Of(ls, a)
      BY <2>4 DEF Kept
    <2> QED
      BY <1>2, <2>5 DEF Existing, Of
  <1> QED
    BY <1>1, <1>2

LEMMA TabKeepsInv ==
    ASSUME IInv, NEW r \in Requests, Under(r, "EDIT"), FinishTab(r)
    PROVE  IInv'
  <1> DEFINE known(a)  == {l.id : l \in Existing(req[r].lines, a)}
             knower(wanted, l) == {a \in wanted : l.id \in known(a)}
             madeOf(wanted) == {a \in wanted : known(a) = {} /\ settings[a].spend}
             droppedOf(posted, wanted) == UNION {known(a) : a \in posted \ wanted}
             keptOf(posted, wanted) ==
                {IF knower(wanted, l) = {} THEN l
                 ELSE [l EXCEPT !.price = LockedPrice(CHOOSE a \in knower(wanted, l) : TRUE)] :
                    l \in {k \in lines : k.id \notin droppedOf(posted, wanted)}}
  <1>1. PICK posted \in SUBSET Accounts, wanted \in SUBSET Accounts :
           /\ nextId + Cardinality(madeOf(wanted)) <= MaxIds + 1
           /\ \E after \in Inserted(r, madeOf(wanted), [a \in madeOf(wanted) |-> LockedPrice(a)],
                                    keptOf(posted, wanted)) :
                 Fits(after) /\ Numbered(after) /\ Writes(r, after, {})
    BY DEF FinishTab
  <1> DEFINE made == madeOf(wanted)
             price == [a \in made |-> LockedPrice(a)]
             kept == keptOf(posted, wanted)
             repriced(l) == IF knower(wanted, l) = {} THEN l
                 ELSE [l EXCEPT !.price = LockedPrice(CHOOSE a \in knower(wanted, l) : TRUE)]
  <1>2. PICK after \in Inserted(r, made, price, kept) : Numbered(after) /\ Writes(r, after, {})
    BY <1>1
  <1>3. made \in SUBSET Accounts
    OBVIOUS
  <1>4. price \in [made -> Nat]
    BY LockedPriceIs
  <1>5. req[r].lines \in SUBSET Row
    BY DEF IInv, TypeOK, Under, Request
  <1>6. \A a \in made : \A row \in req[r].lines : row.account # a
    <2> SUFFICES ASSUME NEW a \in made PROVE \A row \in req[r].lines : row.account # a
      OBVIOUS
    <2>1. known(a) = {}
      OBVIOUS
    <2>2. Existing(req[r].lines, a) = {}
      BY <2>1
    <2> HIDE DEF made
    <2> QED
      BY <1>5, <2>2, ExistingIs
  <1>7. \A l \in lines : repriced(l) \in Line /\ RowOf(repriced(l)) = RowOf(l)
    <2> SUFFICES ASSUME NEW l \in lines PROVE repriced(l) \in Line /\ RowOf(repriced(l)) = RowOf(l)
      OBVIOUS
    <2>1. l \in Line
      BY DEF IInv, TypeOK
    <2>2. CASE knower(wanted, l) = {}
      BY <2>1, <2>2
    <2>3. CASE knower(wanted, l) # {}
      <3> DEFINE p == LockedPrice(CHOOSE a \in knower(wanted, l) : TRUE)
      <3>1. (CHOOSE a \in knower(wanted, l) : TRUE) \in Accounts
        BY <2>3
      <3>2. p \in Nat
        BY <3>1, LockedPriceIs
      <3>3. repriced(l) = [l EXCEPT !.price = p]
        BY <2>3
      <3> HIDE DEF p, repriced
      <3> QED
        BY <2>1, <3>2, <3>3 DEF Line, RowOf
    <2> QED
      BY <2>2, <2>3
  <1>8. kept = {repriced(l) : l \in {k \in lines : k.id \notin droppedOf(posted, wanted)}}
    OBVIOUS
  <1>9. \A id \in droppedOf(posted, wanted) : \E row \in req[r].lines : row.id = id
    <2> SUFFICES ASSUME NEW a \in posted \ wanted, NEW id \in known(a)
                 PROVE  \E row \in req[r].lines : row.id = id
      OBVIOUS
    <2>1. Existing(req[r].lines, a) \subseteq req[r].lines
      BY <1>5, ExistingIs
    <2> QED
      BY <2>1
  <1>10. KeepsOK(r, kept)
    <2> HIDE DEF repriced, kept
    <2> DEFINE left == {k \in lines : k.id \notin droppedOf(posted, wanted)}
    <2>1. \A x \in kept : \E l \in lines : x = repriced(l)
      BY <1>8
    <2>2. \A l \in left : repriced(l) \in kept
      BY <1>8
    <2>3. kept \subseteq Line /\ \A x \in kept : \E l \in lines : RowOf(l) = RowOf(x)
      BY <1>7, <2>1
    <2>4. \A x, y \in kept : x.id = y.id => x = y
      <3> SUFFICES ASSUME NEW x \in kept, NEW y \in kept, x.id = y.id PROVE x = y
        OBVIOUS
      <3>1. PICK i \in lines, j \in lines : x = repriced(i) /\ y = repriced(j)
        BY <2>1
      <3>2. i.id = x.id /\ j.id = y.id
        BY <1>7, <3>1, RowsAre
      <3> QED
        BY <3>1, <3>2 DEF IInv, TypeOK
    <2>5. \A l \in lines : (\A row \in req[r].lines : row.id # l.id) =>
                              \E x \in kept : RowOf(x) = RowOf(l)
      <3> SUFFICES ASSUME NEW l \in lines, \A row \in req[r].lines : row.id # l.id
                   PROVE  \E x \in kept : RowOf(x) = RowOf(l)
        OBVIOUS
      <3>1. l \in left
        BY <1>9
      <3> QED
        BY <1>7, <2>2, <3>1
    <2> QED
      BY <2>3, <2>4, <2>5 DEF KeepsOK
  <1>11. nextId + Cardinality(made) <= MaxIds + 1
    BY <1>1
  <1> HIDE DEF made, price, kept
  <1>12. Sound(r, after, {})
    <2> DEFINE several == {}
    <2>1. \/ several = Several(after)
          \/ several = {} /\ \A b \in made : \A row \in req[r].lines : row.account # b
      BY <1>6
    <2> HIDE DEF several
    <2>2. Sound(r, after, several)
      BY <1>2, <1>3, <1>4, <1>10, <1>11, <2>1, InsertIsSound
    <2> QED
      BY <2>2 DEF several
  <1> QED
    BY <1>2, <1>12, SoundKeepsInv

-----------------------------------------------------------------------------
(* The other handlers leave every row as it is.                            *)

LEMMA KeptRows ==
    ASSUME IInv, lines' \subseteq Line, \A k, l \in lines' : k.id = l.id => k = l,
           Rows(lines)' = Rows(lines),
           UNCHANGED <<nextId, late, doubled>>, settings' \in [Accounts -> Setting],
           status' \in {"DRAFT", "AWAITING_DISPATCH", "SUBMITTED"},
           reviewed' \subseteq {l.id : l \in lines},
           req' \in [Requests -> Request \cup {NULL}],
           \A s \in Requests : \/ req'[s] = NULL \/ req'[s] = req[s]
                               \/ req'[s].lines = Rows(lines)
                               \/ req'[s].op \in {"SUBMIT", "RECALL"} /\ req'[s].lines = {},
           OnlyLateLinesGoUnreviewed'
    PROVE  IInv'
  <1>1. \A k \in lines' : \E i \in lines :
           i.id = k.id /\ i.number = k.number /\ i.account = k.account
    <2> SUFFICES ASSUME NEW k \in lines'
                 PROVE  \E i \in lines : i.id = k.id /\ i.number = k.number /\ i.account = k.account
      OBVIOUS
    <2>1. RowOf(k) \in Rows(lines)
      BY DEF Rows, RowOf
    <2>2. PICK i \in lines : RowOf(i) = RowOf(k)
      BY <2>1, RowsAre
    <2> QED
      BY <2>2, RowsAre
  <1>2. \A i \in lines : \E k \in lines' :
           i.id = k.id /\ i.number = k.number /\ i.account = k.account
    <2> SUFFICES ASSUME NEW i \in lines
                 PROVE  \E k \in lines' : i.id = k.id /\ i.number = k.number /\ i.account = k.account
      OBVIOUS
    <2>1. RowOf(i) \in Rows(lines)
      BY RowsAre
    <2>2. PICK k \in lines' : RowOf(k) = RowOf(i)
      BY <2>1 DEF Rows, RowOf
    <2> QED
      BY <2>2, RowsAre
  <1>3. IsFiniteSet(lines')
    BY KeyedIsFinite
  <1>4. {l.id : l \in lines'} = {l.id : l \in lines}
    BY <1>1, <1>2
  <1>5. Numbered(lines)' /\ \A l \in lines' : l.id < nextId' /\ l.number < nextId'
    BY <1>1 DEF IInv, TypeOK, Numbered, NumbersOK
  <1>6. TypeOK'
    BY <1>4, <1>5 DEF IInv, TypeOK
  <1>7. DoubledOK'
    BY <1>1 DEF IInv, DoubledOK
  <1>8. DispatchOK'
    <2> SUFFICES ASSUME NEW s \in Requests, req'[s] # NULL, req'[s].op = "DISPATCH",
                        NEW l \in lines'
                 PROVE  l.id \in late \/ \E row \in req'[s].lines : row.id = l.id
      BY DEF DispatchOK, Under
    <2>1. PICK i \in lines : i.id = l.id
      BY <1>1
    <2>2. CASE req'[s] = req[s]
      BY <2>1, <2>2 DEF IInv, DispatchOK, Under
    <2>3. CASE req'[s].lines = Rows(lines)
      <3>1. RowOf(i) \in Rows(lines) /\ RowOf(i).id = l.id
        BY <2>1, RowsAre
      <3> QED
        BY <2>3, <3>1
    <2> QED
      BY <2>2, <2>3
  <1>9. CleanOK'
    <2> SUFFICES ASSUME NEW s \in Requests, req'[s] # NULL, req'[s].op = "EDIT", req'[s].clean
                 PROVE  /\ req'[s].lines \subseteq Rows(lines)
                        /\ \/ Rows(lines) = req'[s].lines
                           \/ \E l \in lines' : l.number = NextNumber(req'[s].lines)
      BY DEF CleanOK, Under, NextNumber
    <2>1. CASE req'[s] = req[s]
      <3>1. /\ req'[s].lines \subseteq Rows(lines)
            /\ \/ Rows(lines) = req'[s].lines
               \/ \E l \in lines : l.number = NextNumber(req'[s].lines)
        BY <2>1 DEF IInv, CleanOK, Under
      <3> QED
        BY <1>2, <3>1
    <2>2. CASE req'[s].lines = Rows(lines)
      BY <2>2
    <2> QED
      BY <2>1, <2>2
  <1>10. NumbersOK'
    <2>1. ASSUME NEW s \in Requests, req'[s] # NULL, NEW row \in req'[s].lines
          PROVE  row.number < nextId
      <3>1. CASE req'[s] = req[s]
        BY <2>1, <3>1 DEF IInv, NumbersOK
      <3>2. CASE req'[s].lines = Rows(lines)
        <4>1. PICK i \in lines : row = RowOf(i)
          BY <2>1, <3>2, RowsAre
        <4> QED
          BY <4>1, RowsAre DEF IInv, NumbersOK
      <3> QED
        BY <2>1, <3>1, <3>2
    <2> QED
      BY <1>5, <2>1 DEF NumbersOK
  <1> QED
    BY <1>3, <1>6, <1>7, <1>8, <1>9, <1>10 DEF IInv

LEMMA RowsAreRows ==
    ASSUME IInv
    PROVE  Rows(lines) \subseteq Row
  <1>1. \A l \in lines : RowOf(l) \in Row
    BY DEF IInv, TypeOK, Line, RowOf, Row
  <1> QED
    BY <1>1, RowsAre

LEMMA BeginKeepsInv ==
    ASSUME IInv, NEW r \in Requests, NEW op \in Ops, Begin(r, op)
    PROVE  IInv'
  <1> DEFINE loaded == [op |-> op, clean |-> TRUE,
                        lines |-> IF op \in {"SUBMIT", "RECALL"} THEN {} ELSE Rows(lines),
                        kinds |-> [a \in Accounts |-> IF op = "EDIT" THEN Category(a) ELSE "HIDDEN"]]
  <1>1. /\ req' = [req EXCEPT ![r] = loaded]
        /\ UNCHANGED <<status, lines, reviewed, settings, nextId, late, doubled>>
    BY DEF Begin
  <1>2. loaded \in Request
    <2>1. \A a \in Accounts : Category(a) \in Kinds \cup {"HIDDEN"}
      <3> SUFFICES ASSUME NEW a \in Accounts PROVE Category(a) \in Kinds \cup {"HIDDEN"}
        OBVIOUS
      <3>1. settings[a] \in Setting
        BY DEF IInv, TypeOK
      <3>2. settings[a].tab \in Tabs \cup {NULL} /\ settings[a].over.tab \in Tabs \cup {NULL}
        BY <3>1 DEF Setting, Override
      <3> QED
        BY <3>2 DEF Category, KindOf, TabUnderOverride, Kinds, Tabs
    <2>2. Rows(lines) \in SUBSET Row
      BY RowsAreRows
    <2> QED
      BY <2>1, <2>2 DEF Request
  <1>3. \/ loaded.lines = Rows(lines)
        \/ loaded.op \in {"SUBMIT", "RECALL"} /\ loaded.lines = {}
    OBVIOUS
  <1> HIDE DEF loaded
  <1>4. req' \in [Requests -> Request \cup {NULL}]
    BY <1>1, <1>2 DEF IInv, TypeOK
  <1>5. \A s \in Requests : req'[s] = req[s] \/ req'[s] = loaded
    BY <1>1 DEF IInv, TypeOK
  <1>6. Rows(lines)' = Rows(lines) /\ OnlyLateLinesGoUnreviewed'
    BY <1>1 DEF IInv, OnlyLateLinesGoUnreviewed, Rows
  <1> QED
    BY <1>1, <1>3, <1>4, <1>5, <1>6, KeptRows DEF IInv, TypeOK

\* A handler that ends leaves the others as they are.
LEMMA EndedIs ==
    ASSUME IInv, NEW r \in Requests, req' = [req EXCEPT ![r] = NULL]
    PROVE  /\ req' \in [Requests -> Request \cup {NULL}]
           /\ \A s \in Requests : req'[s] = NULL \/ req'[s] = req[s]
  BY DEF IInv, TypeOK

\* The groups a dispatcher posts change nothing else of the lines.
LEMMA AssignedIs ==
    ASSUME IInv, NEW r \in Requests, NEW D, NEW choice \in [D -> Groups],
           lines' = Assigned(r, choice)
    PROVE  /\ lines' \subseteq Line /\ \A k, l \in lines' : k.id = l.id => k = l
           /\ Rows(lines)' = Rows(lines)
           /\ \A l \in lines' : \E i \in lines :
                 /\ i.id = l.id
                 /\ l.group = IF i.id \in D THEN choice[i.id] ELSE i.group
  <1> DEFINE g(l) == IF l.id \in D THEN [l EXCEPT !.group = choice[l.id]] ELSE l
  <1>1. lines' = {g(l) : l \in lines}
    BY DEF Assigned
  <1>2. \A l \in lines : /\ g(l) \in Line /\ RowOf(g(l)) = RowOf(l)
                         /\ g(l).group = IF l.id \in D THEN choice[l.id] ELSE l.group
    BY DEF IInv, TypeOK, Line, RowOf
  <1> HIDE DEF g
  <1>3. \A k, l \in lines' : k.id = l.id => k = l
    <2> SUFFICES ASSUME NEW k \in lines', NEW l \in lines', k.id = l.id PROVE k = l
      OBVIOUS
    <2>1. PICK i \in lines, j \in lines : k = g(i) /\ l = g(j)
      BY <1>1
    <2>2. i.id = j.id
      BY <1>2, <2>1, RowsAre
    <2> QED
      BY <2>1, <2>2 DEF IInv, TypeOK
  <1>4. {RowOf(k) : k \in lines'} = {RowOf(l) : l \in lines}
    BY <1>1, <1>2
  <1>5. Rows(lines)' = Rows(lines)
    BY <1>4 DEF Rows, RowOf
  <1>6. \A l \in lines : g(l).id = l.id
    BY <1>2, RowsAre
  <1> QED
    BY <1>1, <1>2, <1>3, <1>5, <1>6

LEMMA MoveKeepsInv ==
    ASSUME IInv, NEW r \in Requests, FinishMove(r)
    PROVE  IInv'
  <1>1. /\ req' = [req EXCEPT ![r] = NULL]
        /\ status' \in {"DRAFT", "AWAITING_DISPATCH"}
        /\ UNCHANGED <<lines, reviewed, settings, nextId, late, doubled>>
    BY DEF FinishMove, Ends
  <1>2. Rows(lines)' = Rows(lines) /\ OnlyLateLinesGoUnreviewed'
    BY <1>1 DEF OnlyLateLinesGoUnreviewed, Rows
  <1>3. /\ req' \in [Requests -> Request \cup {NULL}]
        /\ \A s \in Requests : req'[s] = NULL \/ req'[s] = req[s]
    BY <1>1, EndedIs
  <1> QED
    BY <1>1, <1>2, <1>3, KeptRows DEF IInv, TypeOK

LEMMA AssignKeepsInv ==
    ASSUME IInv, NEW r \in Requests, FinishAssign(r)
    PROVE  IInv'
  <1> DEFINE D == {l.id : l \in req[r].lines}
  <1>1. PICK choice \in [D -> Groups] : lines' = Assigned(r, choice)
    BY DEF FinishAssign
  <1>2. /\ req' = [req EXCEPT ![r] = NULL]
        /\ UNCHANGED <<status, reviewed, settings, nextId, late, doubled>>
    BY DEF FinishAssign, Ends
  <1> HIDE DEF D
  <1>3. /\ lines' \subseteq Line /\ \A k, l \in lines' : k.id = l.id => k = l
        /\ Rows(lines)' = Rows(lines)
        /\ \A l \in lines' : \E i \in lines :
              i.id = l.id /\ l.group = IF i.id \in D THEN choice[i.id] ELSE i.group
    BY <1>1, AssignedIs
  <1>4. OnlyLateLinesGoUnreviewed'
    BY <1>2, <1>3, DraftAssumption DEF IInv, OnlyLateLinesGoUnreviewed
  <1>5. /\ req' \in [Requests -> Request \cup {NULL}]
        /\ \A s \in Requests : req'[s] = NULL \/ req'[s] = req[s]
    BY <1>2, EndedIs
  <1> QED
    BY <1>2, <1>3, <1>4, <1>5, KeptRows DEF IInv, TypeOK

LEMMA DispatchKeepsInv ==
    ASSUME IInv, NEW r \in Requests, Under(r, "DISPATCH"), FinishDispatch(r)
    PROVE  IInv'
  <1> DEFINE D == {l.id : l \in req[r].lines}
  <1>1. PICK choice \in [D -> Groups] : lines' = Assigned(r, choice) /\
                                        DOMAIN choice \subseteq {l.id : l \in lines} \ reviewed
    BY DEF FinishDispatch
  <1>2. /\ req' = [req EXCEPT ![r] = NULL] /\ status' = "SUBMITTED"
        /\ reviewed' = reviewed \cup D
        /\ UNCHANGED <<settings, nextId, late, doubled>>
    BY DEF FinishDispatch, Ends, Dispatched
  <1>3. \A l \in lines : l.id \in late \/ l.id \in D
    BY DEF IInv, DispatchOK
  <1>4. D \subseteq {l.id : l \in lines}
    BY <1>1
  <1> HIDE DEF D
  <1>5. /\ lines' \subseteq Line /\ \A k, l \in lines' : k.id = l.id => k = l
        /\ Rows(lines)' = Rows(lines)
        /\ \A l \in lines' : \E i \in lines :
              i.id = l.id /\ l.group = IF i.id \in D THEN choice[i.id] ELSE i.group
    BY <1>1, AssignedIs
  <1>6. OnlyLateLinesGoUnreviewed'
    BY <1>2, <1>3, <1>5, DraftAssumption DEF OnlyLateLinesGoUnreviewed
  <1>7. /\ req' \in [Requests -> Request \cup {NULL}]
        /\ \A s \in Requests : req'[s] = NULL \/ req'[s] = req[s]
    BY <1>2, EndedIs
  <1>8. reviewed' \subseteq {l.id : l \in lines}
    BY <1>2, <1>4 DEF IInv, TypeOK
  <1> QED
    BY <1>2, <1>5, <1>6, <1>7, <1>8, KeptRows DEF IInv, TypeOK

\* The request is left alone: a refusal, a setting, a step of something else.
LEMMA RestKeepsInv ==
    ASSUME IInv, UNCHANGED <<status, lines, reviewed, nextId, late, doubled>>,
           settings' \in [Accounts -> Setting],
           req' = req \/ \E r \in Requests : req' = [req EXCEPT ![r] = NULL]
    PROVE  IInv'
  <1>1. Rows(lines)' = Rows(lines) /\ OnlyLateLinesGoUnreviewed'
    BY DEF OnlyLateLinesGoUnreviewed, Rows, IInv
  <1>2. /\ req' \in [Requests -> Request \cup {NULL}]
        /\ \A s \in Requests : req'[s] = NULL \/ req'[s] = req[s]
    BY EndedIs DEF IInv, TypeOK
  <1>3. /\ lines' \subseteq Line /\ \A k, l \in lines' : k.id = l.id => k = l
        /\ status' \in {"DRAFT", "AWAITING_DISPATCH", "SUBMITTED"}
        /\ reviewed' \subseteq {l.id : l \in lines}
    BY DEF IInv, TypeOK
  <1> QED
    BY <1>1, <1>2, <1>3, KeptRows

-----------------------------------------------------------------------------
(* The theorems.                                                           *)

LEMMA InitInv == Init => IInv
  <1> SUFFICES ASSUME Init PROVE IInv
    OBVIOUS
  <1>1. settings \in [Accounts -> Setting]
    BY DraftAssumption DEF Init
  <1>2. 1 \in 1 .. MaxIds + 1
    BY DraftAssumption
  <1>3. TypeOK
    BY <1>1, <1>2 DEF Init, TypeOK, Numbered
  <1>4. IsFiniteSet(lines)
    BY FS_EmptySet DEF Init
  <1>5. CleanOK /\ DispatchOK /\ DoubledOK /\ NumbersOK /\ OnlyLateLinesGoUnreviewed
    BY DEF Init, Under, CleanOK, DispatchOK, DoubledOK, NumbersOK, OnlyLateLinesGoUnreviewed
  <1> QED
    BY <1>3, <1>4, <1>5 DEF IInv

LEMMA NextInv == IInv /\ [Next]_vars => IInv'
  <1> SUFFICES ASSUME IInv, [Next]_vars PROVE IInv'
    OBVIOUS
  <1>1. ASSUME NEW r \in Requests, NEW op \in Ops, Begin(r, op) PROVE IInv'
    BY <1>1, BeginKeepsInv
  <1>2. ASSUME NEW r \in Requests, Finish(r) PROVE IInv'
    <2>1. CASE req[r].op = "EDIT" /\ (\/ FinishCreate(r) \/ FinishUpdate(r) \/ FinishDelete(r)
                                      \/ FinishTab(r) \/ FinishWizard(r))
      <3>1. Under(r, "EDIT")
        BY <1>2, <2>1 DEF Under, Finish
      <3> QED
        BY <2>1, <3>1, CreateKeepsInv, UpdateKeepsInv, DeleteKeepsInv, TabKeepsInv,
           WizardKeepsInv
    <2>2. CASE FinishMove(r)
      BY <2>2, MoveKeepsInv
    <2>3. CASE req[r].op = "ASSIGN" /\ FinishAssign(r)
      BY <2>3, AssignKeepsInv
    <2>4. CASE req[r].op = "DISPATCH" /\ FinishDispatch(r)
      <3>1. Under(r, "DISPATCH")
        BY <1>2, <2>4 DEF Under, Finish
      <3> QED
        BY <2>4, <3>1, DispatchKeepsInv
    <2>5. CASE Refused(r)
      BY <2>5, RestKeepsInv DEF Refused, IInv, TypeOK
    <2> QED
      BY <1>2, <2>1, <2>2, <2>3, <2>4, <2>5 DEF Finish
  <1>3. ASSUME NEW a \in Accounts, Configure(a) PROVE IInv'
    <2>1. settings' \in [Accounts -> Setting]
      BY <1>3, DraftAssumption DEF Configure, IInv, TypeOK
    <2> QED
      BY <1>3, <2>1, RestKeepsInv DEF Configure
  <1>4. CASE UNCHANGED vars
    BY <1>4, RestKeepsInv DEF vars, IInv, TypeOK
  <1> QED
    BY <1>1, <1>2, <1>3, <1>4 DEF Next

\* The inductive invariant of a draft: what each work_item_edit and
\* dispatch under way still knows of the list it loaded (CleanOK, DispatchOK),
\* and which accounts can have two lines (DoubledOK).
THEOREM DraftInvariant == Spec => []IInv
  BY InitInv, NextInv, PTL DEF Spec

\* The types, and every line has an id and a number of its own whatever
\* handlers overlap: uq_work_line_number_per_item.
THEOREM DraftTypeCorrect == Spec => []TypeOK
  <1>1. IInv => TypeOK
    BY DEF IInv
  <1> QED
    BY <1>1, DraftInvariant, PTL

\* work_item_edit shows every line, except those of accounts that came by
\* several otherwise than by two tab saves.
THEOREM DraftShowsEveryLine == Spec => []EveryLineIsShown
  <1>1. IInv => EveryLineIsShown
    <2> SUFFICES ASSUME IInv, NEW l \in lines, l.account \notin doubled
                 PROVE  l = Kept(lines, l.account)
      BY DEF EveryLineIsShown, Shown
    <2>1. \A k \in Of(lines, l.account) : k = l
      BY DEF IInv, DoubledOK, Of
    <2>2. l \in Of(lines, l.account) /\ l.number <= l.number
      BY DraftAssumption DEF Of, IInv, TypeOK, Line
    <2> QED
      BY <2>1, <2>2 DEF Kept
  <1> QED
    BY <1>1, DraftInvariant, PTL

\* After dispatch_to_queue, every line has a review and a group, or was written
\* by an edit that overlapped the dispatcher or the submission.
THEOREM DraftDispatchesEveryLine == Spec => []OnlyLateLinesGoUnreviewed
  <1>1. IInv => OnlyLateLinesGoUnreviewed
    BY DEF IInv
  <1> QED
    BY <1>1, DraftInvariant, PTL

=============================================================================
