-------------------------- MODULE LogisticsProofs ---------------------------
(***************************************************************************)
(* Theorems about what departments are lent and given: the spaces of the   *)
(* venue (VenueSpaces) and the items of a supply order (SupplyOrder).  The *)
(* two share no state; each is proved from its own specification.          *)
(***************************************************************************)
EXTENDS VenueSpaces, SupplyOrder, FiniteSetTheorems, WellFoundedInduction, TLAPS

-----------------------------------------------------------------------------
(***************************************************************************)
(* Theorems about VenueSpaces: codes are unique where they are seen, folds *)
(* stay in their room, and the two readers of the spaces agree.            *)
(*                                                                         *)
(* What holds them together is that only a permanent room or slice takes   *)
(* part in a room (PopUps, TwoLevels), and that an id nobody uses carries  *)
(* nothing over to the space it is given to (FreshIds).                    *)
(***************************************************************************)

\* CodesUniqueWhereSeen, of the venue itself.
UniqueCodes ==
    \A s, t \in Stored :
        /\ space[s].code = space[t].code
        /\ None \in {space[s].event, space[t].event} \/ space[s].event = space[t].event
        => s = t

\* A pop-up is neither a room nor a slice.
PopUps == \A s \in Stored : space[s].event # None => space[s].kind = "FREEFORM"

\* An id no space has says nothing of any event.
FreshIds == \A s \in Free, e \in Events : override[s][e] = None /\ held[s][e] = {}

\* Departments hold what their event sees.
HeldWhereSeen == \A s \in Ids, e \in Events : held[s][e] # {} => s \in SeenAt(e)

\* What a space says of itself.
SpacesOK ==
    /\ space \in [Ids -> Space \cup {None}]
    /\ UniqueCodes
    /\ TwoLevels
    /\ PopUps

VInv ==
    /\ VenueTypeOK
    /\ SpacesOK
    /\ FreshIds
    /\ HeldWhereSeen
    /\ FoldsStayInRoom

-----------------------------------------------------------------------------
(* Ranks.                                                                  *)

LEMMA IdsAre ==
    IsFiniteSet(Ids) /\ None \notin Ids /\ \A i \in Ids : i \in Nat /\ i >= 1 /\ i <= MaxSpaces
  <1>1. 1 \in Int /\ MaxSpaces \in Int
    BY VenueAssumption
  <1>2. IsFiniteSet(Ids)
    BY <1>1, FS_Interval DEF Ids
  <1>3. \A i \in Ids : i \in Nat /\ i >= 1 /\ i <= MaxSpaces
    BY VenueAssumption DEF Ids
  <1> QED
    BY <1>2, <1>3, VenueAssumption

\* A set of ids that is not empty has a last one, and all others before it.
LEMMA LastId ==
    ASSUME NEW G \in SUBSET Ids, G # {}
    PROVE  \E y \in G : /\ \A t \in G : t <= y
                        /\ Cardinality({t \in G : t < y}) = Cardinality(G) - 1
  <1> DEFINE B == {n \in Nat : \A x \in G : x <= n}
  <1>1. MaxSpaces \in B
    BY VenueAssumption, IdsAre
  <1>2. PICK m \in B : \A n \in B : ~(<<n, m>> \in OpToRel(<, Nat))
    <2>1. B \subseteq Nat /\ B # {}
      BY <1>1
    <2> QED
      BY <2>1, NatLessThanWellFounded, WFMin
  <1>3. \A x \in G : x \in Nat /\ x >= 1 /\ x <= m
    BY <1>2, IdsAre
  <1>4. m \in G
    <2> SUFFICES ASSUME m \notin G PROVE FALSE
      OBVIOUS
    <2>1. \A x \in G : x <= m - 1
      BY <1>3
    <2>2. m \in Nat /\ m >= 1
      <3>1. PICK x \in G : TRUE
        OBVIOUS
      <3>2. m \in Nat
        BY <1>2
      <3> QED
        BY <1>3, <3>1, <3>2
    <2>3. m - 1 \in B /\ m - 1 < m
      BY <2>1, <2>2
    <2> QED
      BY <1>2, <2>3 DEF OpToRel
  <1>5. {t \in G : t < m} = G \ {m}
    BY <1>3
  <1>6. IsFiniteSet(G)
    BY IdsAre, FS_Subset
  <1>7. Cardinality(G \ {m}) = Cardinality(G) - 1
    BY <1>4, <1>6, FS_RemoveElement
  <1> QED
    BY <1>3, <1>4, <1>5, <1>7

\* Every place in a set of ids is some id's.
LEMMA RankIsTaken ==
    ASSUME NEW F \in SUBSET Ids, NEW k \in Nat, k < Cardinality(F)
    PROVE  \E x \in F : Cardinality({t \in F : t < x}) = k
  <1> DEFINE R(x) == Cardinality({t \in F : t < x})
             P == {x \in F : R(x) >= k}
  <1>1. IsFiniteSet(F)
    BY IdsAre, FS_Subset
  <1>2. Cardinality(F) \in Nat
    BY <1>1, FS_CardinalityType
  <1>3. \A x \in F : R(x) \in Nat
    <2> SUFFICES ASSUME NEW x \in F PROVE R(x) \in Nat
      OBVIOUS
    <2>1. IsFiniteSet({t \in F : t < x})
      BY <1>1, FS_Subset
    <2> QED
      BY <2>1, FS_CardinalityType
  <1>4. P # {}
    <2>1. F # {}
      BY <1>2, FS_EmptySet
    <2>2. PICK y \in F : Cardinality({t \in F : t < y}) = Cardinality(F) - 1
      BY <2>1, LastId
    <2>3. R(y) >= k
      BY <1>2, <2>2
    <2> QED
      BY <2>3
  <1>5. PICK x \in P : \A y \in P : ~(<<y, x>> \in OpToRel(<, Nat))
    <2>1. P \subseteq Nat
      BY IdsAre
    <2> QED
      BY <1>4, <2>1, NatLessThanWellFounded, WFMin
  <1>6. x \in F /\ x \in Nat /\ R(x) \in Nat /\ R(x) >= k
    BY <1>3, <1>5, IdsAre
  <1>7. ASSUME R(x) > k PROVE FALSE
    <2> DEFINE G == {t \in F : t < x}
    <2>1. G \in SUBSET Ids /\ G # {}
      BY <1>7, FS_EmptySet
    <2>2. PICK y \in G : Cardinality({t \in G : t < y}) = Cardinality(G) - 1
      BY <2>1, LastId
    <2>3. {t \in G : t < y} = {t \in F : t < y}
      <3>1. \A t \in F : t < y => t < x
        BY <1>6, <2>2, IdsAre
      <3> QED
        BY <3>1
    <2>4. R(y) = R(x) - 1
      BY <2>2, <2>3
    <2>5. y \in F /\ y < x /\ y \in Nat
      BY IdsAre
    <2> HIDE DEF R, G
    <2>6. R(y) >= k
      BY <1>6, <1>7, <2>4
    <2>7. y \in P
      BY <2>5, <2>6
    <2> QED
      BY <1>5, <1>6, <2>5, <2>7 DEF OpToRel
  <1> HIDE DEF R
  <1>8. R(x) = k
    BY <1>6, <1>7
  <1> QED
    BY <1>6, <1>8 DEF R

-----------------------------------------------------------------------------
(* The catalog.                                                            *)

\* A step on the spaces alone, that leaves their events and every slice's
\* parent as they are.
LEMMA SpacesStepKeepsInv ==
    ASSUME VInv, SpacesOK', UNCHANGED <<override, held>>,
           \A t \in Stored : /\ space'[t] # None /\ space'[t].event = space[t].event
                             /\ space[t].kind = "SLICE" =>
                                   /\ space'[t].kind = "SLICE"
                                   /\ space'[t].parent = space[t].parent
    PROVE  VInv'
  <1>1. Stored \subseteq Stored' /\ Free' \subseteq Free
    BY DEF Stored, Free
  <1>2. FreshIds'
    BY <1>1 DEF FreshIds, VInv
  <1>3. HeldWhereSeen'
    BY <1>1 DEF HeldWhereSeen, VInv, SeenAt, Stored
  <1>4. FoldsStayInRoom'
    <2> SUFFICES ASSUME NEW e \in Events, NEW s \in Stored', Fold(e, s) # None
                 PROVE  /\ Fold(e, s) \in Stored' /\ Fold(e, s) # s
                        /\ space'[s].kind = "SLICE" /\ space'[Fold(e, s)].kind = "SLICE"
                        /\ space'[s].parent = space'[Fold(e, s)].parent
      BY DEF FoldsStayInRoom, Fold
    <2>1. s \in Stored
      BY DEF VInv, FreshIds, Fold, Free, Stored
    <2>2. /\ Fold(e, s) \in Stored /\ Fold(e, s) # s
          /\ space[s].kind = "SLICE" /\ space[Fold(e, s)].kind = "SLICE"
          /\ space[s].parent = space[Fold(e, s)].parent
      BY <2>1 DEF VInv, FoldsStayInRoom
    <2> QED
      BY <1>1, <2>1, <2>2
  <1>5. VenueTypeOK'
    BY DEF VInv, VenueTypeOK, SpacesOK
  <1> QED
    BY <1>2, <1>3, <1>4, <1>5 DEF VInv

\* A space that changes its code or its activity.
LEMMA RecodedIsOK ==
    ASSUME VInv, NEW s \in Stored, NEW row \in Space, space' = [space EXCEPT ![s] = row],
           row.kind = space[s].kind, row.parent = space[s].parent, row.event = space[s].event,
           \/ row.code = space[s].code
           \/ \A t \in Stored : space[t].code = row.code =>
                 None \notin {space[t].event, row.event} /\ space[t].event # row.event
    PROVE  SpacesOK' /\ Stored' = Stored
           /\ \A t \in Stored : /\ space'[t] # None /\ space'[t].event = space[t].event
                                /\ space'[t].kind = space[t].kind
                                /\ space'[t].parent = space[t].parent
  <1>1. space' \in [Ids -> Space \cup {None}]
    BY DEF VInv, SpacesOK, Stored
  <1>2. \A t \in Ids : space'[t] = IF t = s THEN row ELSE space[t]
    BY DEF VInv, SpacesOK, Stored
  <1>3. row # None
    BY VenueAssumption
  <1>4. Stored' = Stored
    BY <1>2, <1>3 DEF Stored
  <1>5. \A t \in Stored : /\ space'[t] # None /\ space'[t].event = space[t].event
                          /\ space'[t].kind = space[t].kind
                          /\ space'[t].parent = space[t].parent
    BY <1>2, <1>3 DEF Stored
  <1>6. UniqueCodes'
    <2> SUFFICES ASSUME NEW t \in Stored, NEW u \in Stored, space'[t].code = space'[u].code,
                        \/ None \in {space'[t].event, space'[u].event}
                        \/ space'[t].event = space'[u].event
                 PROVE  t = u
      BY <1>4 DEF UniqueCodes
    <2>1. \/ None \in {space[t].event, space[u].event} \/ space[t].event = space[u].event
      BY <1>5
    <2>2. CASE row.code = space[s].code
      BY <1>2, <2>1, <2>2 DEF Stored, VInv, SpacesOK, UniqueCodes
    <2>3. CASE \A v \in Stored : space[v].code = row.code =>
                 None \notin {space[v].event, row.event} /\ space[v].event # row.event
      <3>1. CASE t # s /\ u # s
        BY <1>2, <2>1, <3>1 DEF Stored, VInv, SpacesOK, UniqueCodes
      <3>2. CASE t = s /\ u # s
        BY <1>2, <2>1, <2>3, <3>2 DEF Stored
      <3>3. CASE t # s /\ u = s
        BY <1>2, <2>1, <2>3, <3>3 DEF Stored
      <3> QED
        BY <3>1, <3>2, <3>3
    <2> QED
      BY <2>2, <2>3
  <1>7. TwoLevels' /\ PopUps'
    BY <1>4, <1>5 DEF VInv, SpacesOK, TwoLevels, PopUps
  <1> QED
    BY <1>1, <1>4, <1>5, <1>6, <1>7 DEF SpacesOK

\* Spaces that get ids nobody had.
LEMMA NewSpacesAreOK ==
    ASSUME VInv, NEW N \in SUBSET Free, space' \in [Ids -> Space \cup {None}],
           \A i \in Ids \ N : space'[i] = space[i], \A i \in N : space'[i] \in Space,
           \A i \in N, t \in Stored : space[t].code = space'[i].code =>
              None \notin {space[t].event, space'[i].event} /\ space[t].event # space'[i].event,
           \A i, j \in N : space'[i].code = space'[j].code => i = j,
           \A i \in N : space'[i].kind = "SLICE" <=> space'[i].parent # None,
           \A i \in N : space'[i].parent # None =>
              /\ space'[i].parent \in N \cup Stored
              /\ space'[space'[i].parent].kind = "ROOM"
              /\ space'[space'[i].parent].parent = None
              /\ space'[space'[i].parent].event = None,
           \A i \in N : space'[i].event # None => space'[i].kind = "FREEFORM"
    PROVE  /\ SpacesOK' /\ Stored' = Stored \cup N
           /\ \A t \in Stored : space'[t] = space[t]
  <1>1. \A t \in Stored : space'[t] = space[t]
    BY DEF Stored, Free
  <1>2. \A i \in N : space'[i] # None
    BY VenueAssumption
  <1>3. Stored' = Stored \cup N
    BY <1>2 DEF Stored, Free
  <1>4. UniqueCodes'
    <2> SUFFICES ASSUME NEW t \in Stored \cup N, NEW u \in Stored \cup N,
                        space'[t].code = space'[u].code,
                        \/ None \in {space'[t].event, space'[u].event}
                        \/ space'[t].event = space'[u].event
                 PROVE  t = u
      BY <1>3 DEF UniqueCodes
    <2>1. CASE t \in Stored /\ u \in Stored
      BY <1>1, <2>1 DEF VInv, SpacesOK, UniqueCodes
    <2>2. CASE t \in N /\ u \in N
      BY <2>2
    <2>3. CASE t \in Stored /\ u \in N
      BY <1>1, <2>3
    <2>4. CASE t \in N /\ u \in Stored
      BY <1>1, <2>4
    <2> QED
      BY <2>1, <2>2, <2>3, <2>4
  <1>5. TwoLevels'
    <2>1. \A s \in Stored : /\ space[s].kind = "SLICE" <=> space[s].parent # None
                            /\ space[s].parent # None =>
                                  /\ space[s].parent \in Stored
                                  /\ space[space[s].parent].kind = "ROOM"
                                  /\ space[space[s].parent].parent = None
                                  /\ space[space[s].parent].event = None
      BY DEF VInv, SpacesOK, TwoLevels
    <2>2. \A s \in Stored' : /\ space'[s].kind = "SLICE" <=> space'[s].parent # None
                             /\ space'[s].parent # None =>
                                   /\ space'[s].parent \in Stored'
                                   /\ space'[space'[s].parent].kind = "ROOM"
                                   /\ space'[space'[s].parent].parent = None
                                   /\ space'[space'[s].parent].event = None
      BY <1>1, <1>3, <2>1
    <2> QED
      BY <2>2 DEF TwoLevels
  <1>6. PopUps'
    BY <1>1, <1>3 DEF VInv, SpacesOK, PopUps
  <1> QED
    BY <1>1, <1>3, <1>4, <1>5, <1>6 DEF SpacesOK

\* With nothing said of them yet.
LEMMA NewSpacesKeepInv ==
    ASSUME VInv, SpacesOK', NEW N, Stored' = Stored \cup N, UNCHANGED <<override, held>>,
           \A t \in Stored : space'[t] = space[t]
    PROVE  VInv'
  <1>1. \A t \in Stored : space'[t] # None
    BY DEF Stored
  <1> QED
    BY <1>1, SpacesStepKeepsInv

LEMMA NewIdsAreFree ==
    \A n : NewIds(n) \subseteq Free
  BY DEF NewIds

LEMMA AddKeepsInv ==
    ASSUME VInv, NEW code \in Codes, NEW parent \in Ids \cup {None},
           CatalogAddSpace(code, parent)
    PROVE  VInv'
  <1>1. PICK new \in NewIds(1) : space' = [space EXCEPT ![new] = Permanent(code, parent)]
    BY DEF CatalogAddSpace
  <1> DEFINE row == Permanent(code, parent)
             N == {new}
  <1>2. N \in SUBSET Free /\ new \in Free
    BY NewIdsAreFree
  <1>3. /\ row.code = code /\ row.parent = parent /\ row.event = None /\ row \in Space
        /\ row.kind = IF parent = None THEN "ROOM" ELSE "SLICE"
    BY DEF Permanent, Space
  <1>4. parent # None => IsParent(parent)
    BY DEF CatalogAddSpace
  <1>5. \A t \in Stored : space[t].code # code
    BY DEF CatalogAddSpace, CodesAtVenue
  <1> HIDE DEF row
  <1>6. /\ space' \in [Ids -> Space \cup {None}]
        /\ \A i \in Ids \ N : space'[i] = space[i]
        /\ space'[new] = row
    <2>1. space \in [Ids -> Space \cup {None}] /\ new \in Ids
      BY <1>2 DEF VInv, SpacesOK, Free
    <2>2. space' = [space EXCEPT ![new] = row]
      BY <1>1 DEF row
    <2> QED
      BY <1>3, <2>1, <2>2
  <1>7. parent # None => /\ parent \in Stored /\ space'[parent] = space[parent]
                         /\ space[parent].kind = "ROOM" /\ space[parent].parent = None
                         /\ space[parent].event = None
    BY <1>2, <1>4, <1>6 DEF IsParent, Stored, Free
  <1>8. \A i \in N : space'[i] = row
    BY <1>6
  <1> HIDE DEF N
  <1>9. /\ \A i \in N : space'[i] \in Space
        /\ \A i \in N, t \in Stored : space[t].code = space'[i].code =>
              None \notin {space[t].event, space'[i].event} /\ space[t].event # space'[i].event
        /\ \A i, j \in N : space'[i].code = space'[j].code => i = j
        /\ \A i \in N : space'[i].kind = "SLICE" <=> space'[i].parent # None
        /\ \A i \in N : space'[i].event # None => space'[i].kind = "FREEFORM"
    BY <1>3, <1>5, <1>8 DEF N
  <1>10. \A i \in N : space'[i].parent # None =>
            /\ space'[i].parent \in N \cup Stored
            /\ space'[space'[i].parent].kind = "ROOM"
            /\ space'[space'[i].parent].parent = None
            /\ space'[space'[i].parent].event = None
    BY <1>3, <1>7, <1>8
  <1>11. /\ SpacesOK' /\ Stored' = Stored \cup N
         /\ \A t \in Stored : space'[t] = space[t]
    BY <1>2, <1>6, <1>9, <1>10, NewSpacesAreOK
  <1>12. UNCHANGED <<override, held>>
    BY DEF CatalogAddSpace
  <1> QED
    BY <1>11, <1>12, NewSpacesKeepInv

\* A batch finds each row the parent it names.
LEMMA PasteKeepsInv ==
    ASSUME VInv, NEW batch \in SUBSET Free, NEW code \in [batch -> Codes],
           NEW parentCode \in [batch -> Codes \cup {None}],
           CatalogPasteConfirm(code, parentCode)
    PROVE  VInv'
  <1> DEFINE Bears(s, c) == c = IF s \in batch THEN code[s] ELSE space[s].code
             Named(c) == IF c = None THEN None
                         ELSE CHOOSE s \in batch \cup Stored : Bears(s, c)
             rooms == {code[i] : i \in {j \in batch : parentCode[j] = None}}
             p(i) == Named(parentCode[i])
  <1>1. /\ \A i, j \in batch : code[i] = code[j] => i = j
        /\ \A i \in batch : /\ code[i] \notin CodesAtVenue
                            /\ parentCode[i] \in LegalParentCodes \cup rooms \cup {None}
        /\ space' = [s \in Ids |-> IF s \in batch THEN Permanent(code[s], p(s)) ELSE space[s]]
        /\ UNCHANGED <<override, held>>
    BY DEF CatalogPasteConfirm
  <1>2. \A i \in batch, t \in Stored : space[t].code # code[i]
    BY <1>1 DEF CodesAtVenue
  <1>3. \A i \in batch : parentCode[i] # None =>
           /\ p(i) \in batch => parentCode[p(i)] = None
           /\ p(i) \notin batch => IsParent(p(i))
           /\ p(i) \in batch \cup Stored
    <2> SUFFICES ASSUME NEW i \in batch, parentCode[i] # None
                 PROVE  /\ p(i) \in batch => parentCode[p(i)] = None
                        /\ p(i) \notin batch => IsParent(p(i))
                        /\ p(i) \in batch \cup Stored
      OBVIOUS
    <2> DEFINE c == parentCode[i]
    <2>1. \A s \in batch \cup Stored : Bears(s, c) => p(i) \in batch \cup Stored /\ Bears(p(i), c)
      OBVIOUS
    <2> HIDE DEF p
    <2>2. CASE c \in LegalParentCodes
      <3>1. PICK t \in Stored : IsParent(t) /\ space[t].code = c
        BY <2>2 DEF LegalParentCodes
      <3>2. t \notin batch
        BY DEF Free
      <3>3. p(i) \in batch \cup Stored /\ Bears(p(i), c)
        BY <2>1, <3>1, <3>2
      <3>4. p(i) \notin batch
        BY <1>2, <3>1, <3>3
      <3>5. p(i) \in Stored /\ space[p(i)].code = space[t].code /\ space[t].event = None
        BY <3>1, <3>3, <3>4 DEF IsParent
      <3>6. p(i) = t
        BY <3>5 DEF VInv, SpacesOK, UniqueCodes
      <3> QED
        BY <3>1, <3>4, <3>5, <3>6
    <2>3. CASE c \in rooms
      <3>1. PICK j \in batch : parentCode[j] = None /\ code[j] = c
        BY <2>3
      <3>2. p(i) \in batch \cup Stored /\ Bears(p(i), c)
        BY <2>1, <3>1
      <3>3. p(i) \in batch
        BY <1>2, <3>1, <3>2
      <3>4. p(i) = j
        BY <1>1, <3>1, <3>2, <3>3
      <3> QED
        BY <3>1, <3>3, <3>4
    <2> QED
      BY <1>1, <2>2, <2>3
  <1>4. \A i \in batch : parentCode[i] = None => p(i) = None
    OBVIOUS
  <1> HIDE DEF p
  <1>5. \A i \in batch : p(i) \in Ids \cup {None} /\ (p(i) = None => parentCode[i] = None)
    BY <1>3, <1>4, IdsAre DEF Stored, Free
  <1>6. \A i \in batch :
           /\ space'[i] \in Space
           /\ space'[i].code = code[i] /\ space'[i].parent = p(i) /\ space'[i].event = None
           /\ space'[i].kind = IF p(i) = None THEN "ROOM" ELSE "SLICE"
    BY <1>1, <1>5 DEF Permanent, Space, Free
  <1>7. /\ space' \in [Ids -> Space \cup {None}]
        /\ \A i \in Ids \ batch : space'[i] = space[i]
    <2>1. \A i \in Ids : (IF i \in batch THEN Permanent(code[i], p(i)) ELSE space[i])
                            \in Space \cup {None}
      BY <1>1, <1>6 DEF VInv, SpacesOK
    <2> QED
      BY <1>1, <2>1
  <1>8. \A i \in batch : space'[i].parent # None =>
           /\ space'[i].parent \in batch \cup Stored
           /\ space'[space'[i].parent].kind = "ROOM"
           /\ space'[space'[i].parent].parent = None
           /\ space'[space'[i].parent].event = None
    <2> SUFFICES ASSUME NEW i \in batch, p(i) # None
                 PROVE  /\ p(i) \in batch \cup Stored
                        /\ space'[p(i)].kind = "ROOM" /\ space'[p(i)].parent = None
                        /\ space'[p(i)].event = None
      BY <1>6
    <2>1. /\ p(i) \in batch => parentCode[p(i)] = None
          /\ p(i) \notin batch => IsParent(p(i))
          /\ p(i) \in batch \cup Stored
      BY <1>3, <1>4
    <2>2. CASE p(i) \in batch
      BY <1>4, <1>6, <2>1, <2>2
    <2>3. CASE p(i) \notin batch
      BY <1>7, <2>1, <2>3 DEF IsParent, Stored
    <2> QED
      BY <2>2, <2>3
  <1>9. /\ \A i \in batch : space'[i] \in Space
        /\ \A i \in batch, t \in Stored : space[t].code = space'[i].code =>
              None \notin {space[t].event, space'[i].event} /\ space[t].event # space'[i].event
        /\ \A i, j \in batch : space'[i].code = space'[j].code => i = j
        /\ \A i \in batch : space'[i].kind = "SLICE" <=> space'[i].parent # None
        /\ \A i \in batch : space'[i].event # None => space'[i].kind = "FREEFORM"
    <2>1. /\ \A i \in batch : space'[i] \in Space
          /\ \A i \in batch : space'[i].event = None
      BY <1>6
    <2>2. \A i, j \in batch : space'[i].code = space'[j].code => i = j
      BY <1>1, <1>6
    <2>3. \A i \in batch, t \in Stored : space[t].code # space'[i].code
      BY <1>2, <1>6
    <2>4. \A i \in batch : space'[i].kind = "SLICE" <=> space'[i].parent # None
      BY <1>6
    <2> QED
      BY <2>1, <2>2, <2>3, <2>4
  <1>10. /\ SpacesOK' /\ Stored' = Stored \cup batch
         /\ \A t \in Stored : space'[t] = space[t]
    BY <1>7, <1>8, <1>9, NewSpacesAreOK
  <1> QED
    BY <1>1, <1>10, NewSpacesKeepInv

LEMMA RecodeKeepsInv ==
    ASSUME VInv, NEW s \in Ids, NEW code \in Codes, CatalogSaveSpace(s, code)
    PROVE  VInv'
  <1> DEFINE row == [space[s] EXCEPT !.code = code]
  <1>1. s \in Stored /\ space[s] \in Space
    BY DEF CatalogSaveSpace, VInv, SpacesOK, Stored
  <1>2. /\ row \in Space /\ row.code = code /\ row.kind = space[s].kind
        /\ row.parent = space[s].parent /\ row.event = space[s].event
    BY <1>1 DEF Space
  <1>3. \A t \in Stored : space[t].code # code
    BY DEF CatalogSaveSpace, CodesAtVenue
  <1>4. space' = [space EXCEPT ![s] = row] /\ UNCHANGED <<override, held>>
    BY DEF CatalogSaveSpace
  <1> HIDE DEF row
  <1>5. SpacesOK' /\ Stored' = Stored
        /\ \A t \in Stored : /\ space'[t] # None /\ space'[t].event = space[t].event
                             /\ space'[t].kind = space[t].kind
                             /\ space'[t].parent = space[t].parent
    BY <1>1, <1>2, <1>3, <1>4, RecodedIsOK
  <1> QED
    BY <1>4, <1>5, SpacesStepKeepsInv

LEMMA SetActiveKeepsInv ==
    ASSUME VInv, NEW s \in Ids, NEW active \in BOOLEAN, SetSpaceActive(s, active)
    PROVE  VInv'
  <1> DEFINE row == [space[s] EXCEPT !.active = active]
  <1>1. s \in Stored /\ space[s] \in Space
    BY DEF SetSpaceActive, VInv, SpacesOK, Stored
  <1>2. /\ row \in Space /\ row.code = space[s].code /\ row.kind = space[s].kind
        /\ row.parent = space[s].parent /\ row.event = space[s].event
    BY <1>1 DEF Space
  <1>3. space' = [space EXCEPT ![s] = row] /\ UNCHANGED <<override, held>>
    BY DEF SetSpaceActive
  <1> HIDE DEF row
  <1>4. SpacesOK' /\ Stored' = Stored
        /\ \A t \in Stored : /\ space'[t] # None /\ space'[t].event = space[t].event
                             /\ space'[t].kind = space[t].kind
                             /\ space'[t].parent = space[t].parent
    BY <1>1, <1>2, <1>3, RecodedIsOK
  <1> QED
    BY <1>3, <1>4, SpacesStepKeepsInv

LEMMA RepairKeepsInv ==
    ASSUME VInv, NEW ticked \in SUBSET Flagged,
           NEW parent \in [ticked -> {s \in Ids : IsParent(s)}], CatalogRepairSlices(parent)
    PROVE  VInv'
  <1>1. /\ \A s \in ticked : parent[s] \notin ticked /\ IsParent(parent[s]) /\ ~HasChildren(s)
        /\ space' = [s \in Ids |->
                        IF s \in ticked
                        THEN [space[s] EXCEPT !.parent = parent[s], !.kind = "SLICE"]
                        ELSE space[s]]
        /\ UNCHANGED <<override, held>>
    BY DEF CatalogRepairSlices, RepairParent
  <1>2. \A s \in ticked : /\ s \in Stored /\ space[s] \in Space /\ s \in Ids
                          /\ space[s].event = None /\ space[s].parent = None
                          /\ parent[s] \in Ids
    BY DEF Flagged, VInv, SpacesOK, Stored
  <1>3. \A s \in ticked :
           /\ space'[s] \in Space
           /\ space'[s].parent = parent[s] /\ space'[s].kind = "SLICE"
           /\ space'[s].event = None /\ space'[s].code = space[s].code
    BY <1>1, <1>2 DEF Space
  <1>4. \A s \in Ids \ ticked : space'[s] = space[s]
    BY <1>1
  <1>5. space' \in [Ids -> Space \cup {None}]
    <2>1. \A s \in Ids : space'[s] \in Space \cup {None}
      BY <1>3, <1>4 DEF VInv, SpacesOK
    <2> QED
      BY <1>1, <2>1
  <1>6. Stored' = Stored
    BY <1>2, <1>3, <1>4, VenueAssumption DEF Stored
  <1>7. \A t \in Stored : space'[t].event = space[t].event /\ space'[t].code = space[t].code
    BY <1>2, <1>3, <1>4 DEF Stored
  <1>8. UniqueCodes' /\ PopUps'
    <2>1. UniqueCodes'
      BY <1>6, <1>7 DEF VInv, SpacesOK, UniqueCodes
    <2>2. PopUps'
      BY <1>3, <1>4, <1>6 DEF VInv, SpacesOK, PopUps, Stored
    <2> QED
      BY <2>1, <2>2
  <1>9. TwoLevels'
    <2> SUFFICES ASSUME NEW s \in Stored
                 PROVE  /\ space'[s].kind = "SLICE" <=> space'[s].parent # None
                        /\ space'[s].parent # None =>
                              /\ space'[s].parent \in Stored
                              /\ space'[space'[s].parent].kind = "ROOM"
                              /\ space'[space'[s].parent].parent = None
                              /\ space'[space'[s].parent].event = None
      BY <1>6 DEF TwoLevels
    <2>1. CASE s \in ticked
      <3>1. /\ parent[s] \in Stored /\ space[parent[s]].kind = "ROOM"
            /\ space[parent[s]].parent = None /\ space[parent[s]].event = None
            /\ space'[parent[s]] = space[parent[s]] /\ parent[s] # None
        BY <1>1, <1>2, <1>4, <2>1, IdsAre DEF IsParent
      <3> QED
        BY <1>3, <2>1, <3>1
    <2>2. CASE s \notin ticked
      <3>1. space'[s] = space[s]
        BY <1>4, <2>2 DEF Stored
      <3>2. /\ space[s].kind = "SLICE" <=> space[s].parent # None
            /\ space[s].parent # None =>
                  /\ space[s].parent \in Stored
                  /\ space[space[s].parent].kind = "ROOM"
                  /\ space[space[s].parent].parent = None
                  /\ space[space[s].parent].event = None
        BY DEF VInv, SpacesOK, TwoLevels
      <3>3. space[s].parent # None => space'[space[s].parent] = space[space[s].parent]
        BY <1>1, <1>4, <3>2 DEF HasChildren, Stored
      <3> QED
        BY <3>1, <3>2, <3>3
    <2> QED
      BY <2>1, <2>2
  <1>10. SpacesOK'
    BY <1>5, <1>8, <1>9 DEF SpacesOK
  <1>11. \A t \in Stored : /\ space'[t] # None /\ space'[t].event = space[t].event
                           /\ space[t].kind = "SLICE" =>
                                 /\ space'[t].kind = "SLICE"
                                 /\ space'[t].parent = space[t].parent
    <2> SUFFICES ASSUME NEW t \in Stored
                 PROVE  /\ space'[t] # None
                        /\ space[t].kind = "SLICE" =>
                              space'[t].kind = "SLICE" /\ space'[t].parent = space[t].parent
      BY <1>7
    <2>1. CASE t \in ticked
      BY <1>2, <1>3, <2>1, VenueAssumption DEF VInv, SpacesOK, TwoLevels
    <2>2. CASE t \notin ticked
      BY <1>4, <2>2 DEF Stored
    <2> QED
      BY <2>1, <2>2
  <1> QED
    BY <1>1, <1>10, <1>11, SpacesStepKeepsInv

-----------------------------------------------------------------------------
(* One event.                                                              *)

LEMMA CreateKeepsInv ==
    ASSUME VInv, NEW e \in Events, NEW code \in Codes, CreateSpace(e, code)
    PROVE  VInv'
  <1> DEFINE row == [code |-> code, kind |-> "FREEFORM", parent |-> None,
                     event |-> e, active |-> TRUE]
  <1>1. PICK new \in NewIds(1) : space' = [space EXCEPT ![new] = row]
    BY DEF CreateSpace
  <1> DEFINE N == {new}
  <1>2. N \in SUBSET Free /\ new \in Free
    BY NewIdsAreFree
  <1>3. /\ row \in Space /\ row.code = code /\ row.kind = "FREEFORM"
        /\ row.parent = None /\ row.event = e /\ e # None
    BY VenueAssumption DEF Space
  <1>4. \A t \in Stored : space[t].code = code =>
           None \notin {space[t].event, e} /\ space[t].event # e
    BY <1>3 DEF CreateSpace, CodeTaken, SeenAt
  <1> HIDE DEF row
  <1>5. /\ space' \in [Ids -> Space \cup {None}]
        /\ \A i \in Ids \ N : space'[i] = space[i]
        /\ space'[new] = row
    <2>1. space \in [Ids -> Space \cup {None}] /\ new \in Ids
      BY <1>2 DEF VInv, SpacesOK, Free
    <2> QED
      BY <1>1, <1>3, <2>1
  <1>6. \A i \in N : space'[i] = row
    BY <1>5
  <1>7. /\ \A i \in N : space'[i] \in Space
        /\ \A i \in N, t \in Stored : space[t].code = space'[i].code =>
              None \notin {space[t].event, space'[i].event} /\ space[t].event # space'[i].event
        /\ \A i, j \in N : space'[i].code = space'[j].code => i = j
        /\ \A i \in N : space'[i].event # None => space'[i].kind = "FREEFORM"
    BY <1>3, <1>4, <1>6
  <1>8. \A i \in N : space'[i].kind # "SLICE" /\ space'[i].parent = None
    BY <1>3, <1>6
  <1> HIDE DEF N
  <1>9. /\ \A i \in N : space'[i].kind = "SLICE" <=> space'[i].parent # None
        /\ \A i \in N : space'[i].parent # None =>
              /\ space'[i].parent \in N \cup Stored
              /\ space'[space'[i].parent].kind = "ROOM"
              /\ space'[space'[i].parent].parent = None
              /\ space'[space'[i].parent].event = None
    BY <1>8
  <1>10. /\ SpacesOK' /\ Stored' = Stored \cup N
         /\ \A t \in Stored : space'[t] = space[t]
    BY <1>2, <1>5, <1>7, <1>9, NewSpacesAreOK
  <1>11. UNCHANGED <<override, held>>
    BY DEF CreateSpace
  <1> QED
    BY <1>10, <1>11, NewSpacesKeepInv

\* A fold is an id or None.
LEMMA FoldIs ==
    ASSUME VInv, NEW e \in Events, NEW s \in Ids
    PROVE  /\ Fold(e, s) \in Ids \cup {None}
           /\ override[s][e] \in Override \cup {None}
           /\ s \notin Stored => Fold(e, s) = None
  BY DEF VInv, VenueTypeOK, Fold, Override, FreshIds, Free

LEMMA SaveKeepsInv ==
    ASSUME VInv, NEW e \in Events, NEW s \in Stored, NEW code \in Codes,
           NEW departments \in SUBSET Departments, NEW alias \in BOOLEAN,
           NEW available \in BOOLEAN,
           SaveSpace(e, s, code, alias, available, departments)
    PROVE  VInv'
  <1> DEFINE row == [space[s] EXCEPT !.code = code]
             said == IF alias \/ ~available
                     THEN [alias |-> alias, available |-> available, fold |-> Fold(e, s)]
                     ELSE None
  <1>1. s \in Ids /\ space[s] \in Space /\ s \in SeenAt(e)
    BY DEF SaveSpace, LoadedForCycle, VInv, SpacesOK, Stored
  <1>2. /\ row \in Space /\ row.code = code /\ row.kind = space[s].kind
        /\ row.parent = space[s].parent /\ row.event = space[s].event
    BY <1>1 DEF Space
  <1>3. \/ row.code = space[s].code
        \/ \A t \in Stored : space[t].code = row.code =>
              None \notin {space[t].event, row.event} /\ space[t].event # row.event
    BY <1>2 DEF SaveSpace, CodeTaken, SeenAt
  <1>4. /\ space' = [space EXCEPT ![s] = row]
        /\ override' = [override EXCEPT ![s][e] = said]
        /\ held' = [held EXCEPT ![s][e] = departments]
    BY DEF SaveSpace
  <1>5. said = None \/ ( /\ said \in Override /\ said.fold = Fold(e, s)
                         /\ said # [alias |-> FALSE, available |-> TRUE, fold |-> None] )
    <2>1. Fold(e, s) \in Ids \cup {None}
      BY <1>1, FoldIs
    <2> DEFINE full == [alias |-> alias, available |-> available, fold |-> Fold(e, s)]
    <2>2. full \in Override /\ full.fold = Fold(e, s)
      BY <2>1 DEF Override
    <2>3. alias \/ ~available => full # [alias |-> FALSE, available |-> TRUE, fold |-> None]
      <3>1. full.alias = alias /\ full.available = available
        OBVIOUS
      <3> QED
        BY <3>1
    <2>4. said = IF alias \/ ~available THEN full ELSE None
      OBVIOUS
    <2> HIDE DEF said, full
    <2> QED
      BY <2>2, <2>3, <2>4
  <1> HIDE DEF row, said
  <1>6. SpacesOK' /\ Stored' = Stored
        /\ \A t \in Stored : /\ space'[t] # None /\ space'[t].event = space[t].event
                             /\ space'[t].kind = space[t].kind
                             /\ space'[t].parent = space[t].parent
    BY <1>1, <1>2, <1>3, <1>4, RecodedIsOK
  <1>7. /\ override \in [Ids -> [Events -> Override \cup {None}]]
        /\ held \in [Ids -> [Events -> SUBSET Departments]]
    BY DEF VInv, VenueTypeOK
  <1>8. \A t \in Ids, d \in Events :
           /\ override'[t][d] = IF t = s /\ d = e THEN said ELSE override[t][d]
           /\ held'[t][d] = IF t = s /\ d = e THEN departments ELSE held[t][d]
    BY <1>1, <1>4, <1>7
  <1>9. /\ override' \in [Ids -> [Events -> Override \cup {None}]]
        /\ held' \in [Ids -> [Events -> SUBSET Departments]]
    BY <1>1, <1>4, <1>5, <1>7
  <1>10. VenueTypeOK'
    <2> DEFINE empty == [alias |-> FALSE, available |-> TRUE, fold |-> None]
    <2>1. \A t \in Ids, d \in Events : override'[t][d] # None => override'[t][d] # empty
      <3>1. \A t \in Ids, d \in Events : override[t][d] # None => override[t][d] # empty
        BY DEF VInv, VenueTypeOK
      <3>2. said # None => said # empty
        BY <1>5
      <3> HIDE DEF empty
      <3> QED
        BY <1>8, <3>1, <3>2
    <2> QED
      BY <1>6, <1>9, <2>1 DEF VenueTypeOK, SpacesOK
  <1>11. FreshIds'
    BY <1>1, <1>6, <1>8 DEF FreshIds, VInv, Free, SeenAt
  <1>12. HeldWhereSeen'
    <2>1. \A d \in Events : SeenAt(d)' = SeenAt(d)
      BY <1>6 DEF SeenAt
    <2> QED
      BY <1>1, <1>8, <2>1 DEF HeldWhereSeen, VInv
  <1>13. \A t \in Ids, d \in Events : Fold(d, t)' = None \/ Fold(d, t)' = Fold(d, t)
    BY <1>5, <1>8 DEF Fold
  <1>14. FoldsStayInRoom'
    <2> SUFFICES ASSUME NEW d \in Events, NEW t \in Stored, Fold(d, t)' # None
                 PROVE  /\ Fold(d, t)' \in Stored /\ Fold(d, t)' # t
                        /\ space'[t].kind = "SLICE" /\ space'[Fold(d, t)'].kind = "SLICE"
                        /\ space'[t].parent = space'[Fold(d, t)'].parent
      BY <1>6 DEF FoldsStayInRoom
    <2>1. Fold(d, t)' = Fold(d, t)
      BY <1>13 DEF Stored
    <2>2. /\ Fold(d, t) \in Stored /\ Fold(d, t) # t
          /\ space[t].kind = "SLICE" /\ space[Fold(d, t)].kind = "SLICE"
          /\ space[t].parent = space[Fold(d, t)].parent
      BY <2>1 DEF VInv, FoldsStayInRoom
    <2> QED
      BY <1>6, <2>1, <2>2
  <1> QED
    BY <1>6, <1>10, <1>11, <1>12, <1>14 DEF VInv

LEMMA RegroupedIs ==
    ASSUME NEW row \in Override \cup {None}, NEW target \in Ids \cup {None},
           row # None => row # [alias |-> FALSE, available |-> TRUE, fold |-> None]
    PROVE  \/ Regrouped(row, target) = None
           \/ /\ Regrouped(row, target) \in Override /\ Regrouped(row, target).fold = target
              /\ Regrouped(row, target) # [alias |-> FALSE, available |-> TRUE, fold |-> None]
  <1> DEFINE empty == [alias |-> FALSE, available |-> TRUE, fold |-> None]
  <1>1. \A r \in Override : /\ r.alias \in BOOLEAN /\ r.available \in BOOLEAN
                            /\ [r EXCEPT !.fold = target] \in Override
                            /\ [r EXCEPT !.fold = target].fold = target
                            /\ [r EXCEPT !.fold = target].alias = r.alias
                            /\ [r EXCEPT !.fold = target].available = r.available
    BY DEF Override
  <1>2. empty.alias = FALSE /\ empty.available = TRUE /\ empty.fold = None
    OBVIOUS
  <1>3. CASE target # None /\ row = None
    <2> DEFINE r == [alias |-> FALSE, available |-> TRUE, fold |-> target]
    <2>1. Regrouped(row, target) = r
      BY <1>3 DEF Regrouped
    <2>2. r \in Override /\ r.fold = target
      BY DEF Override
    <2> HIDE DEF r, empty
    <2> QED
      BY <1>2, <1>3, <2>1, <2>2 DEF empty
  <1>4. CASE target # None /\ row # None
    <2>1. Regrouped(row, target) = [row EXCEPT !.fold = target]
      BY <1>4 DEF Regrouped
    <2> HIDE DEF empty
    <2> QED
      BY <1>1, <1>2, <1>4, <2>1 DEF empty
  <1>5. CASE target = None /\ row = None
    BY <1>5 DEF Regrouped
  <1>6. CASE target = None /\ row # None
    <2>1. Regrouped(row, target) =
             IF row.alias \/ ~row.available THEN [row EXCEPT !.fold = target] ELSE None
      BY <1>6 DEF Regrouped
    <2>2. CASE row.alias \/ ~row.available
      <3>1. Regrouped(row, target) = [row EXCEPT !.fold = target]
        BY <2>1, <2>2
      <3>2. [row EXCEPT !.fold = target].alias \/ ~[row EXCEPT !.fold = target].available
        BY <1>1, <1>6, <2>2
      <3> HIDE DEF empty
      <3>3. [row EXCEPT !.fold = target] # empty
        BY <1>2, <3>2
      <3> QED
        BY <1>1, <1>6, <3>1, <3>3 DEF empty
    <2>3. CASE ~(row.alias \/ ~row.available)
      BY <2>1, <2>3
    <2> QED
      BY <2>2, <2>3
  <1> QED
    BY <1>3, <1>4, <1>5, <1>6

LEMMA CombineKeepsInv ==
    ASSUME VInv, NEW e \in Events, NEW room \in Ids,
           NEW into \in [Slices(room) -> FoldTargets(room) \cup {None}],
           CombineRoom(e, room, into)
    PROVE  VInv'
  <1>1. /\ override' = [s \in Ids |->
              IF s \in Slices(room)
              THEN [override[s] EXCEPT ![e] = Regrouped(override[s][e], into[s])]
              ELSE override[s]]
        /\ UNCHANGED <<space, held>>
        /\ \A s \in Slices(room) : into[s] # None =>
              /\ into[s] \in Slices(room)
              /\ into[into[s]] = None
    BY DEF CombineRoom, FoldTargets
  <1>2. \A s \in Slices(room) : /\ s \in Stored /\ space[s].kind = "SLICE" /\ s \in Ids
                                /\ space[s].parent = room
    BY DEF Slices, Stored
  <1>3. override \in [Ids -> [Events -> Override \cup {None}]]
    BY DEF VInv, VenueTypeOK
  <1>4. \A s \in Slices(room) :
           \/ Regrouped(override[s][e], into[s]) = None
           \/ /\ Regrouped(override[s][e], into[s]) \in Override
              /\ Regrouped(override[s][e], into[s]).fold = into[s]
              /\ Regrouped(override[s][e], into[s]) #
                    [alias |-> FALSE, available |-> TRUE, fold |-> None]
    <2> SUFFICES ASSUME NEW s \in Slices(room)
                 PROVE  \/ Regrouped(override[s][e], into[s]) = None
                        \/ /\ Regrouped(override[s][e], into[s]) \in Override
                           /\ Regrouped(override[s][e], into[s]).fold = into[s]
                           /\ Regrouped(override[s][e], into[s]) #
                                 [alias |-> FALSE, available |-> TRUE, fold |-> None]
      OBVIOUS
    <2>1. override[s][e] \in Override \cup {None} /\ into[s] \in Ids \cup {None}
      BY <1>1, <1>2, <1>3
    <2>2. override[s][e] # None =>
             override[s][e] # [alias |-> FALSE, available |-> TRUE, fold |-> None]
      BY <1>2 DEF VInv, VenueTypeOK
    <2> QED
      BY <2>1, <2>2, RegroupedIs
  <1>5. \A t \in Ids, d \in Events :
           override'[t][d] = IF t \in Slices(room) /\ d = e
                             THEN Regrouped(override[t][e], into[t]) ELSE override[t][d]
    BY <1>1, <1>3
  <1>6. override' \in [Ids -> [Events -> Override \cup {None}]]
    <2>1. \A s \in Ids : override'[s] \in [Events -> Override \cup {None}]
      BY <1>1, <1>3, <1>4
    <2> QED
      BY <1>1, <2>1
  <1>7. VenueTypeOK'
    <2> DEFINE empty == [alias |-> FALSE, available |-> TRUE, fold |-> None]
    <2>1. \A t \in Ids, d \in Events : override'[t][d] # None => override'[t][d] # empty
      <3>1. \A t \in Ids, d \in Events : override[t][d] # None => override[t][d] # empty
        BY DEF VInv, VenueTypeOK
      <3>2. \A s \in Slices(room) : Regrouped(override[s][e], into[s]) # None =>
                                       Regrouped(override[s][e], into[s]) # empty
        BY <1>4
      <3> HIDE DEF empty
      <3> QED
        BY <1>5, <3>1, <3>2
    <2> QED
      BY <1>1, <1>6, <2>1 DEF VInv, VenueTypeOK
  <1>8. Stored' = Stored /\ Free' = Free
    BY <1>1 DEF Stored, Free
  <1>9. FreshIds'
    BY <1>1, <1>2, <1>5, <1>8 DEF VInv, FreshIds, Free
  <1>10. \A d \in Events, t \in Stored : Fold(d, t)' # None =>
            \/ Fold(d, t)' = Fold(d, t)
            \/ t \in Slices(room) /\ Fold(d, t)' = into[t]
    BY <1>4, <1>5 DEF Fold, Stored
  <1>11. FoldsStayInRoom'
    <2> SUFFICES ASSUME NEW d \in Events, NEW t \in Stored, Fold(d, t)' # None
                 PROVE  /\ Fold(d, t)' \in Stored /\ Fold(d, t)' # t
                        /\ space[t].kind = "SLICE" /\ space[Fold(d, t)'].kind = "SLICE"
                        /\ space[t].parent = space[Fold(d, t)'].parent
      BY <1>1, <1>8 DEF FoldsStayInRoom
    <2>1. CASE Fold(d, t)' = Fold(d, t)
      <3>1. /\ Fold(d, t) \in Stored /\ Fold(d, t) # t
            /\ space[t].kind = "SLICE" /\ space[Fold(d, t)].kind = "SLICE"
            /\ space[t].parent = space[Fold(d, t)].parent
        BY <2>1 DEF VInv, FoldsStayInRoom
      <3> QED
        BY <2>1, <3>1
    <2>2. CASE t \in Slices(room) /\ Fold(d, t)' = into[t]
      <3>1. into[t] \in Slices(room) /\ into[into[t]] = None /\ into[t] # None
        BY <1>1, <2>2
      <3>2. into[t] # t
        BY <3>1
      <3> QED
        BY <1>2, <2>2, <3>1, <3>2
    <2> QED
      BY <1>10, <2>1, <2>2
  <1>12. SpacesOK' /\ HeldWhereSeen'
    <2>1. SpacesOK'
      BY <1>1, <1>8 DEF VInv, SpacesOK, UniqueCodes, TwoLevels, PopUps
    <2>2. \A d \in Events : SeenAt(d)' = SeenAt(d)
      BY <1>1, <1>8 DEF SeenAt
    <2> QED
      BY <1>1, <2>1, <2>2 DEF VInv, HeldWhereSeen
  <1> QED
    BY <1>7, <1>9, <1>11, <1>12 DEF VInv

\* Every pop-up of a copied layout gets an id nobody has.
LEMMA CopiesGetFreeIds ==
    ASSUME NEW copied \in SUBSET Ids, Cardinality(copied) <= Cardinality(Free),
           NEW s \in copied
    PROVE  \E id \in Ids : /\ id \in NewIds(Cardinality(copied))
                           /\ Cardinality({t \in Free : t < id})
                                  = Cardinality({t \in copied : t < s})
  <1> DEFINE before == {t \in copied : t < s}
             k == Cardinality(before)
  <1>1. IsFiniteSet(copied) /\ IsFiniteSet(Free)
    BY IdsAre, FS_Subset DEF Free
  <1>2. Cardinality(copied) \in Nat /\ Cardinality(Free) \in Nat
    BY <1>1, FS_CardinalityType
  <1>3. IsFiniteSet(copied \ {s}) /\ Cardinality(copied \ {s}) = Cardinality(copied) - 1
    BY <1>1, FS_RemoveElement
  <1>4. before \in SUBSET (copied \ {s})
    BY IdsAre
  <1>5. k \in Nat /\ k <= Cardinality(copied \ {s})
    BY <1>3, <1>4, FS_Subset, FS_CardinalityType
  <1>6. k < Cardinality(copied) /\ k < Cardinality(Free)
    BY <1>2, <1>3, <1>5
  <1>7. Free \in SUBSET Ids
    BY DEF Free
  <1> HIDE DEF k
  <1>8. PICK id \in Free : Cardinality({t \in Free : t < id}) = k
    BY <1>5, <1>6, <1>7, RankIsTaken
  <1>9. id \in NewIds(Cardinality(copied))
    BY <1>6, <1>8 DEF NewIds
  <1> QED
    BY <1>7, <1>8, <1>9 DEF k

LEMMA CopyKeepsInv ==
    ASSUME VInv, NEW from \in Events, NEW to \in Events, CopyLayout(from, to)
    PROVE  VInv'
  <1> DEFINE copied == {s \in Stored : /\ space[s].event = from /\ space[s].active
                                       /\ ~CodeTaken(space[s].code, to)}
             new(s) == CHOOSE id \in Ids :
                           /\ id \in NewIds(Cardinality(copied))
                           /\ Cardinality({t \in Free : t < id})
                                  = Cardinality({t \in copied : t < s})
             source(id) ==
                 {s \in Stored : /\ Fold(from, s) # None \/ ( override[s][from] # None
                                                              /\ override[s][from].alias )
                                 /\ id = IF space[s].event = None THEN s
                                         ELSE IF s \in copied THEN new(s) ELSE None}
             N == {new(s) : s \in copied}
             w(id) == CHOOSE s \in copied : new(s) = id
             o(id) == CHOOSE s \in source(id) : TRUE
  <1>1. /\ Cardinality(copied) <= Cardinality(Free)
        /\ space' = [id \in Ids |->
              IF \E s \in copied : new(s) = id THEN [space[w(id)] EXCEPT !.event = to]
              ELSE space[id]]
        /\ override' = [id \in Ids |->
              IF override[id][to] = None /\ source(id) # {}
              THEN [override[id] EXCEPT ![to] = [override[o(id)][from] EXCEPT !.available = TRUE]]
              ELSE override[id]]
        /\ held' = held
    BY DEF CopyLayout
  <1>2. copied \in SUBSET Ids /\ copied \subseteq Stored
    BY DEF Stored
  <1>3. \A s \in copied : new(s) \in Free
    <2> SUFFICES ASSUME NEW s \in copied PROVE new(s) \in Free
      OBVIOUS
    <2> HIDE DEF copied
    <2>1. \E id \in Ids : /\ id \in NewIds(Cardinality(copied))
                          /\ Cardinality({t \in Free : t < id})
                                 = Cardinality({t \in copied : t < s})
      BY <1>1, <1>2, CopiesGetFreeIds
    <2>2. new(s) \in NewIds(Cardinality(copied))
      BY <2>1
    <2> HIDE DEF new
    <2> QED
      BY <2>2, NewIdsAreFree
  <1>4. \A s \in copied : /\ space[s] \in Space /\ space[s].event = from
                          /\ space[s].kind = "FREEFORM" /\ space[s].parent = None
    <2>1. from # None
      BY VenueAssumption
    <2> QED
      BY <2>1 DEF VInv, SpacesOK, PopUps, TwoLevels, Stored
  <1>5. \A s \in copied, t \in Stored : space[t].code = space[s].code =>
           space[t].event # None /\ space[t].event # to
    BY DEF CodeTaken, SeenAt
  <1>6. \A id, s \in Ids : s \in source(id) =>
           /\ s \in Stored /\ override[s][from] \in Override
           /\ override[s][from].fold # None \/ override[s][from].alias
           /\ \/ space[s].event = None /\ id = s
              \/ s \in copied /\ id = new(s)
    <2> SUFFICES ASSUME NEW id \in Ids, NEW s \in source(id)
                 PROVE  /\ s \in Stored /\ override[s][from] \in Override
                        /\ override[s][from].fold # None \/ override[s][from].alias
                        /\ \/ space[s].event = None /\ id = s
                           \/ s \in copied /\ id = new(s)
      OBVIOUS
    <2>1. /\ s \in Stored
          /\ Fold(from, s) # None \/ (override[s][from] # None /\ override[s][from].alias)
          /\ id = IF space[s].event = None THEN s ELSE IF s \in copied THEN new(s) ELSE None
      OBVIOUS
    <2> HIDE DEF copied, new, source
    <2>2. override[s][from] # None
      BY <2>1 DEF Fold
    <2>3. override[s][from] \in Override
      BY <2>1, <2>2 DEF VInv, VenueTypeOK, Stored
    <2>4. override[s][from].fold # None \/ override[s][from].alias
      BY <2>1, <2>2 DEF Fold
    <2> QED
      BY <2>1, <2>3, <2>4, IdsAre
  <1>7. \A id \in Ids : source(id) # {} => o(id) \in source(id) /\ o(id) \in Ids
    BY DEF Stored
  <1>8. \A id \in N : w(id) \in copied /\ new(w(id)) = id
    <2> SUFFICES ASSUME NEW id \in N PROVE w(id) \in copied /\ new(w(id)) = id
      OBVIOUS
    <2>1. \E s \in copied : new(s) = id
      OBVIOUS
    <2> HIDE DEF copied, new, N
    <2> QED
      BY <2>1
  <1>9. \A id \in Ids : (\E s \in copied : new(s) = id) <=> id \in N
    <2> HIDE DEF copied, new
    <2> QED
      OBVIOUS
  <1> HIDE DEF copied, new, source, w, o
  <1>10. N \in SUBSET Free
    BY <1>3
  <1> HIDE DEF N
  <1>11. \A id \in N : /\ space'[id] \in Space /\ space'[id].event = to
                       /\ space'[id].code = space[w(id)].code
                       /\ space'[id].kind = "FREEFORM" /\ space'[id].parent = None
    <2> SUFFICES ASSUME NEW id \in N
                 PROVE  /\ space'[id] \in Space /\ space'[id].event = to
                        /\ space'[id].code = space[w(id)].code
                        /\ space'[id].kind = "FREEFORM" /\ space'[id].parent = None
      OBVIOUS
    <2>1. space'[id] = [space[w(id)] EXCEPT !.event = to]
      BY <1>1, <1>9, <1>10 DEF Free
    <2>2. space[w(id)] \in Space /\ space[w(id)].kind = "FREEFORM" /\ space[w(id)].parent = None
      BY <1>4, <1>8
    <2> QED
      BY <2>1, <2>2 DEF Space
  <1>12. \A id \in Ids \ N : space'[id] = space[id]
    BY <1>1, <1>9
  <1>13. space' \in [Ids -> Space \cup {None}]
    <2>1. \A id \in Ids : space'[id] \in Space \cup {None}
      BY <1>11, <1>12 DEF VInv, SpacesOK
    <2>2. DOMAIN space' = Ids /\ space' = [id \in Ids |-> space'[id]]
      BY <1>1
    <2> QED
      BY <2>1, <2>2
  <1>14. to # None
    BY VenueAssumption
  <1>15. \A i \in N, t \in Stored : space[t].code = space'[i].code =>
            None \notin {space[t].event, space'[i].event} /\ space[t].event # space'[i].event
    BY <1>5, <1>8, <1>11, <1>14
  <1>16. \A i, j \in N : space'[i].code = space'[j].code => i = j
    <2> SUFFICES ASSUME NEW i \in N, NEW j \in N, space'[i].code = space'[j].code
                 PROVE  i = j
      OBVIOUS
    <2>1. w(i) \in Stored /\ w(j) \in Stored /\ space[w(i)].event = space[w(j)].event
      BY <1>2, <1>4, <1>8
    <2>2. w(i) = w(j)
      BY <1>11, <2>1 DEF VInv, SpacesOK, UniqueCodes
    <2> QED
      BY <1>8, <2>2
  <1>17. /\ \A i \in N : space'[i] \in Space
         /\ \A i \in N : space'[i].kind = "SLICE" <=> space'[i].parent # None
         /\ \A i \in N : space'[i].parent # None =>
               /\ space'[i].parent \in N \cup Stored
               /\ space'[space'[i].parent].kind = "ROOM"
               /\ space'[space'[i].parent].parent = None
               /\ space'[space'[i].parent].event = None
         /\ \A i \in N : space'[i].event # None => space'[i].kind = "FREEFORM"
    BY <1>11
  <1>18. /\ SpacesOK' /\ Stored' = Stored \cup N
         /\ \A t \in Stored : space'[t] = space[t]
    BY <1>10, <1>12, <1>13, <1>15, <1>16, <1>17, NewSpacesAreOK
  <1>19. override \in [Ids -> [Events -> Override \cup {None}]]
    BY DEF VInv, VenueTypeOK
  <1>20. \A id \in Ids : source(id) # {} =>
            /\ [override[o(id)][from] EXCEPT !.available = TRUE] \in Override
            /\ [override[o(id)][from] EXCEPT !.available = TRUE].fold = Fold(from, o(id))
            /\ [override[o(id)][from] EXCEPT !.available = TRUE] #
                  [alias |-> FALSE, available |-> TRUE, fold |-> None]
    <2> SUFFICES ASSUME NEW id \in Ids, source(id) # {}, NEW row, row = override[o(id)][from]
                 PROVE  /\ [row EXCEPT !.available = TRUE] \in Override
                        /\ [row EXCEPT !.available = TRUE].fold = Fold(from, o(id))
                        /\ [row EXCEPT !.available = TRUE] #
                              [alias |-> FALSE, available |-> TRUE, fold |-> None]
      OBVIOUS
    <2>1. row \in Override /\ (row.fold # None \/ row.alias)
      BY <1>6, <1>7
    <2>2. row.fold = Fold(from, o(id))
      BY <2>1, VenueAssumption DEF Fold
    <2>3. /\ [row EXCEPT !.available = TRUE] \in Override
          /\ [row EXCEPT !.available = TRUE].fold = row.fold
          /\ [row EXCEPT !.available = TRUE].alias = row.alias
      BY <2>1 DEF Override
    <2> DEFINE empty == [alias |-> FALSE, available |-> TRUE, fold |-> None]
    <2>4. empty.alias = FALSE /\ empty.fold = None
      OBVIOUS
    <2> HIDE DEF empty
    <2>5. [row EXCEPT !.available = TRUE] # empty
      BY <2>1, <2>3, <2>4
    <2> QED
      BY <2>2, <2>3, <2>5 DEF empty
  <1>21. \A id \in Ids, d \in Events :
            \/ override'[id][d] = override[id][d]
            \/ /\ d = to /\ source(id) # {}
               /\ override'[id][d] = [override[o(id)][from] EXCEPT !.available = TRUE]
    BY <1>1, <1>19
  <1>22. override' \in [Ids -> [Events -> Override \cup {None}]]
    <2>1. \A id \in Ids : override'[id] \in [Events -> Override \cup {None}]
      BY <1>1, <1>19, <1>20
    <2>2. override' = [id \in Ids |-> override'[id]]
      BY <1>1
    <2> QED
      BY <2>1, <2>2
  <1>23. VenueTypeOK'
    <2> DEFINE empty == [alias |-> FALSE, available |-> TRUE, fold |-> None]
    <2>1. \A t \in Ids, d \in Events : override'[t][d] # None => override'[t][d] # empty
      <3>1. \A t \in Ids, d \in Events : override[t][d] # None => override[t][d] # empty
        BY DEF VInv, VenueTypeOK
      <3>2. \A id \in Ids : source(id) # {} =>
               [override[o(id)][from] EXCEPT !.available = TRUE] # empty
        BY <1>20
      <3> HIDE DEF empty
      <3> QED
        BY <1>21, <3>1, <3>2
    <2> QED
      BY <1>1, <1>13, <1>22, <2>1 DEF VInv, VenueTypeOK
  <1>24. FreshIds'
    <2> SUFFICES ASSUME NEW s \in Ids, s \notin Stored, s \notin N, NEW e \in Events
                 PROVE  override'[s][e] = None /\ held[s][e] = {}
      BY <1>1, <1>18 DEF FreshIds, Free
    <2>1. override[s][e] = None /\ held[s][e] = {}
      BY DEF VInv, FreshIds, Free
    <2>2. source(s) = {}
      <3> SUFFICES ASSUME source(s) # {} PROVE FALSE
        OBVIOUS
      <3>1. o(s) \in Stored /\ (s = o(s) \/ (o(s) \in copied /\ s = new(o(s))))
        BY <1>6, <1>7
      <3> QED
        BY <3>1 DEF N
    <2> QED
      BY <1>21, <2>1, <2>2
  <1>25. HeldWhereSeen'
    <2> SUFFICES ASSUME NEW s \in Ids, NEW e \in Events, held[s][e] # {}
                 PROVE  s \in SeenAt(e)'
      BY <1>1 DEF HeldWhereSeen
    <2>1. s \in Stored /\ space[s].event \in {None, e}
      BY DEF VInv, HeldWhereSeen, SeenAt
    <2> QED
      BY <1>18, <2>1 DEF SeenAt
  <1>26. FoldsStayInRoom'
    <2> SUFFICES ASSUME NEW d \in Events, NEW t \in Stored \cup N, Fold(d, t)' # None
                 PROVE  \E u \in Stored, v \in Stored :
                           /\ u = t /\ v = Fold(d, t)' /\ v # u
                           /\ space[u].kind = "SLICE" /\ space[v].kind = "SLICE"
                           /\ space[u].parent = space[v].parent
      BY <1>18 DEF FoldsStayInRoom
    <2>1. t \in Ids
      BY <1>10 DEF Stored, Free
    <2>2. CASE override'[t][d] = override[t][d]
      <3>1. Fold(d, t)' = Fold(d, t)
        BY <2>2 DEF Fold
      <3>2. t \in Stored
        BY <2>1, <3>1, FoldIs
      <3> QED
        BY <3>1, <3>2 DEF VInv, FoldsStayInRoom
    <2>3. CASE /\ d = to /\ source(t) # {}
               /\ override'[t][d] = [override[o(t)][from] EXCEPT !.available = TRUE]
      <3>1. /\ override'[t][d] \in Override /\ override'[t][d].fold = Fold(from, o(t))
        BY <1>20, <2>1, <2>3
      <3>2. Fold(d, t)' = Fold(from, o(t))
        BY <3>1, VenueAssumption DEF Fold
      <3>3. /\ o(t) \in Stored
            /\ \/ t = o(t)
               \/ o(t) \in copied /\ t = new(o(t))
        BY <1>6, <1>7, <2>1, <2>3
      <3>4. /\ Fold(from, o(t)) \in Stored /\ Fold(from, o(t)) # o(t)
            /\ space[o(t)].kind = "SLICE" /\ space[Fold(from, o(t))].kind = "SLICE"
            /\ space[o(t)].parent = space[Fold(from, o(t))].parent
        BY <3>2, <3>3 DEF VInv, FoldsStayInRoom
      <3>5. t = o(t)
        BY <1>4, <3>3, <3>4
      <3> QED
        BY <3>2, <3>3, <3>4, <3>5
    <2> QED
      BY <1>21, <2>1, <2>2, <2>3
  <1> QED
    BY <1>18, <1>23, <1>24, <1>25, <1>26 DEF VInv

-----------------------------------------------------------------------------
(* The theorems.                                                           *)

LEMMA InitVInv == VenueInit => VInv
  <1> SUFFICES ASSUME VenueInit PROVE VInv
    OBVIOUS
  <1>1. /\ Stored = {} /\ \A s \in Ids : space[s] = None
        /\ \A s \in Ids, e \in Events : override[s][e] = None /\ held[s][e] = {}
    BY DEF VenueInit, Stored
  <1>2. VenueTypeOK
    BY <1>1 DEF VenueInit, VenueTypeOK
  <1>3. SpacesOK
    BY <1>1 DEF VenueInit, SpacesOK, UniqueCodes, TwoLevels, PopUps
  <1> QED
    BY <1>1, <1>2, <1>3 DEF VInv, FreshIds, HeldWhereSeen, FoldsStayInRoom, Free

LEMMA NextVInv == VInv /\ [VenueNext]_venueVars => VInv'
  <1> SUFFICES ASSUME VInv, [VenueNext]_venueVars PROVE VInv'
    OBVIOUS
  <1>1. CASE \E c \in Codes, p \in Ids \cup {None} : CatalogAddSpace(c, p)
    BY <1>1, AddKeepsInv
  <1>2. CASE \E code \in [NewIds(2) -> Codes] :
             \E parentCode \in [NewIds(2) -> Codes \cup {None}] :
                 CatalogPasteConfirm(code, parentCode)
    <2>1. NewIds(2) \in SUBSET Free
      BY NewIdsAreFree
    <2> QED
      BY <1>2, <2>1, PasteKeepsInv
  <1>3. CASE \E s \in Ids, c \in Codes : CatalogSaveSpace(s, c)
    BY <1>3, RecodeKeepsInv
  <1>4. CASE \E s \in Ids, active \in BOOLEAN : SetSpaceActive(s, active)
    BY <1>4, SetActiveKeepsInv
  <1>5. CASE \E ticked \in (SUBSET Flagged) \ {{}} :
             \E parent \in [ticked -> {s \in Ids : IsParent(s)}] : CatalogRepairSlices(parent)
    BY <1>5, RepairKeepsInv
  <1>6. CASE \E e \in Events, c \in Codes : CreateSpace(e, c)
    BY <1>6, CreateKeepsInv
  <1>7. CASE \E e \in Events : \E s \in Stored : \E c \in Codes :
             \E departments \in SUBSET Departments, alias, available \in BOOLEAN :
                 SaveSpace(e, s, c, alias, available, departments)
    BY <1>7, SaveKeepsInv
  <1>8. CASE \E e \in Events, room \in Ids :
             \E into \in [Slices(room) -> FoldTargets(room) \cup {None}] :
                 CombineRoom(e, room, into)
    BY <1>8, CombineKeepsInv
  <1>9. CASE \E from, to \in Events : CopyLayout(from, to)
    BY <1>9, CopyKeepsInv
  <1>10. CASE UNCHANGED venueVars
    <2>1. UNCHANGED <<space, override, held>>
      BY <1>10 DEF venueVars
    <2>2. Stored' = Stored
      BY <2>1 DEF Stored
    <2>3. SpacesOK'
      BY <2>1, <2>2 DEF VInv, SpacesOK, UniqueCodes, TwoLevels, PopUps
    <2>4. \A t \in Stored : space'[t] = space[t] /\ space'[t] # None
      BY <2>1 DEF Stored
    <2> QED
      BY <2>1, <2>3, <2>4, SpacesStepKeepsInv
  <1> QED
    BY <1>1, <1>2, <1>3, <1>4, <1>5, <1>6, <1>7, <1>8, <1>9, <1>10 DEF VenueNext

\* The inductive invariant of a venue: codes are unique among the spaces one event
\* may see, the tree has two levels and no pop-up takes part in it, folds stay
\* in their room, and an id no space has says nothing of any event.
THEOREM VenueInvariant == VenueSpec => []VInv
  BY InitVInv, NextVInv, PTL DEF VenueSpec

\* The types, and the override table is sparse: every row of it says something.
THEOREM VenueTypeCorrect == VenueSpec => []VenueTypeOK
  <1>1. VInv => VenueTypeOK
    BY DEF VInv
  <1> QED
    BY <1>1, VenueInvariant, PTL

\* No event sees two spaces of one code, though no index spans the permanent
\* rows and its own.
THEOREM VenueCodesUnique == VenueSpec => []CodesUniqueWhereSeen
  <1>1. VInv => CodesUniqueWhereSeen
    BY DEF VInv, SpacesOK, UniqueCodes, CodesUniqueWhereSeen, SeenAt
  <1> QED
    BY <1>1, VenueInvariant, PTL

\* A slice hangs from a permanent room, and nothing hangs from a slice.
THEOREM VenueTwoLevels == VenueSpec => []TwoLevels
  <1>1. VInv => TwoLevels
    BY DEF VInv, SpacesOK
  <1> QED
    BY <1>1, VenueInvariant, PTL

\* "Same room only", whatever was repaired, archived or copied since.
THEOREM VenueFoldsStayInRoom == VenueSpec => []FoldsStayInRoom
  <1>1. VInv => FoldsStayInRoom
    BY DEF VInv
  <1> QED
    BY <1>1, VenueInvariant, PTL

\* build_space_rows and spaces_for_department agree on what an event's rows
\* are, what each covers, and what is accounted for.
THEOREM VenuePagesAgree == VenueSpec => []PagesAgree
  <1>1. ASSUME VInv PROVE PagesAgree
    <2> SUFFICES ASSUME NEW e \in Events, NEW d \in Departments, NEW s \in HeldBy(d, e)
                 PROVE  /\ s \in Listed(e)
                        /\ Covers(e, s) = Children(e, s) \cup Group(e, s)
                        /\ \A shown \in {s} \cup Covers(e, s) : AccountedFor(e, shown)
      BY DEF PagesAgree
    <2>1. s \in Stored /\ s \in Ids /\ space[s].active /\ held[s][e] # {} /\ s # None
      BY IdsAre DEF HeldBy, Stored
    <2>2. s \in Listed(e)
      BY <1>1, <2>1 DEF VInv, HeldWhereSeen, Listed
    <2>3. \A c \in Stored : space[c].parent = s \/ Fold(e, c) = s => c \in SeenAt(e)
      <3> SUFFICES ASSUME NEW c \in Stored, space[c].parent = s \/ Fold(e, c) = s
                   PROVE  c \in SeenAt(e)
        OBVIOUS
      <3>1. space[c].kind = "SLICE"
        BY <1>1, <2>1 DEF VInv, SpacesOK, TwoLevels, FoldsStayInRoom
      <3>2. space[c].event = None
        BY <1>1, <3>1 DEF VInv, SpacesOK, PopUps
      <3> QED
        BY <3>2 DEF SeenAt
    <2>4. Covers(e, s) = Children(e, s) \cup Group(e, s)
      <3>1. \A c \in Covers(e, s) : c \in Children(e, s) \cup Group(e, s)
        BY <2>3 DEF Covers, Children, Group, Listed
      <3>2. \A c \in Children(e, s) \cup Group(e, s) : c \in Covers(e, s)
        BY DEF Covers, Children, Group, Listed, SeenAt
      <3> QED
        BY <3>1, <3>2
    <2>5. \A shown \in {s} \cup Covers(e, s) : AccountedFor(e, shown)
      BY <2>1 DEF Covers, AccountedFor
    <2> QED
      BY <2>2, <2>4, <2>5
  <1> QED
    BY <1>1, VenueInvariant, PTL

-----------------------------------------------------------------------------
(***************************************************************************)
(* For any number of lines and items: what the group, the department and   *)
(* the admins make of a supply order stays consistent, whatever a slow     *)
(* request has loaded and whatever page the requester has in front.        *)
(*                                                                         *)
(* The invariant has a part about every line, and a part about what the    *)
(* slow request may still rely on: the rows that were not deleted since    *)
(* hold the items it saw, and an order it saw as a draft that was          *)
(* submitted since has reviews, which the unique key then protects.        *)
(***************************************************************************)

\* One line: what was typed is for this item, a question is open exactly on a
\* review that asks one, and an override has its note.
LineOK(line) ==
    /\ line.said = line.item
    /\ line.needsAction => line.review \in Kickbacks
    /\ line.review = "APPROVED" /\ line.approved = "none" => line.noted
    /\ line.review = "REJECTED" /\ line.approved = "some" => line.noted

\* One line, as far as the order is: admins decide last, and then no review of
\* the group is open.
PhaseOK(line) ==
    /\ line.review # NULL => status # "DRAFT"
    /\ line.admin # NULL \/ line.approved # NULL => status = "FINALIZED"
    /\ status = "FINALIZED" => /\ line.review \notin Kickbacks
                               /\ line.review = "PENDING" => line.admin # NULL

RowsOK == \A n \in Rows(lines) : LineOK(lines[n]) /\ PhaseOK(lines[n])

\* What a request may rely on of what it loaded.
Current(r) ==
    /\ \A n \in Rows(r.lines) \ r.gone :
          n \in Rows(lines) /\ lines[n].item = r.lines[n].item
    /\ r.status # "DRAFT" => Rows(lines) \subseteq Rows(r.lines) /\ status # "DRAFT"
    /\ r.status # "FINALIZED" => \A n \in Rows(r.lines) : r.lines[n].approved = NULL
    /\ r.status = "DRAFT" /\ status # "DRAFT" =>
          /\ \E n \in Rows(lines) : lines[n].review # NULL
          /\ \A n \in Rows(r.lines) \ r.gone : lines[n].review # NULL

SlowOK ==
    slow # NULL =>
        /\ Current(slow)
        /\ slow.op = "submit_after_save" => slow.status = "DRAFT"

IInv == TypeOK /\ RowsOK /\ SlowOK

\* What a request leaves for the others: the rows that stay are about the same
\* items and keep their reviews; rows come and go in a draft only, and a
\* submission puts all of them to the group.
Leaves(r) ==
    /\ status # "DRAFT" => status' # "DRAFT"
    /\ \A n \in Rows(lines) \cap Rows(lines') :
          /\ lines'[n].item = lines[n].item
          /\ lines[n].review # NULL => lines'[n].review # NULL
    /\ r.status # "DRAFT" => Rows(lines') = Rows(lines)
    /\ status = "DRAFT" /\ status' # "DRAFT" =>
          /\ Rows(lines') = Rows(lines) /\ Rows(lines) # {}
          /\ \A n \in Rows(r.lines) \ r.gone : lines'[n].review # NULL

\* A step that a handler may take.
Fine(r) ==
    /\ status' \in {"DRAFT", "SUBMITTED", "FINALIZED"}
    /\ lines' \in [Lines -> Line \cup {NULL}]
    /\ RowsOK'
    /\ Leaves(r)

-----------------------------------------------------------------------------
(* Single lines.                                                           *)

\* A row of the order is a line.
LEMMA RowIsLine ==
    ASSUME NEW order \in [Lines -> Line \cup {NULL}], NEW n \in Rows(order)
    PROVE  n \in Lines /\ order[n] \in Line /\ order[n] # NULL
BY DEF Rows

\* NULL is no line.
LEMMA LineIsNotNull == \A x \in Line : x # NULL
BY SupplyAssumption

\* A line that comes from the catalog.
LEMMA NewLineFine ==
    ASSUME NEW item \in Items
    PROVE  /\ NewLine(item) \in Line /\ LineOK(NewLine(item))
           /\ NewLine(item).item = item /\ NewLine(item).review = NULL
           /\ NewLine(item).admin = NULL /\ NewLine(item).approved = NULL
<1>1. NULL \notin Kickbacks /\ NULL # "APPROVED" /\ NULL # "REJECTED" /\ "PENDING" \in Statuses
  BY SupplyAssumption DEF Statuses, Kickbacks
<1> QED
  BY <1>1 DEF NewLine, Line, LineOK

\* A line that is put to its group.
LEMMA RoutedLineFine ==
    ASSUME NEW l \in Line, LineOK(l), l.review = NULL
    PROVE  LET w == [l EXCEPT !.review = "PENDING"] IN
           /\ w \in Line /\ LineOK(w)
           /\ w.item = l.item /\ w.review = "PENDING"
           /\ w.admin = l.admin /\ w.approved = l.approved
<1> DEFINE w == [l EXCEPT !.review = "PENDING"]
<1>1. "PENDING" \in Statuses /\ NULL \notin Kickbacks
  BY SupplyAssumption DEF Statuses, Kickbacks
<1>2. w \in Line
  BY <1>1, Zenon DEF Line
<1>3. /\ w.item = l.item /\ w.said = l.said /\ w.review = "PENDING"
      /\ w.admin = l.admin /\ w.approved = l.approved
  BY SMT DEF Line
<1>4. w.needsAction = l.needsAction /\ w.noted = l.noted
  BY Zenon DEF Line
<1> HIDE DEF w
<1>5. LineOK(w)
  BY <1>1, <1>3, <1>4 DEF LineOK
<1> QED BY <1>2, <1>3, <1>5 DEF w

\* A line that the group decides, or that its department answers.
LEMMA ReviewedLineFine ==
    ASSUME NEW l \in Line, LineOK(l), NEW v \in Statuses, l.approved = NULL
    PROVE  LET w == [l EXCEPT !.review = v, !.status = v, !.needsAction = v \in Kickbacks] IN
           /\ w \in Line /\ LineOK(w)
           /\ w.item = l.item /\ w.review = v
           /\ w.admin = l.admin /\ w.approved = l.approved
<1> DEFINE w == [l EXCEPT !.review = v, !.status = v, !.needsAction = v \in Kickbacks]
<1>1. ASSUME NEW b \in BOOLEAN
      PROVE  [l EXCEPT !.review = v, !.status = v, !.needsAction = b] \in Line
  BY Zenon DEF Line
<1>2. w \in Line
  <2>1. (v \in Kickbacks) \in BOOLEAN
    OBVIOUS
  <2> QED BY <1>1, <2>1
<1>3. /\ w.item = l.item /\ w.said = l.said /\ w.review = v
      /\ w.admin = l.admin /\ w.approved = l.approved
  BY SMT DEF Line
<1>4. w.needsAction = (v \in Kickbacks)
  BY SMT DEF Line
<1>5. NULL # "none" /\ NULL # "some"
  BY SupplyAssumption
<1> HIDE DEF w
<1>6. LineOK(w)
  BY <1>3, <1>4, <1>5 DEF LineOK
<1> QED BY <1>2, <1>3, <1>6 DEF w

\* A line whose quantity is saved from a page that shows its item.
LEMMA SavedLineFine ==
    ASSUME NEW l \in Line, LineOK(l), NEW i, i = l.item
    PROVE  [l EXCEPT !.said = i] = l
BY DEF Line, LineOK

\* A line that an admin finalizes.
LEMMA DecidedLineFine ==
    ASSUME NEW l \in Line, LineOK(l), NEW k \in Line, k.approved = NULL,
           NEW q \in {"none", "some"}, NEW b \in BOOLEAN,
           Overriding(l.review, q) => b
    PROVE  LET w == Decided(l, k, q, b) IN
           /\ w \in Line /\ LineOK(w)
           /\ w.item = l.item /\ w.review = l.review /\ w.admin # NULL
<1> DEFINE o == Outcome(q)
           s == IF o = k.status THEN l.status ELSE o
           w == [l EXCEPT !.admin = o, !.noted = b, !.approved = q, !.status = s]
<1>1. Decided(l, k, q, b) = w
  <2>1. q # k.approved
    BY SupplyAssumption
  <2> QED BY <2>1 DEF Decided
<1>2. /\ o \in {"APPROVED", "REJECTED"} /\ o # NULL /\ o \in Statuses
  BY SupplyAssumption DEF Outcome, Statuses
<1>3. s \in Statuses
  BY <1>2 DEF Line
<1> HIDE DEF o, s
<1>4. w \in Line
  BY <1>2, <1>3, Zenon DEF Line
<1>5. /\ w.item = l.item /\ w.said = l.said /\ w.review = l.review
      /\ w.admin = o /\ w.approved = q
  BY SMT DEF Line
<1>6. w.needsAction = l.needsAction /\ w.noted = b
  BY Zenon DEF Line
<1> HIDE DEF w
<1>7. LineOK(w)
  BY <1>5, <1>6 DEF LineOK, Overriding
<1> QED BY <1>1, <1>2, <1>4, <1>5, <1>7

-----------------------------------------------------------------------------
(* Handlers, over what they loaded.                                        *)

\* A handler that leaves the rows and the status as they are.
LEMMA SameIsFine ==
    ASSUME TypeOK, RowsOK, NEW r, Current(r), UNCHANGED <<lines, status>>
    PROVE  Fine(r)
BY DEF TypeOK, RowsOK, Current, Fine, Leaves, Rows, PhaseOK

\* supply_line_add
LEMMA AddFine ==
    ASSUME TypeOK, RowsOK, NEW r \in Loaded, Current(r), NEW item \in Items, Add(r, item)
    PROVE  Fine(r)
<1> DEFINE k == NextNumber(r.lines)
           w == NewLine(item)
<1>1. /\ r.status = "DRAFT" /\ k \in Lines /\ lines[k] = NULL
      /\ lines' = [lines EXCEPT ![k] = w] /\ status' = status
  BY DEF Add
<1>2. /\ w \in Line /\ LineOK(w) /\ w.item = item /\ w.review = NULL
      /\ w.admin = NULL /\ w.approved = NULL /\ w # NULL
  BY NewLineFine, LineIsNotNull
<1> HIDE DEF k, w
<1>3. /\ lines' \in [Lines -> Line \cup {NULL}]
      /\ lines'[k] = w /\ \A n \in Lines : n # k => lines'[n] = lines[n]
  BY <1>1, <1>2 DEF TypeOK
<1>4. Rows(lines') = Rows(lines) \cup {k} /\ k \notin Rows(lines)
  BY <1>1, <1>2, <1>3 DEF Rows
<1>5. RowsOK'
  <2> SUFFICES ASSUME NEW n \in Rows(lines') PROVE LineOK(lines'[n]) /\ PhaseOK(lines[n])'
    BY DEF RowsOK
  <2>1. CASE n = k
    <3>1. NULL \notin Kickbacks /\ NULL # "PENDING"
      BY SupplyAssumption DEF Statuses, Kickbacks
    <3> QED BY <2>1, <3>1, <1>2, <1>3 DEF PhaseOK
  <2>2. CASE n # k
    <3>1. n \in Rows(lines) /\ lines'[n] = lines[n] /\ n \in Lines
      BY <2>2, <1>3, <1>4 DEF Rows
    <3> QED BY <3>1, <1>1 DEF RowsOK, PhaseOK
  <2> QED BY <2>1, <2>2
<1>6. \A n \in Rows(lines) : lines'[n] = lines[n]
  BY <1>3, <1>4 DEF Rows
<1>7. Leaves(r)
  BY <1>1, <1>4, <1>6 DEF Leaves
<1> QED BY <1>1, <1>3, <1>5, <1>7 DEF Fine, TypeOK

\* supply_line_update: what it saves is what the row already names.
LEMMA UpdateFine ==
    ASSUME TypeOK, RowsOK, NEW r \in Loaded, Current(r),
           NEW n \in Lines, NEW posted \in Items \cup {NULL}, Update(r, n, posted)
    PROVE  Fine(r)
<1>1. /\ n \in Rows(lines) /\ lines[n] \in Line /\ LineOK(lines[n])
      /\ lines[n].item = r.lines[n].item
  BY RowIsLine DEF Update, Current, RowsOK, TypeOK
<1>2. (IF posted = NULL THEN lines[n].said ELSE posted) = lines[n].item
  BY <1>1 DEF Update, SameItem, LineOK
<1>3. lines' = [lines EXCEPT ![n] = [lines[n] EXCEPT !.said = lines[n].item]]
  BY <1>1, <1>2 DEF Update, TypeOK
<1>4. lines' = lines
  BY <1>1, <1>3, SavedLineFine DEF TypeOK
<1> QED BY <1>4, SameIsFine DEF Update

\* supply_order_save: rows go, or stay as they are.
LEMMA SaveFine ==
    ASSUME TypeOK, RowsOK, NEW r \in Loaded, Current(r),
           NEW untouched \in SUBSET Lines, NEW remove \in SUBSET Lines,
           Save(r, untouched, remove)
    PROVE  /\ Fine(r)
           /\ r.status = "DRAFT" /\ status' = status
           /\ remove = {} => lines' = lines
<1> DEFINE posted == {n \in Rows(r.lines) : r.page[n] # NULL}
           saved  == posted \ (untouched \cup remove)
<1>1. /\ r.status = "DRAFT" /\ status' = status
      /\ \A n \in posted : r.page[n] = r.lines[n].item
      /\ saved \cup remove \subseteq Rows(r.lines) \ r.gone
      /\ lines' = [n \in Lines |->
              IF n \in remove THEN NULL
              ELSE IF n \in saved THEN [lines[n] EXCEPT !.said = r.page[n]]
              ELSE lines[n]]
  BY DEF Save, SameItem
<1>2. ASSUME NEW n \in saved
      PROVE  [lines[n] EXCEPT !.said = r.page[n]] = lines[n]
  <2>1. n \in Rows(lines) /\ r.page[n] = lines[n].item
    BY <1>1 DEF Current
  <2>2. lines[n] \in Line /\ LineOK(lines[n])
    BY <2>1, RowIsLine DEF RowsOK, TypeOK
  <2> QED BY <2>1, <2>2, SavedLineFine
<1> HIDE DEF saved
<1>3. lines' = [n \in Lines |-> IF n \in remove THEN NULL ELSE lines[n]]
  BY <1>1, <1>2
<1>4. lines' \in [Lines -> Line \cup {NULL}]
  BY <1>3 DEF TypeOK
<1>5. /\ Rows(lines') = Rows(lines) \ remove
      /\ \A n \in Rows(lines') : lines'[n] = lines[n]
  BY <1>3 DEF Rows
<1>6. RowsOK'
  BY <1>1, <1>5 DEF RowsOK, PhaseOK
<1>7. Leaves(r)
  BY <1>1, <1>5 DEF Leaves
<1>8. remove = {} => lines' = lines
  BY <1>3 DEF TypeOK
<1> QED BY <1>1, <1>4, <1>6, <1>7, <1>8 DEF Fine, TypeOK

\* submit_order: a draft whose rows were all loaded, or all read afresh, goes to
\* its group.
LEMMA SubmitsFine ==
    ASSUME TypeOK, RowsOK, NEW r, NEW order \in SUBSET Rows(lines), NEW gone,
           Submits(order, gone), status = "DRAFT", r.status = "DRAFT",
           Rows(r.lines) \ r.gone \subseteq order
    PROVE  Fine(r)
<1>1. /\ order # {} /\ status' = "SUBMITTED"
      /\ \A n \in order : lines[n].review = NULL
      /\ lines' = [n \in Lines |-> IF n \in order THEN [lines[n] EXCEPT !.review = "PENDING"]
                                   ELSE lines[n]]
  BY DEF Submits, Routed
<1>2. ASSUME NEW n \in Rows(lines)
      PROVE  /\ n \in Lines /\ lines[n] \in Line /\ LineOK(lines[n])
             /\ lines[n].review = NULL /\ lines[n].admin = NULL /\ lines[n].approved = NULL
  BY RowIsLine DEF RowsOK, PhaseOK, TypeOK
<1>3. ASSUME NEW n \in order
      PROVE  /\ lines'[n] \in Line /\ LineOK(lines'[n]) /\ lines'[n] # NULL
             /\ lines'[n].item = lines[n].item /\ lines'[n].review = "PENDING"
             /\ lines'[n].admin = NULL /\ lines'[n].approved = NULL
  <2>1. lines'[n] = [lines[n] EXCEPT !.review = "PENDING"]
    BY <1>1, <1>2
  <2> QED BY <2>1, <1>2, RoutedLineFine, LineIsNotNull
<1>4. \A n \in Lines \ order : lines'[n] = lines[n]
  BY <1>1
<1>5. lines' \in [Lines -> Line \cup {NULL}]
  <2>1. \A n \in Lines : lines'[n] \in Line \cup {NULL}
    BY <1>3, <1>4 DEF TypeOK
  <2>2. lines' = [n \in Lines |-> lines'[n]]
    BY <1>1
  <2> QED BY <2>1, <2>2
<1>6. Rows(lines') = Rows(lines)
  BY <1>3, <1>4 DEF Rows
<1>7. RowsOK'
  <2> SUFFICES ASSUME NEW n \in Rows(lines) PROVE LineOK(lines'[n]) /\ PhaseOK(lines[n])'
    BY <1>6 DEF RowsOK
  <2>1. CASE n \in order
    BY <2>1, <1>1, <1>3 DEF PhaseOK
  <2>2. CASE n \notin order
    BY <2>2, <1>1, <1>2, <1>4 DEF PhaseOK
  <2> QED BY <2>1, <2>2
<1>8. "PENDING" # NULL
  BY SupplyAssumption DEF Statuses
<1>9. Leaves(r)
  <2>1. \A n \in Rows(lines) : lines'[n].item = lines[n].item
    BY <1>3, <1>4 DEF Rows
  <2>2. \A n \in Rows(lines) : lines[n].review # NULL => lines'[n].review # NULL
    BY <1>2
  <2>3. \A n \in Rows(r.lines) \ r.gone : lines'[n].review # NULL
    BY <1>3, <1>8
  <2>4. Rows(lines) # {}
    BY <1>1
  <2> QED BY <1>1, <1>6, <2>1, <2>2, <2>3, <2>4 DEF Leaves
<1> QED BY <1>1, <1>5, <1>7, <1>9 DEF Fine

\* supply_admin_finalize: every row of the order gets its decision, because a
\* submitted order gains no row.
LEMMA FinalizeFine ==
    ASSUME TypeOK, RowsOK, NEW r \in Loaded, Current(r),
           NEW quantities \in [Lines -> {"none", "some"}], NEW notes \in [Lines -> BOOLEAN],
           Finalize(r, quantities, notes)
    PROVE  Fine(r)
<1> DEFINE order == Rows(r.lines)
<1>1. /\ r.status = "SUBMITTED" /\ status' = "FINALIZED"
      /\ r.gone \cap order = {}
      /\ \A n \in order : lines[n].review \notin Kickbacks
      /\ \A n \in order : Overriding(lines[n].review, quantities[n]) => notes[n]
      /\ lines' = [n \in Lines |->
              IF n \in order THEN Decided(lines[n], r.lines[n], quantities[n], notes[n])
              ELSE lines[n]]
  BY DEF Finalize, KickedBack, GroupReview
<1>2. /\ order = Rows(lines) /\ status # "DRAFT"
      /\ \A n \in order : r.lines[n].approved = NULL
  BY <1>1 DEF Current
<1>3. r.lines \in [Lines -> Line \cup {NULL}]
  BY DEF Loaded
<1>4. ASSUME NEW n \in Rows(lines)
      PROVE  /\ n \in Lines /\ lines[n] \in Line /\ LineOK(lines[n]) /\ r.lines[n] \in Line
  BY <1>2, <1>3, RowIsLine DEF RowsOK, TypeOK
<1>5. ASSUME NEW n \in Rows(lines)
      PROVE  /\ lines'[n] \in Line /\ LineOK(lines'[n]) /\ lines'[n] # NULL
             /\ lines'[n].item = lines[n].item /\ lines'[n].review = lines[n].review
             /\ lines'[n].admin # NULL
  <2>1. lines'[n] = Decided(lines[n], r.lines[n], quantities[n], notes[n])
    BY <1>1, <1>2, <1>4
  <2>2. /\ quantities[n] \in {"none", "some"} /\ notes[n] \in BOOLEAN
        /\ Overriding(lines[n].review, quantities[n]) => notes[n]
        /\ r.lines[n].approved = NULL
    BY <1>1, <1>2, <1>4
  <2> QED BY <2>1, <2>2, <1>4, DecidedLineFine, LineIsNotNull
<1>6. \A n \in Lines \ Rows(lines) : lines'[n] = lines[n]
  BY <1>1, <1>2
<1>7. lines' \in [Lines -> Line \cup {NULL}]
  <2>1. \A n \in Lines : lines'[n] \in Line \cup {NULL}
    BY <1>5, <1>6 DEF TypeOK
  <2>2. lines' = [n \in Lines |-> lines'[n]]
    BY <1>1
  <2> QED BY <2>1, <2>2
<1>8. Rows(lines') = Rows(lines)
  BY <1>5, <1>6 DEF Rows
<1>9. RowsOK'
  BY <1>1, <1>2, <1>5, <1>8 DEF RowsOK, PhaseOK
<1>10. Leaves(r)
  BY <1>1, <1>2, <1>5, <1>8 DEF Leaves
<1> QED BY <1>1, <1>7, <1>9, <1>10 DEF Fine

-----------------------------------------------------------------------------
(* Requests, whole or in two steps.                                        *)

\* A submit that found a draft finds it a draft still, or a row that the unique
\* review key refuses.
LEMMA SubmitFine ==
    ASSUME TypeOK, RowsOK, NEW r \in Loaded, Current(r), Submit(r)
    PROVE  Fine(r)
<1> DEFINE order == Rows(r.lines)
<1>1. /\ r.status = "DRAFT" /\ Submits(order, r.gone)
      /\ order # {} /\ r.gone \cap order = {}
      /\ \A n \in order : lines[n].review = NULL
  BY DEF Submit, Submits
<1>2. order \subseteq Rows(lines)
  BY <1>1 DEF Current
<1>3. status = "DRAFT"
  <2>1. order \ r.gone # {}
    BY <1>1
  <2> QED BY <1>1, <2>1 DEF Current
<1> HIDE DEF order
<1>4. Rows(r.lines) \ r.gone \subseteq order
  BY DEF order
<1> QED BY <1>1, <1>2, <1>3, <1>4, SubmitsFine

\* Every handler's body.
LEMMA BodyFine ==
    ASSUME TypeOK, RowsOK, NEW r \in Loaded, Current(r), Body(r)
    PROVE  Fine(r)
<1>1. CASE \E item \in Items : Add(r, item)
  BY <1>1, AddFine
<1>2. CASE \E n \in Lines, posted \in Items \cup {NULL} : Update(r, n, posted)
  BY <1>2, UpdateFine
<1>3. CASE \E untouched \in SUBSET Lines, remove \in {{}} \cup {{n} : n \in Lines} :
              Save(r, untouched, remove)
  <2>1. PICK untouched \in SUBSET Lines, remove \in SUBSET Lines : Save(r, untouched, remove)
    BY <1>3
  <2> QED BY <2>1, SaveFine
<1>4. CASE Submit(r)
  BY <1>4, SubmitFine
<1>5. CASE \E quantities \in [Lines -> {"none", "some"}], notes \in [Lines -> BOOLEAN] :
              Finalize(r, quantities, notes)
  BY <1>5, FinalizeFine
<1> QED BY <1>1, <1>2, <1>3, <1>4, <1>5 DEF Body

\* What is loaded now is current.
LEMMA LoadCurrent ==
    ASSUME TypeOK, RowsOK, NEW op \in Ops
    PROVE  Load(op) \in Loaded /\ Current(Load(op))
<1> DEFINE r == Load(op)
<1>1. /\ r.op = op /\ r.status = status /\ r.lines = lines /\ r.gone = {}
  BY DEF Load
<1>2. r \in Loaded
  <2>1. (IF op \in {"save", "save_and_submit"} THEN page ELSE NoPage)
           \in [Lines -> Items \cup {NULL}]
    BY DEF NoPage, TypeOK
  <2> QED BY <2>1 DEF Load, Loaded, TypeOK
<1> HIDE DEF r
<1>3. Current(r)
  BY <1>1 DEF Current, RowsOK, PhaseOK
<1> QED BY <1>2, <1>3 DEF r

\* What somebody else's request leaves is enough for the slow one.
LEMMA StaysCurrent ==
    ASSUME TypeOK, RowsOK, SlowOK, slow # NULL,
           NEW op \in Ops, Fine(Load(op)),
           slow'.lines = slow.lines, slow'.status = slow.status,
           slow'.gone = slow.gone \cup {n \in Rows(lines) : lines'[n] = NULL}
    PROVE  Current(slow)'
<1> DEFINE r == Load(op)
<1>1. /\ r.status = status /\ r.lines = lines /\ r.gone = {}
  BY DEF Load
<1>2. Leaves(r) /\ Current(slow)
  BY DEF Fine, SlowOK
<1>3. slow \in Loaded
  BY DEF TypeOK
<1> HIDE DEF r
<1>4. \A n \in Rows(lines) : lines'[n] # NULL => n \in Rows(lines')
  BY DEF Rows
<1>5. ASSUME NEW n \in Rows(slow'.lines) \ slow'.gone
      PROVE  /\ n \in Rows(slow.lines) \ slow.gone
             /\ n \in Rows(lines) /\ n \in Rows(lines')
             /\ lines'[n].item = slow'.lines[n].item
  BY <1>2, <1>4 DEF Leaves, Current
<1>6. ASSUME slow'.status # "DRAFT"
      PROVE  Rows(lines') \subseteq Rows(slow'.lines) /\ status' # "DRAFT"
  BY <1>1, <1>2, <1>6 DEF Leaves, Current
<1>7. ASSUME slow'.status = "DRAFT", status' # "DRAFT"
      PROVE  /\ \E n \in Rows(lines') : lines'[n].review # NULL
             /\ \A n \in Rows(slow'.lines) \ slow'.gone : lines'[n].review # NULL
  <2>1. CASE status = "DRAFT"
    <3>1. /\ Rows(lines') = Rows(lines) /\ Rows(lines) # {}
          /\ \A n \in Rows(lines) : lines'[n].review # NULL
      BY <1>1, <1>2, <1>7, <2>1 DEF Leaves
    <3> QED BY <3>1, <1>5
  <2>2. CASE status # "DRAFT"
    <3>1. Rows(lines') = Rows(lines)
      BY <1>1, <1>2, <2>2 DEF Leaves
    <3>2. \A n \in Rows(lines) : lines[n].review # NULL => lines'[n].review # NULL
      BY <1>2, <3>1 DEF Leaves
    <3>3. /\ \E n \in Rows(lines) : lines[n].review # NULL
          /\ \A n \in Rows(slow.lines) \ slow.gone : lines[n].review # NULL
      BY <1>2, <1>7, <2>2 DEF Current
    <3> QED BY <3>1, <3>2, <3>3, <1>5
  <2> QED BY <2>1, <2>2
<1>8. slow'.status # "FINALIZED" => \A n \in Rows(slow'.lines) : slow'.lines[n].approved = NULL
  BY <1>2 DEF Current
<1> QED BY <1>5, <1>6, <1>7, <1>8 DEF Current

-----------------------------------------------------------------------------
(* The steps.                                                              *)

\* An empty draft.
LEMMA InitInv == Init => IInv
<1> SUFFICES ASSUME Init PROVE IInv
  OBVIOUS
<1>1. TypeOK
  BY DEF Init, TypeOK, NoPage
<1>2. Rows(lines) = {}
  BY DEF Init, Rows
<1> QED BY <1>1, <1>2 DEF Init, IInv, RowsOK, SlowOK

\* What a slow request loads is current.
LEMMA BeginInv ==
    ASSUME IInv, NEW op \in Ops \ {"submit_after_save"}, Begin(op)
    PROVE  IInv'
<1>1. slow' = Load(op) /\ UNCHANGED <<status, lines, page>>
  BY DEF Begin
<1>2. Load(op) \in Loaded /\ Current(Load(op)) /\ Load(op).op # "submit_after_save"
  BY LoadCurrent DEF IInv, Load
<1>3. TypeOK' /\ RowsOK'
  BY <1>1, <1>2 DEF IInv, TypeOK, RowsOK, PhaseOK
<1>4. SlowOK'
  BY <1>1, <1>2 DEF SlowOK, Current
<1> QED BY <1>3, <1>4 DEF IInv

\* Somebody else's request.
LEMMA RequestInv ==
    ASSUME IInv, Request
    PROVE  IInv'
<1>1. PICK op \in Ops : Body(Load(op))
  BY DEF Request
<1>2. Fine(Load(op))
  BY <1>1, LoadCurrent, BodyFine DEF IInv
<1>3. TypeOK /\ RowsOK /\ SlowOK
  BY DEF IInv
<1>4. CASE slow = NULL
  <2>1. slow' = NULL /\ page' = page
    BY <1>4 DEF Request
  <2> QED BY <2>1, <1>2, <1>3 DEF IInv, Fine, TypeOK, SlowOK
<1>5. CASE slow # NULL
  <2> DEFINE G == slow.gone \cup {n \in Rows(lines) : lines'[n] = NULL}
             s == [slow EXCEPT !.gone = G]
  <2>1. slow \in Loaded /\ slow' = s /\ page' = page
    BY <1>3, <1>5 DEF Request, TypeOK
  <2>2. G \subseteq Lines
    BY <2>1 DEF Loaded, Rows
  <2>3. /\ s \in Loaded /\ s.lines = slow.lines /\ s.status = slow.status
        /\ s.op = slow.op /\ s.gone = G
    BY <2>1, <2>2 DEF Loaded
  <2> HIDE DEF s
  <2>4. Current(slow)'
    BY <1>2, <1>3, <1>5, <2>1, <2>3, StaysCurrent
  <2>5. SlowOK'
    BY <1>3, <1>5, <2>1, <2>3, <2>4 DEF SlowOK
  <2> QED BY <1>2, <1>3, <2>1, <2>3, <2>5 DEF IInv, Fine, TypeOK
<1> QED BY <1>4, <1>5

\* The slow request writes.
LEMMA FinishInv ==
    ASSUME IInv, Finish
    PROVE  IInv'
<1>1. /\ slow \in Loaded /\ Current(slow) /\ Body(slow)
      /\ slow' = NULL /\ page' = page
  BY DEF Finish, IInv, TypeOK, SlowOK
<1>2. Fine(slow)
  BY <1>1, BodyFine DEF IInv
<1> QED BY <1>1, <1>2 DEF IInv, Fine, TypeOK, SlowOK

\* The save half of save-and-submit.
LEMMA FinishSaveInv ==
    ASSUME IInv, FinishSave
    PROVE  IInv'
<1>1. PICK untouched \in SUBSET Lines : Save(slow, untouched, {})
  BY DEF FinishSave
<1>2. /\ slow \in Loaded /\ Current(slow) /\ slow # NULL
      /\ slow' = [slow EXCEPT !.op = "submit_after_save"] /\ page' = page
  BY DEF FinishSave, IInv, TypeOK, SlowOK
<1>3. slow.status = "DRAFT" /\ status' = status /\ lines' = lines
  BY <1>1, <1>2, SaveFine DEF IInv
<1>4. /\ slow' \in Loaded /\ slow'.lines = slow.lines /\ slow'.gone = slow.gone
      /\ slow'.status = slow.status
  BY <1>2 DEF Loaded, Ops
<1>5. TypeOK' /\ RowsOK'
  BY <1>2, <1>3, <1>4 DEF IInv, TypeOK, RowsOK, PhaseOK
<1>6. Current(slow)'
  BY <1>2, <1>3, <1>4 DEF Current
<1>7. SlowOK'
  BY <1>3, <1>4, <1>6 DEF SlowOK
<1> QED BY <1>5, <1>7 DEF IInv

\* The submit half asks nobody whether the order is a draft: if it is not, some
\* row has a review, and the insert of a second one fails.
LEMMA FinishSubmitInv ==
    ASSUME IInv, FinishSubmitAfterSave
    PROVE  IInv'
<1>1. /\ slow # NULL /\ Current(slow) /\ slow.status = "DRAFT"
      /\ slow' = NULL /\ page' = page
      /\ Submits(Rows(lines), {}) /\ \A n \in Rows(lines) : lines[n].review = NULL
  BY DEF FinishSubmitAfterSave, SubmitAfterSave, Submits, IInv, SlowOK
<1>2. status = "DRAFT"
  BY <1>1 DEF Current
<1>3. Rows(slow.lines) \ slow.gone \subseteq Rows(lines)
  BY <1>1 DEF Current
<1>4. Fine(slow)
  BY <1>1, <1>2, <1>3, SubmitsFine DEF IInv
<1> QED BY <1>1, <1>4 DEF IInv, Fine, TypeOK, SlowOK

\* The group and the department write one row that is under review, and no
\* review of a finalized order is open.
LEMMA ReviewInv ==
    ASSUME IInv, NEW n \in Rows(lines), NEW v \in Statuses,
           lines[n].review \notin {NULL, "APPROVED", "REJECTED"}, lines[n].admin = NULL,
           lines' = [lines EXCEPT ![n] = [lines[n] EXCEPT
                        !.review = v, !.status = v, !.needsAction = v \in Kickbacks]],
           UNCHANGED <<status, page, slow>>
    PROVE  IInv'
<1> DEFINE w == [lines[n] EXCEPT !.review = v, !.status = v, !.needsAction = v \in Kickbacks]
<1>1. /\ n \in Lines /\ lines[n] \in Line /\ LineOK(lines[n]) /\ PhaseOK(lines[n])
  BY RowIsLine DEF IInv, TypeOK, RowsOK
<1>2. status # "FINALIZED" /\ status # "DRAFT" /\ lines[n].approved = NULL
  <2>1. lines[n].review \in {"PENDING"} \cup Kickbacks
    BY <1>1 DEF Line, Statuses
  <2> QED BY <1>1, <2>1 DEF PhaseOK
<1>3. /\ w \in Line /\ LineOK(w) /\ w # NULL
      /\ w.item = lines[n].item /\ w.review = v /\ w.review # NULL
      /\ w.admin = lines[n].admin /\ w.approved = lines[n].approved
  BY <1>1, <1>2, ReviewedLineFine, LineIsNotNull, SupplyAssumption
<1> HIDE DEF w
<1>4. /\ lines' \in [Lines -> Line \cup {NULL}] /\ lines'[n] = w
      /\ \A m \in Lines : m # n => lines'[m] = lines[m]
  BY <1>1, <1>3 DEF w, IInv, TypeOK
<1>5. Rows(lines') = Rows(lines)
  BY <1>3, <1>4 DEF Rows
<1>6. RowsOK'
  <2> SUFFICES ASSUME NEW m \in Rows(lines) PROVE LineOK(lines'[m]) /\ PhaseOK(lines[m])'
    BY <1>5 DEF RowsOK
  <2>1. CASE m = n
    BY <2>1, <1>2, <1>3, <1>4 DEF PhaseOK
  <2>2. CASE m # n
    <3>1. lines'[m] = lines[m]
      BY <2>2, <1>4 DEF Rows
    <3> QED BY <3>1 DEF IInv, RowsOK, PhaseOK
  <2> QED BY <2>1, <2>2
<1>7. \A m \in Rows(lines) : /\ lines'[m].item = lines[m].item
                             /\ lines[m].review # NULL => lines'[m].review # NULL
  BY <1>3, <1>4 DEF Rows
<1>8. SlowOK'
  <2> SUFFICES ASSUME slow # NULL, Current(slow) PROVE Current(slow)'
    BY DEF SlowOK, IInv
  <2> QED BY <1>5, <1>7 DEF Current
<1> QED BY <1>4, <1>6, <1>8 DEF IInv, TypeOK

\* apply_review_decision, by the group.
LEMMA DecideInv ==
    ASSUME IInv, NEW n \in Lines, NEW verdict \in Verdicts, Decide(n, verdict)
    PROVE  IInv'
<1>1. /\ n \in Rows(lines) /\ verdict \in Statuses
      /\ lines[n].review = "PENDING" /\ "PENDING" # NULL
  BY SupplyAssumption DEF Decide, Statuses
<1>2. lines' = [lines EXCEPT ![n] = [lines[n] EXCEPT
                   !.review = verdict, !.status = verdict,
                   !.needsAction = verdict \in Kickbacks]]
  BY DEF Decide
<1> QED BY <1>1, <1>2, ReviewInv DEF Decide

\* apply_review_decision, by the department.
LEMMA RespondInv ==
    ASSUME IInv, NEW n \in Lines, Respond(n)
    PROVE  IInv'
<1>1. /\ n \in Rows(lines) /\ "PENDING" \in Statuses
      /\ lines[n].review \in Kickbacks
      /\ lines[n].review \notin {NULL, "APPROVED", "REJECTED"}
  BY SupplyAssumption DEF Respond, Kickbacks, Statuses
<1>2. lines[n].admin = NULL
  BY <1>1 DEF IInv, RowsOK, PhaseOK
<1>3. lines' = [lines EXCEPT ![n] = [lines[n] EXCEPT
                   !.review = "PENDING", !.status = "PENDING",
                   !.needsAction = "PENDING" \in Kickbacks]]
  <2>1. ("PENDING" \in Kickbacks) = FALSE
    BY DEF Kickbacks
  <2>2. lines' = [lines EXCEPT ![n] = [lines[n] EXCEPT
                     !.review = "PENDING", !.status = "PENDING", !.needsAction = FALSE]]
    BY DEF Respond
  <2> QED BY <2>1, <2>2, Zenon
<1> QED BY <1>1, <1>2, <1>3, ReviewInv DEF Respond

\* A page that is opened shows the rows' items.
LEMMA ViewInv ==
    ASSUME IInv, View
    PROVE  IInv'
<1>1. page' \in [Lines -> Items \cup {NULL}]
  BY DEF View, IInv, TypeOK, Line
<1> QED BY <1>1 DEF View, IInv, TypeOK, RowsOK, PhaseOK, SlowOK, Current

\* A request that fails, and a stutter.
LEMMA StutterInv ==
    ASSUME IInv, UNCHANGED <<status, lines, page>>, slow' \in {slow, NULL}
    PROVE  IInv'
BY DEF IInv, TypeOK, RowsOK, PhaseOK, SlowOK, Current

\* Every step keeps the invariant.
LEMMA NextInv == IInv /\ [Next]_vars => IInv'
<1> SUFFICES ASSUME IInv, [Next]_vars PROVE IInv'
  OBVIOUS
<1>1. CASE \E op \in Ops \ {"submit_after_save"} : Begin(op)
  BY <1>1, BeginInv
<1>2. CASE Request
  BY <1>2, RequestInv
<1>3. CASE Finish
  BY <1>3, FinishInv
<1>4. CASE FinishSave
  BY <1>4, FinishSaveInv
<1>5. CASE FinishSubmitAfterSave
  BY <1>5, FinishSubmitInv
<1>6. CASE Fail
  BY <1>6, StutterInv DEF Fail
<1>7. CASE View
  BY <1>7, ViewInv
<1>8. CASE \E n \in Lines : Respond(n) \/ \E verdict \in Verdicts : Decide(n, verdict)
  BY <1>8, RespondInv, DecideInv
<1>9. CASE UNCHANGED vars
  BY <1>9, StutterInv DEF vars
<1> QED BY <1>1, <1>2, <1>3, <1>4, <1>5, <1>6, <1>7, <1>8, <1>9 DEF Next

-----------------------------------------------------------------------------
(***************************************************************************)
(* The theorems.                                                           *)
(***************************************************************************)

\* The rows keep their types and agree in their columns, and a slow request
\* finds what it may rely on.
THEOREM OrderInvariant == Spec => []IInv
BY InitInv, NextInv, PTL DEF Spec

\* No line of a finalized order waits for its department
\* (supply_admin_finalize, apply_review_decision).
THEOREM FinalizedAlwaysAnswered == Spec => []FinalizedIsAnswered
<1>1. IInv => FinalizedIsAnswered
  BY DEF IInv, RowsOK, PhaseOK, FinalizedIsAnswered
<1> QED BY <1>1, OrderInvariant, PTL

\* A quantity that contradicts the group's verdict, as it stands, has a note
\* (supply_admin_finalize).
THEOREM OverridesAlwaysNoted == Spec => []OverridesAreNoted
<1>1. IInv => OverridesAreNoted
  BY DEF IInv, RowsOK, LineOK, OverridesAreNoted
<1> QED BY <1>1, OrderInvariant, PTL

\* An order the queue calls ready can be finalized from its screen
\* (supply_admin_queue, _build_finalize_view, _is_line_kicked_back).
THEOREM ReadyAlwaysFinalizable == Spec => []ReadyIsFinalizable
<1>1. ASSUME IInv PROVE ReadyIsFinalizable
  <2> SUFFICES ASSUME Ready, NEW n \in Rows(lines)
               PROVE  /\ ~ KickedBack(Load("finalize"), n)
                      /\ ~ Overriding(lines[n].review, Default(lines[n].review))
    BY DEF ReadyIsFinalizable
  <2>1. lines[n].review \in {NULL, "APPROVED", "REJECTED"}
    BY DEF Ready
  <2>2. lines[n].review \notin Kickbacks /\ ~ lines[n].needsAction
    BY <1>1, <2>1, SupplyAssumption DEF IInv, RowsOK, LineOK, Kickbacks, Statuses
  <2>3. ~ KickedBack(Load("finalize"), n)
    BY <2>2 DEF KickedBack, GroupReview, Load
  <2>4. ~ Overriding(lines[n].review, Default(lines[n].review))
    BY DEF Overriding, Default
  <2> QED BY <2>3, <2>4
<1> QED BY <1>1, OrderInvariant, PTL

\* A quantity stands next to the item it was entered for, although numbers are
\* reused and pages go stale (supply_order_save, supply_line_update).
THEOREM QuantityAlwaysForItsItem == Spec => []QuantityIsForItsItem
<1>1. IInv => QuantityIsForItsItem
  BY DEF IInv, RowsOK, LineOK, QuantityIsForItsItem
<1> QED BY <1>1, OrderInvariant, PTL

=============================================================================
