---------------------------- MODULE VenueSpaces ----------------------------
(***************************************************************************)
(* The spaces of one venue and what its events make of them                *)
(* (routes/spaces/, models/spaces.py).                                     *)
(*                                                                         *)
(* The venue catalog holds permanent rooms and their slices.  An event     *)
(* adds pop-ups of its own and, in a sparse table of overrides, renames a  *)
(* space, closes it, or folds one slice into another of the same room.     *)
(* Departments hold spaces per event.  Two readers interpret all this: the *)
(* Spaces page of Event Ops (build_space_rows) and the list the other work *)
(* types offer a department (spaces_for_department).                       *)
(*                                                                         *)
(* One handler is one step.  A save posts whatever its editor held when it *)
(* was opened: the editor of a slice that has been folded or covered since *)
(* still saves.  Names, areas and notes are left out: they are refusals,   *)
(* or columns no rule reads.  The venue of an event stays the same.        *)
(***************************************************************************)
EXTENDS Integers, FiniteSets

CONSTANTS MaxSpaces,    \* bound: spaces ever created; ids are 1..MaxSpaces
          MaxRows,      \* bound: overrides, assignments and archived spaces at a time
          Events,       \* the events held at the venue
          Departments,
          Codes,
          SliceCoded,   \* the codes is_slice_coded recognizes, "CHE-S-1"
          None          \* no row, or a column that is NULL

VARIABLES space,      \* [Ids -> Space \cup {None}]
          override,   \* [Ids -> [Events -> Override \cup {None}]]
          held        \* [Ids -> [Events -> SUBSET Departments]], assignments

venueVars == <<space, override, held>>

Ids == 1..MaxSpaces

Space == [code : Codes, kind : {"ROOM", "SLICE", "FREEFORM"},
          parent : Ids \cup {None}, event : Events \cup {None}, active : BOOLEAN]

Override == [alias : BOOLEAN, available : BOOLEAN, fold : Ids \cup {None}]

ASSUME VenueAssumption ==
    /\ MaxSpaces \in Nat /\ MaxRows \in Nat
    /\ SliceCoded \subseteq Codes
    /\ None \notin Events \cup Codes \cup Nat \cup Space \cup Override

\* The table is sparse: a row says something.
VenueTypeOK ==
    /\ space \in [Ids -> Space \cup {None}]
    /\ override \in [Ids -> [Events -> Override \cup {None}]]
    /\ held \in [Ids -> [Events -> SUBSET Departments]]
    /\ \A s \in Ids, e \in Events : override[s][e] # None =>
           override[s][e] # [alias |-> FALSE, available |-> TRUE, fold |-> None]

Stored     == {s \in Ids : space[s] # None}
Free       == Ids \ Stored
Fold(e, s) == IF override[s][e] = None THEN None ELSE override[s][e].fold

\* bound
FewRows ==
    Cardinality({p \in Ids \X Events : override'[p[1]][p[2]] # None})
    + Cardinality({p \in Ids \X Events : held'[p[1]][p[2]] # {}})
    + Cardinality({s \in Ids : space'[s] # None /\ ~space'[s].active}) <= MaxRows

VenueInit ==
    /\ space = [s \in Ids |-> None]
    /\ override = [s \in Ids |-> [e \in Events |-> None]]
    /\ held = [s \in Ids |-> [e \in Events |-> {}]]

-----------------------------------------------------------------------------
(* The catalog of the venue (catalog.py).                                  *)

\* Ids are handed out in order.
NewIds(n) == {s \in Free : Cardinality({t \in Free : t < s}) < n}

\* Seeded fault: only permanent codes count.
CodesOfTheCatalog == {space[s].code : s \in {t \in Stored : space[t].event = None}}

\* Every code at the venue, pop-ups of any event included.
CodesAtVenue == {space[s].code : s \in Stored}

\* The parent test the package repeats.
IsParent(s) ==
    /\ s \in Stored
    /\ space[s].kind = "ROOM"
    /\ space[s].parent = None
    /\ space[s].event = None
    /\ space[s].active

Permanent(code, parent) ==
    [code |-> code, kind |-> IF parent = None THEN "ROOM" ELSE "SLICE",
     parent |-> parent, event |-> None, active |-> TRUE]

CatalogAddSpace(code, parent) ==
    /\ parent = None \/ IsParent(parent)
    /\ code \notin CodesAtVenue
    /\ \E new \in NewIds(1) :
           space' = [space EXCEPT ![new] = Permanent(code, parent)]
    /\ UNCHANGED <<override, held>>

LegalParentCodes == {space[s].code : s \in {t \in Stored : IsParent(t)}}

\* A batch names parents by code, rows of the batch included, in any order.
\* A row of the batch is a parent only if it names none itself.
CatalogPasteConfirm(code, parentCode) ==
    LET batch == DOMAIN code
        rooms == {code[i] : i \in {j \in batch : parentCode[j] = None}}
        Named(c) == IF c = None THEN None
                    ELSE CHOOSE s \in batch \cup Stored :
                             c = IF s \in batch THEN code[s] ELSE space[s].code
    IN  /\ \A i, j \in batch : code[i] = code[j] => i = j
        /\ \A i \in batch :
               /\ code[i] \notin CodesAtVenue
               /\ parentCode[i] \in LegalParentCodes \cup rooms \cup {None}
        /\ space' = [s \in Ids |->
                        IF s \in batch THEN Permanent(code[s], Named(parentCode[s]))
                        ELSE space[s]]
        /\ UNCHANGED <<override, held>>

\* catalog_save_space: kind and parent stay fixed.
CatalogSaveSpace(s, code) ==
    /\ s \in Stored /\ space[s].event = None
    /\ code \notin CodesAtVenue
    /\ space' = [space EXCEPT ![s].code = code]
    /\ UNCHANGED <<override, held>>

\* Retired for every event; the event page and the catalog both do it.
\* Slices, folds and assignments stay as they are.
SetSpaceActive(s, active) ==
    /\ s \in Stored /\ space[s].active # active
    /\ space' = [space EXCEPT ![s].active = active]
    /\ UNCHANGED <<override, held>>
    /\ FewRows

\* Rooms whose code reads as a slice.
Flagged == {s \in Stored : /\ space[s].event = None /\ space[s].parent = None
                           /\ space[s].active /\ space[s].code \in SliceCoded}

HasChildren(s) == \E c \in Stored : space[c].parent = s

\* A room ticked in this batch stops being a legal parent.
RepairParent(s, ticked) == IsParent(s) /\ s \notin ticked

CatalogRepairSlices(parent) ==
    LET ticked == DOMAIN parent
    IN  /\ \A s \in ticked : /\ parent[s] # s
                             /\ RepairParent(parent[s], ticked)
                             /\ ~HasChildren(s)
        /\ space' = [s \in Ids |->
                        IF s \in ticked
                        THEN [space[s] EXCEPT !.parent = parent[s], !.kind = "SLICE"]
                        ELSE space[s]]
        /\ UNCHANGED <<override, held>>

-----------------------------------------------------------------------------
(* One event's spaces (views.py).                                          *)

\* Permanent rows and the event's own are seen together.
SeenAt(e) == {s \in Stored : space[s].event \in {None, e}}

CodeTaken(code, e) == \E s \in SeenAt(e) : space[s].code = code

CreateSpace(e, code) ==
    /\ ~CodeTaken(code, e)
    /\ \A s \in Stored : space[s].event # e     \* bound: a pop-up, and a copied one
    /\ \E new \in NewIds(1) :
           space' = [space EXCEPT ![new] =
               [code |-> code, kind |-> "FREEFORM", parent |-> None,
                event |-> e, active |-> TRUE]]
    /\ UNCHANGED <<override, held>>

LoadedForCycle(s, e) == s \in SeenAt(e)

\* A row that names the space or closes it is kept; otherwise it is dropped,
\* whatever else it says.
SaveSpace(e, s, code, alias, available, departments) ==
    /\ LoadedForCycle(s, e) /\ space[s].active
    /\ \/ code = space[s].code
       \/ space[s].event # None /\ ~CodeTaken(code, space[s].event)
    /\ space' = [space EXCEPT ![s].code = code]
    /\ override' = [override EXCEPT ![s][e] =
           IF alias \/ ~available
           THEN [alias |-> alias, available |-> available, fold |-> Fold(e, s)]
           ELSE None]
    /\ held' = [held EXCEPT ![s][e] = departments]
    /\ FewRows

Slices(room) == {s \in Stored : /\ space[s].parent = room
                                /\ space[s].kind = "SLICE" /\ space[s].active}

\* Seeded fault: any slice of the venue is a target.
FoldTargetsAtVenue(room) == {s \in Stored : space[s].kind = "SLICE" /\ space[s].active}

\* "A slice's only legal target is another slice in the same room."
FoldTargets(room) == Slices(room)

Regrouped(row, target) ==
    CASE target # None /\ row = None ->
             [alias |-> FALSE, available |-> TRUE, fold |-> target]
      [] target # None /\ row # None -> [row EXCEPT !.fold = target]
      [] target = None /\ row = None -> None
      [] target = None /\ row # None ->
             IF row.alias \/ ~row.available THEN [row EXCEPT !.fold = None] ELSE None

\* The whole grid of a room's active slices, checked before it is written.
CombineRoom(e, room, into) ==
    /\ IsParent(room)
    /\ DOMAIN into = Slices(room)
    /\ \A s \in DOMAIN into : into[s] # None =>
           /\ into[s] \in FoldTargets(room)
           /\ into[s] \in DOMAIN into => into[into[s]] = None
    /\ override' = [s \in Ids |->
           IF s \in DOMAIN into
           THEN [override[s] EXCEPT ![e] = Regrouped(@, into[s])]
           ELSE override[s]]
    /\ UNCHANGED <<space, held>>
    /\ FewRows

\* Pop-ups whose code is free at the target, then the names and folds the
\* target has no row for.  Closures and assignments are never copied.
CopyLayout(from, to) ==
    LET copied == {s \in Stored : /\ space[s].event = from /\ space[s].active
                                  /\ ~CodeTaken(space[s].code, to)}
        new(s) == CHOOSE id \in Ids :
                      /\ id \in NewIds(Cardinality(copied))
                      /\ Cardinality({t \in Free : t < id})
                             = Cardinality({t \in copied : t < s})
        source(id) ==
            {s \in Stored : /\ Fold(from, s) # None \/ ( override[s][from] # None
                                                         /\ override[s][from].alias )
                            /\ id = IF space[s].event = None THEN s
                                    ELSE IF s \in copied THEN new(s) ELSE None}
    IN  /\ from # to
        /\ Cardinality(copied) <= Cardinality(Free)     \* bound
        /\ space' = [id \in Ids |->
               IF \E s \in copied : new(s) = id
               THEN [space[CHOOSE s \in copied : new(s) = id] EXCEPT !.event = to]
               ELSE space[id]]
        /\ override' = [id \in Ids |->
               IF override[id][to] = None /\ source(id) # {}
               THEN [override[id] EXCEPT ![to] =
                        [override[CHOOSE s \in source(id) : TRUE][from]
                             EXCEPT !.available = TRUE]]
               ELSE override[id]]
        /\ UNCHANGED held
        /\ FewRows

VenueNext ==
    \/ \E c \in Codes, p \in Ids \cup {None} : CatalogAddSpace(c, p)
    \/ \E code \in [NewIds(2) -> Codes] :            \* bound: batches of two
       \E parentCode \in [NewIds(2) -> Codes \cup {None}] :
           Cardinality(NewIds(2)) = 2 /\ CatalogPasteConfirm(code, parentCode)
    \/ \E s \in Ids, c \in Codes : CatalogSaveSpace(s, c)
    \/ \E s \in Ids, active \in BOOLEAN : SetSpaceActive(s, active)
    \/ \E ticked \in (SUBSET Flagged) \ {{}} :
       \E parent \in [ticked -> {s \in Ids : IsParent(s)}] : CatalogRepairSlices(parent)
    \/ \E e \in Events, c \in Codes : CreateSpace(e, c)
    \/ \E e \in Events : \E s \in Stored : \E c \in Codes :
       \E departments \in SUBSET Departments, alias, available \in BOOLEAN :
           /\ alias => available               \* bound: no closed space is renamed
           /\ SaveSpace(e, s, c, alias, available, departments)
    \/ \E e \in Events, room \in Ids :
       \E into \in [Slices(room) -> FoldTargets(room) \cup {None}] : CombineRoom(e, room, into)
    \/ \E from, to \in Events : CopyLayout(from, to)

VenueSpec == VenueInit /\ [][VenueNext]_venueVars

-----------------------------------------------------------------------------
(* What the two readers make of it.                                        *)

\* build_space_rows
Listed(e)      == {s \in SeenAt(e) : space[s].active}
Children(e, s) == {c \in Listed(e) : space[c].parent = s}
Group(e, s)    == {m \in Listed(e) : Fold(e, m) = s}

\* Seeded fault: a folded slice counts only what it holds itself.
AccountedForAlone(e, s) ==
    \/ held[s][e] # {}
    \/ space[s].parent # None /\ held[space[s].parent][e] # {}
    \/ \E c \in Children(e, s) : held[c][e] # {}

\* is_accounted_for
AccountedFor(e, s) ==
    \/ held[s][e] # {}
    \/ space[s].parent # None /\ held[space[s].parent][e] # {}
    \/ \E c \in Children(e, s) : held[c][e] # {}
    \/ Fold(e, s) # None /\ held[Fold(e, s)][e] # {}

\* spaces_for_department: the spaces a department holds, and what each covers.
HeldBy(d, e) == {s \in Stored : space[s].active /\ d \in held[s][e]}
Covers(e, s) == {c \in Stored : /\ space[c].active
                                /\ space[c].parent = s \/ Fold(e, c) = s}

-----------------------------------------------------------------------------

\* Two spaces seen at one event have different codes.  Rows are added by four
\* handlers and recoded by two, each with a check of its own, and no index
\* spans permanent and event rows (models/spaces.py, _code_taken).
CodesUniqueWhereSeen ==
    \A e \in Events : \A s, t \in SeenAt(e) :
        space[s].code = space[t].code => s = t

\* The tree of spaces has two levels: whatever has a parent is a slice, and
\* its parent is a permanent room without one.  By hand, by paste and by a
\* batch of repairs (catalog.py).
TwoLevels ==
    \A s \in Stored :
        /\ space[s].kind = "SLICE" <=> space[s].parent # None
        /\ space[s].parent # None =>
               LET p == space[s].parent
               IN  /\ p \in Stored /\ space[p].kind = "ROOM"
                   /\ space[p].parent = None /\ space[p].event = None

\* "Same room only": in every event a slice folds into another slice of its
\* own room, however the catalog was repaired and layouts were copied since
\* (models/spaces.py, combined_into_space_id).
FoldsStayInRoom ==
    \A e \in Events, s \in Stored : Fold(e, s) # None =>
        LET t == Fold(e, s)
        IN  /\ t \in Stored /\ t # s
            /\ space[s].kind = "SLICE" /\ space[t].kind = "SLICE"
            /\ space[s].parent = space[t].parent

\* The two readers agree (queries.py): what a department is offered is on the
\* event's page, a space covers the rows the page puts under it, and nothing
\* a department is shown is counted as unassigned.
PagesAgree ==
    \A e \in Events, d \in Departments : \A s \in HeldBy(d, e) :
        /\ s \in Listed(e)
        /\ Covers(e, s) = Children(e, s) \cup Group(e, s)
        /\ \A shown \in {s} \cup Covers(e, s) : AccountedFor(e, shown)

-----------------------------------------------------------------------------
(* What the repository says and the code does not do.                      *)

\* "No chains: a slice already pointed at cannot itself point elsewhere."
\* An archived slice keeps its fold while its target is folded on, and a copied
\* layout meets the folds of the target event.
NoChains ==
    \A e \in Events, s \in Stored :
        Fold(e, s) # None => Fold(e, Fold(e, s)) = None

\* "A folded slice holds no assignment of its own" (slice_summary).  The
\* grid folds a slice a department holds.
FoldedHoldsNothing ==
    \A e \in Events, s \in Stored : Fold(e, s) # None => held[s][e] = {}
=============================================================================
