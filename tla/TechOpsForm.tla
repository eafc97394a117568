---------------------------- MODULE TechOpsForm ----------------------------
(***************************************************************************)
(* The draft of a TechOps request: the form's cards, one per space, the    *)
(* lines a save makes of them, and the page rebuilt from those lines the   *)
(* next time the form is opened.                                           *)
(*                                                                         *)
(* A save deletes every line and writes them anew, so that the page is the *)
(* only memory of what was typed, and what a save does not store or a      *)
(* reload does not rebuild is lost.  One step is one POST: the requester   *)
(* opened the form on the draft as last saved, changed one card or one     *)
(* answer about the department, and posted the whole page.  A draft saves  *)
(* in any state, so that more changes are more saves.                      *)
(*                                                                         *)
(* Free text is left out: a channel, a note or an estimate is always given *)
(* when its question is asked, so that the open questions that remain are  *)
(* those about which services there are.  The bounds on repeated fields    *)
(* (25 drops, 10 phones...) are not reached.                               *)
(***************************************************************************)
EXTENDS Naturals, FiniteSets, Sequences, SequencesExt

CONSTANTS
    SpaceOrder,     \* the spaces of the venue, in the order the form shows them
    Assigned,       \* those the department holds: they always have a card
    MaxPhones,      \* phone slots of a card
    Typed,          \* the cards a requester may leave on the page
    None            \* no row, no answer

Spaces == {SpaceOrder[n] : n \in DOMAIN SpaceOrder}

Slots == 1..MaxPhones

\* PhoneLine.source: NEW, blank, or the space and the index of the line shared.
SOURCE_NEW   == <<"NEW">>
SOURCE_BLANK == <<"">>
SharingKey(s, i) == <<s, i>>
Sources == {SOURCE_NEW, SOURCE_BLANK} \cup (Spaces \X Nat)

Deliveries == {"", "NONE", "DESK_PHONE", "FORWARD", "VOICEMAIL"}

PhoneLines == [source : Sources, delivery : Deliveries, texts : BOOLEAN,
               handsets : Nat]

Purposes == {"BOTH", "VOICE", "TEXT"}

\* SpaceAnswer.  reason: a reason to decline WiFi; printers: how they connect.
SpaceAnswers ==
    [answer : {"", "NEEDS", "NOTHING"}, wifi : {"", "YES", "NO"},
     reason : BOOLEAN, network : {"", "YES", "NO", "UNSURE"},
     kinds : SUBSET {"PRINTERS", "OTHER"},
     printers : SUBSET {"ETHERNET", "USB"},
     phones : [Slots -> PhoneLines \cup {None}]]

\* TechOpsRequestSpace, the columns that outlive the lines.
SpaceRows ==
    [answer : {"", "NEEDS", "NOTHING"}, wifi : {"", "YES", "NO"},
     reason : BOOLEAN, network : {"", "YES", "NO", "UNSURE"}]

\* PaymentsAnswer.  complete: every question of it has an answer.
PaymentsAnswers == [home : Spaces \cup {None}, complete : BOOLEAN]

ASSUME FormAssumption ==
    /\ SpaceOrder \in Seq(Spaces) /\ IsInjective(SpaceOrder)
    /\ Assigned \subseteq Spaces
    /\ MaxPhones \in Nat
    /\ Typed \subseteq SpaceAnswers
    /\ None \notin Spaces \cup Nat \cup PhoneLines \cup Purposes \cup SpaceRows
                     \cup PaymentsAnswers

VARIABLES
    status,         \* WorkItem.status, None before the request exists
    rows,           \* TechOpsRequestSpace of each space, None without one
    noServices,     \* TechOpsRequestDetail.no_services_needed
    lines,          \* the work lines with their TechOpsLineDetail
    checked         \* was the last submit one that validate() passed

formVars == <<status, rows, noServices, lines, checked>>

-----------------------------------------------------------------------------
(***************************************************************************)
(* line_grain: from answers to lines.                                      *)
(***************************************************************************)

NetworkIsForced(c) == "ETHERNET" \in c.printers

EffectiveNetworkKinds(c) ==
    c.kinds \cup (IF NetworkIsForced(c) THEN {"PRINTERS"} ELSE {})

Phones(c) == {c.phones[i] : i \in Slots} \ {None}

\* wifi_is_forced: does declining WiFi in this space need a reason.
WifiIsForced(s, c, homeId) ==
    \/ c.network = "YES" /\ EffectiveNetworkKinds(c) # {"PRINTERS"}
    \/ Phones(c) # {}
    \/ s = homeId

OwnsANumber(p) == p.source = SOURCE_NEW
HasVoice(p) == p.delivery \notin {"", "NONE"}

DerivePurpose(p) ==
    CASE HasVoice(p) /\ p.texts  -> "BOTH"
      [] HasVoice(p) /\ ~p.texts -> "VOICE"
      [] ~HasVoice(p) /\ p.texts -> "TEXT"
      [] OTHER                   -> None

\* phone_open_questions and network_open_questions: is there a question left.
PhoneOpenQuestion(p) ==
    \/ p.delivery = ""
    \/ p.delivery = "NONE" /\ ~p.texts
    \/ p.delivery = "DESK_PHONE" /\ p.handsets = 0

NetworkOpenQuestion(c) ==
    c.network = "UNSURE" \/ EffectiveNetworkKinds(c) = {}

\* A line before its parent is known.  key: the number a PHONE_NUMBER owns, or
\* the one a DESK_PHONE rings; question: config has open questions.
PlannedLine(service, s) ==
    [service |-> service, space |-> s, key |-> SOURCE_BLANK, purpose |-> None,
     delivery |-> "", kinds |-> {}, complete |-> TRUE, question |-> FALSE]

Repeat(l, n) == [i \in 1..n |-> l]

\* The number first, then the handsets: those placed, or one with the question
\* of where it goes when the answer implies a handset and names none.
ExpandPhone(s, i, p) ==
    LET owns    == OwnsANumber(p)
        wants   == owns => p.delivery = "DESK_PHONE"
        number  == [PlannedLine("PHONE_NUMBER", s) EXCEPT
                       !.key = SharingKey(s, i),
                       !.purpose = DerivePurpose(p),
                       !.delivery = p.delivery,
                       !.question = PhoneOpenQuestion(p)]
        handset == [PlannedLine("DESK_PHONE", s) EXCEPT
                       !.key = IF owns THEN SharingKey(s, i) ELSE p.source]
    IN  (IF owns THEN <<number>> ELSE <<>>)
        \o (IF wants THEN Repeat(handset, p.handsets) ELSE <<>>)
        \o (IF wants /\ p.handsets = 0
            THEN <<[handset EXCEPT !.question = TRUE]>> ELSE <<>>)

When(condition, l) == IF condition THEN <<l>> ELSE <<>>

ExpandPrinter(s, c, connectivity) ==
    When(connectivity \in c.printers,
         [PlannedLine("PRINTER", s) EXCEPT !.delivery = connectivity])

ExpandSpace(s, c) ==
    CASE c.answer = ""        -> <<>>
      [] c.answer = "NOTHING" -> <<PlannedLine("NO_SERVICES", s)>>
      [] c.answer = "NEEDS"   ->
            When(c.wifi = "YES", PlannedLine("WIFI", s))
            \o When(c.network \in {"YES", "UNSURE"},
                    [PlannedLine("ETHERNET", s) EXCEPT
                        !.kinds = EffectiveNetworkKinds(c),
                        !.question = NetworkOpenQuestion(c)])
            \o FlattenSeq([i \in Slots |->
                    IF c.phones[i] = None THEN <<>>
                    ELSE ExpandPhone(s, i, c.phones[i])])
            \o ExpandPrinter(s, c, "ETHERNET") \o ExpandPrinter(s, c, "USB")

\* The positions of the numbers a handset could ring.
NumbersNamed(planned, key) ==
    {i \in DOMAIN planned :
        planned[i].service = "PHONE_NUMBER" /\ planned[i].key = key}

\* A handset of a number set to no voice is dropped, whoever shares it.
Silenced(planned, l) ==
    /\ l.service = "DESK_PHONE"
    /\ \E i \in NumbersNamed(planned, l.key) : planned[i].delivery = "NONE"

\* Seeded fault: the parent is looked up before the drop moves the lines.
ParentTakenBeforeTheDrop(planned, kept, l) ==
    LET owners == NumbersNamed(planned, l.key)
    IN  IF l.service # "DESK_PHONE" \/ owners = {} THEN None
        ELSE CHOOSE i \in owners : TRUE

\* The position of the number a handset rings, among the lines that remain.
ParentIndex(planned, kept, l) ==
    LET owners == NumbersNamed(kept, l.key)
    IN  IF l.service # "DESK_PHONE" \/ owners = {} THEN None
        ELSE CHOOSE i \in owners : TRUE

\* What TechOpsLineDetail keeps of a planned line.
Stored(l, parent) ==
    [service |-> l.service, space |-> l.space, parent |-> parent,
     purpose |-> l.purpose, delivery |-> l.delivery, kinds |-> l.kinds,
     complete |-> l.complete, question |-> l.question]

PaymentsLine(payments) ==
    IF payments = None THEN <<>>
    ELSE <<[PlannedLine("PAYMENTS", payments.home) EXCEPT
               !.complete = payments.complete]>>

Plan(a) ==
    FlattenSeq([n \in DOMAIN SpaceOrder |->
        IF SpaceOrder[n] \in DOMAIN a.cards
        THEN ExpandSpace(SpaceOrder[n], a.cards[SpaceOrder[n]])
        ELSE <<>>])
    \o When(a.wide, PlannedLine("OTHER", None))
    \o PaymentsLine(a.payments)
    \o When(a.noServices, PlannedLine("NO_SERVICES", None))

Keep(planned) ==
    FlattenSeq([i \in DOMAIN planned |->
        When(~Silenced(planned, planned[i]), planned[i])])

ExpandToLines(a) ==
    LET planned == Plan(a)
        kept    == Keep(planned)
    IN  [i \in DOMAIN kept |->
            Stored(kept[i], ParentIndex(planned, kept, kept[i]))]

-----------------------------------------------------------------------------
(***************************************************************************)
(* spaces: from the saved draft back to a page.                            *)
(***************************************************************************)

RowOf(c) == [answer |-> c.answer, wifi |-> c.wifi, reason |-> c.reason,
             network |-> c.network]

Unanswered == [answer |-> "", wifi |-> "", reason |-> FALSE, network |-> ""]

InSpace(s, service) ==
    {i \in DOMAIN lines : lines[i].space = s /\ lines[i].service = service}

\* The place of a line among others: the first has place 1.
Place(i, others) == Cardinality({j \in others : j <= i})

\* owner_position: a number's place among the numbers of its space.
OwnerPosition(i) == Place(i, InSpace(lines[i].space, "PHONE_NUMBER"))

RingsHere(s, i) == lines[i].parent # None /\ lines[lines[i].parent].space = s

\* The lines of a space that become a phone slot: each number, and the first
\* handset of each number it shares, or of no number.
SlotHeads(s) ==
    InSpace(s, "PHONE_NUMBER")
    \cup {i \in InSpace(s, "DESK_PHONE") :
            /\ ~RingsHere(s, i)
            /\ \A j \in InSpace(s, "DESK_PHONE") :
                    lines[j].parent = lines[i].parent => i <= j}

\* A handset with no location is not posted back.
PlacedHandsets(s, parent) ==
    Cardinality({i \in InSpace(s, "DESK_PHONE") :
                    lines[i].parent = parent /\ ~lines[i].question})

PhoneFrom(s, i) ==
    IF lines[i].service = "PHONE_NUMBER"
    THEN [source |-> SOURCE_NEW, delivery |-> lines[i].delivery,
          texts |-> lines[i].purpose \in {"TEXT", "BOTH"},
          handsets |-> PlacedHandsets(s, i)]
    ELSE LET owner == lines[i].parent
         IN  [source |-> IF owner = None THEN SOURCE_BLANK
                         ELSE SharingKey(lines[owner].space, OwnerPosition(owner)),
              delivery |-> "", texts |-> FALSE,
              handsets |-> PlacedHandsets(s, owner)]

\* Slots are numbered again from 1, in the order of the lines.
PhonesFrom(s) ==
    LET At(n) == {i \in SlotHeads(s) : Place(i, SlotHeads(s)) = n}
    IN  [n \in Slots |-> IF At(n) = {} THEN None
                         ELSE PhoneFrom(s, CHOOSE i \in At(n) : TRUE)]

\* Seeded fault: the network answer is rebuilt from the line alone.
NetworkFromLine(s, row) ==
    IF InSpace(s, "ETHERNET") # {} THEN "YES" ELSE row.network

\* The row says; a row saved before it had the column leaves it to the line.
NetworkFrom(s, row) ==
    IF row.network # "" THEN row.network
    ELSE IF InSpace(s, "ETHERNET") # {} THEN "YES" ELSE ""

\* _redisplay_extras and space_cards: one card of the page.
CardFrom(s) ==
    LET row == IF rows[s] = None THEN Unanswered ELSE rows[s]
    IN  [answer |-> row.answer, wifi |-> row.wifi, reason |-> row.reason,
         network |-> NetworkFrom(s, row),
         kinds |-> UNION {lines[i].kinds : i \in InSpace(s, "ETHERNET")},
         printers |-> {lines[i].delivery : i \in InSpace(s, "PRINTER")},
         phones |-> PhonesFrom(s)]

\* A space has a card when the department holds it or the request names it.
CardSpaces ==
    Assigned
    \cup {s \in Spaces : rows[s] # None \/ \E i \in DOMAIN lines : lines[i].space = s}

SavedPayments ==
    LET saved == {i \in DOMAIN lines : lines[i].service = "PAYMENTS"}
    IN  IF saved = {} THEN None
        ELSE LET i == CHOOSE i \in saved : TRUE
             IN  [home |-> lines[i].space, complete |-> lines[i].complete]

Page ==
    [cards |-> [s \in CardSpaces |-> CardFrom(s)],
     wide |-> \E i \in DOMAIN lines : lines[i].service = "OTHER",
     payments |-> SavedPayments,
     noServices |-> noServices]

\* phone_line_share_options: every line on the page that owns a number.
ShareOptions ==
    {k \in Spaces \X Slots :
        /\ k[1] \in CardSpaces
        /\ CardFrom(k[1]).phones[k[2]] # None
        /\ OwnsANumber(CardFrom(k[1]).phones[k[2]])}

-----------------------------------------------------------------------------
(***************************************************************************)
(* form_utils: parsing and refusing a POST.                                *)
(***************************************************************************)

\* _parse_phone_lines: a slot left blank is no line; choosing a number to
\* share, or leaving a lost one unchosen, is an answer.
BlankSlot(p) ==
    p.source = SOURCE_NEW /\ p.delivery = "" /\ ~p.texts /\ p.handsets = 0

\* _parse_space: asking for WiFi clears a reason not to.
ParseSpace(c) ==
    [c EXCEPT !.reason = c.reason /\ c.wifi # "YES",
              !.phones = [i \in Slots |->
                  IF c.phones[i] = None THEN None
                  ELSE IF BlankSlot(c.phones[i]) THEN None ELSE c.phones[i]]]

ParseForm(a) == [a EXCEPT !.cards = [s \in DOMAIN a.cards |-> ParseSpace(a.cards[s])]]

HomeId(a) == IF a.payments = None THEN None ELSE a.payments.home

\* _validate_phone_line: a shared number exists, is owned and carries voice.
ShareResolves(a, p) ==
    OwnsANumber(p) \/
    /\ p.source # SOURCE_BLANK
    /\ p.source[1] \in DOMAIN a.cards /\ p.source[2] \in Slots
    /\ LET owner == a.cards[p.source[1]].phones[p.source[2]]
       IN  owner # None /\ OwnsANumber(owner) /\ owner.delivery # "NONE"

\* Seeded fault: an Ethernet printer does not force the network question.
CardIsCompleteWithoutCable(a, s) ==
    LET c == a.cards[s]
    IN  /\ c.answer # ""
        /\ c.answer = "NEEDS" =>
            /\ c.wifi # ""
            /\ (c.wifi = "NO" /\ WifiIsForced(s, c, HomeId(a))) => c.reason
            /\ c.network # ""
            /\ \A p \in Phones(c) : ShareResolves(a, p)
            /\ ExpandToLines([a EXCEPT
                   !.cards = [t \in {s} |-> c], !.wide = FALSE, !.noServices = FALSE,
                   !.payments = IF HomeId(a) = s THEN a.payments ELSE None]) # <<>>

CardIsComplete(a, s) ==
    LET c == a.cards[s]
    IN  /\ c.answer # ""
        /\ c.answer = "NEEDS" =>
            /\ c.wifi # ""
            /\ (c.wifi = "NO" /\ WifiIsForced(s, c, HomeId(a))) => c.reason
            /\ c.network # ""
            /\ NetworkIsForced(c) => c.network \in {"YES", "UNSURE"}
            /\ \A p \in Phones(c) : ShareResolves(a, p)
            /\ ExpandToLines([a EXCEPT
                   !.cards = [t \in {s} |-> c], !.wide = FALSE, !.noServices = FALSE,
                   !.payments = IF HomeId(a) = s THEN a.payments ELSE None]) # <<>>

\* _validate_payments.
PaymentsComplete(a) ==
    a.payments # None =>
        /\ a.payments.home \in DOMAIN a.cards
        /\ a.cards[a.payments.home].answer # "NOTHING"
        /\ a.payments.complete

\* validate, for a submit.  A draft saves in any state.
Accepted(a) ==
    /\ ~(a.noServices /\ DOMAIN a.cards # {})
    /\ \A s \in DOMAIN a.cards : CardIsComplete(a, s)
    /\ PaymentsComplete(a)
    /\ \/ a.noServices
       \/ \E s \in DOMAIN a.cards : a.cards[s].answer # ""
       \/ ExpandToLines(a) # <<>>

-----------------------------------------------------------------------------
FormInit ==
    /\ status = None
    /\ rows = [s \in Spaces |-> None]
    /\ noServices = FALSE
    /\ lines = <<>>
    /\ checked = FALSE

\* A number can be shared only when the page offered it, on another card.
Offered(s, c) ==
    \A p \in Phones(c) :
        p.source \in {SOURCE_NEW} \cup {k \in ShareOptions : k[1] # s}

\* upsert_request_detail, replace_spaces, replace_lines.
Save(a) ==
    /\ noServices' = a.noServices
    /\ rows' = [s \in Spaces |->
                    IF s \in DOMAIN a.cards THEN RowOf(a.cards[s]) ELSE None]
    /\ lines' = ExpandToLines(a)

\* techops_request_create and techops_request_update: a refused POST writes
\* nothing; an accepted one saves, and a submit then submits what it saved.
Post(posted) ==
    LET a == ParseForm(posted)
    IN  /\ status \in {None, "DRAFT"}
        /\ Save(a)
        /\ \/ /\ status' = "DRAFT"
              /\ UNCHANGED checked
           \/ /\ Accepted(a)
              /\ status' = "SUBMITTED"
              /\ checked' = TRUE

\* A card is answered, or added by the picker.
PostCard(s) ==
    \E c \in Typed :
        /\ Offered(s, c)
        /\ Post([Page EXCEPT !.cards = [t \in DOMAIN @ \cup {s} |->
                                            IF t = s THEN c ELSE @[t]]])

\* The card of a space the department does not hold is removed.
RemoveCard(s) ==
    /\ s \in CardSpaces \ Assigned
    /\ Post([Page EXCEPT !.cards = [t \in DOMAIN @ \ {s} |-> @[t]]])

PostUnchanged == Post(Page)

PostWide(wide) == Post([Page EXCEPT !.wide = wide])

PostNoServices(affirmed) == Post([Page EXCEPT !.noServices = affirmed])

\* _parse_payments: a block left untouched is none.  The home base is chosen
\* among the cards of the page.
PostPayments ==
    \E payments \in {None} \cup {p \in PaymentsAnswers :
                                    /\ p.home \in CardSpaces \cup {None}
                                    /\ p.home = None => p.complete} :
        Post([Page EXCEPT !.payments = payments])

\* techops_request_submit, the button of the detail page: a draft with lines.
SubmitFromDetail ==
    /\ status = "DRAFT"
    /\ lines # <<>>
    /\ status' = "SUBMITTED"
    /\ checked' = FALSE
    /\ UNCHANGED <<rows, noServices, lines>>

\* reset_submitted_to_draft, by whoever may.
ReturnToDraft ==
    /\ status = "SUBMITTED"
    /\ status' = "DRAFT"
    /\ UNCHANGED <<rows, noServices, lines, checked>>

FormNext ==
    \/ \E s \in Spaces : PostCard(s) \/ RemoveCard(s)
    \/ PostUnchanged
    \/ \E b \in BOOLEAN : PostWide(b) \/ PostNoServices(b)
    \/ PostPayments
    \/ SubmitFromDetail
    \/ ReturnToDraft

FormSpec == FormInit /\ [][FormNext]_formVars

-----------------------------------------------------------------------------
(***************************************************************************)
(* Properties.                                                             *)
(***************************************************************************)

Services == {"WIFI", "ETHERNET", "PHONE_NUMBER", "DESK_PHONE", "PRINTER",
             "OTHER", "PAYMENTS", "NO_SERVICES"}

\* WorkLine and TechOpsLineDetail, as Stored makes them.
Lines ==
    [service : Services, space : Spaces \cup {None}, parent : Nat \cup {None},
     purpose : Purposes \cup {None}, delivery : Deliveries \cup {"ETHERNET", "USB"},
     kinds : SUBSET {"PRINTERS", "OTHER"}, complete : BOOLEAN, question : BOOLEAN]

\* The variables have their types: the parent of a line is a line.
FormTypeOK ==
    /\ status \in {None, "DRAFT", "SUBMITTED"}
    /\ rows \in [Spaces -> SpaceRows \cup {None}]
    /\ noServices \in BOOLEAN
    /\ lines \in Seq(Lines)
    /\ \A i \in DOMAIN lines : lines[i].parent \in (DOMAIN lines) \cup {None}
    /\ checked \in BOOLEAN

\* A desk phone points at a number, and at one that has voice or has not been
\* asked yet, in drafts as in submitted requests: the line it names is found by
\* position, in a list from which other desk phones were dropped.
HandsetsRingANumber ==
    \A i \in DOMAIN lines :
        LET owner == lines[i].parent
        IN  owner # None =>
                /\ lines[i].service = "DESK_PHONE"
                /\ lines[owner].service = "PHONE_NUMBER"
                /\ lines[owner].delivery # "NONE"

\* What the form lets through is whole, read from the lines a reviewer gets and
\* not from the answers validate() saw: no desk phone rings nothing (unless some
\* space was answered "nothing needed", see SharedNumbersExist), a space that
\* needs services has a line, gear without WiFi comes with a reason, an Ethernet
\* printer comes with its cable, payments have a home that is on the request,
\* and a number nobody can reach carries a question.
SubmittedIsComplete ==
    (status = "SUBMITTED" /\ checked) =>
        /\ noServices => \A s \in Spaces : rows[s] = None
        /\ \A s \in Spaces : rows[s] # None =>
            /\ rows[s].answer # ""
            /\ \E i \in DOMAIN lines : lines[i].space = s
            /\ (InSpace(s, "PHONE_NUMBER") # {} /\ InSpace(s, "WIFI") = {})
                    => rows[s].reason
            /\ (\E i \in InSpace(s, "PRINTER") : lines[i].delivery = "ETHERNET")
                    => InSpace(s, "ETHERNET") # {}
        /\ \A i \in DOMAIN lines :
            /\ lines[i].service = "DESK_PHONE" =>
                    \/ lines[i].parent # None
                    \/ \E s \in Spaces : rows[s] # None /\ rows[s].answer = "NOTHING"
            /\ lines[i].service = "PAYMENTS" =>
                    /\ lines[i].complete
                    /\ lines[i].space # None /\ rows[lines[i].space].answer = "NEEDS"
            /\ (lines[i].service = "PHONE_NUMBER" /\ lines[i].purpose = None)
                    => lines[i].question

\* Opening a draft and saving it untouched leaves its lines as they were, when
\* no space shares the number of another and something was said of each number:
\* _redisplay_extras undoes expand_to_lines.
SavingAgainKeepsLines ==
    LET shared == \E i \in DOMAIN lines :
                    /\ lines[i].service = "DESK_PHONE"
                    /\ ~RingsHere(lines[i].space, i)
        silent == \E i \in DOMAIN lines :
                    /\ lines[i].service = "PHONE_NUMBER"
                    /\ lines[i].delivery = "" /\ lines[i].purpose = None
    IN  ~shared /\ ~silent => ExpandToLines(ParseForm(Page)) = lines

-----------------------------------------------------------------------------
(* What the repository says and the code does not do.                      *)

\* "validate() still refuses a SUBMIT with any space left unanswered, so this
\* cannot let one through review", says replace_spaces of the unanswered cards
\* it stores.  The detail page submits what is stored without validate().
SubmittedIsAnswered ==
    status = "SUBMITTED" =>
        \A s \in Spaces : rows[s] # None => rows[s].answer # ""

\* "A source naming a line that does not exist leaves owner None; validate()
\* rejects that state later", says expand_to_lines of a shared number.  It does
\* not when the number is on a card that was switched to "nothing needed": its
\* inputs are still posted, validate() finds the number among them, and no line
\* is made of it.
SharedNumbersExist ==
    (status = "SUBMITTED" /\ checked) =>
        \A i \in DOMAIN lines :
            lines[i].service = "DESK_PHONE" => lines[i].parent # None

\* A desk phone that shares a number still rings the same one after the draft
\* is opened and saved untouched: _redisplay_extras rebuilds it "sourced at the
\* owner's space and position", but the page names a number by its slot, which
\* counts sharing lines too.
SharesSurviveAReload ==
    LET again == ExpandToLines(ParseForm(Page))
    IN  \A i \in DOMAIN lines :
            lines[i].parent # None =>
                \E j \in DOMAIN again :
                    /\ again[j].service = "DESK_PHONE"
                    /\ again[j].space = lines[i].space
                    /\ again[j].parent # None
                    /\ again[again[j].parent].space = lines[lines[i].parent].space
=============================================================================
