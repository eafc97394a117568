--------------------------- MODULE MCTechOpsForm ---------------------------
(* Two spaces, two phone slots, and cards chosen so that every rule of a   *)
(* card meets one that breaks it and one that does not.                    *)
EXTENDS TechOpsForm, TLC

CONSTANTS hall, lobby

MCSpaceOrder == <<hall, lobby>>
MCSlots == 1..MaxPhones

Needs == [answer |-> "NEEDS", wifi |-> "YES", reason |-> FALSE, network |-> "NO",
          kinds |-> {}, printers |-> {}, phones |-> [i \in MCSlots |-> None]]

Number(delivery, texts, handsets) ==
    [source |-> SOURCE_NEW, delivery |-> delivery, texts |-> texts,
     handsets |-> handsets]

Share(s, i) ==
    [source |-> SharingKey(s, i), delivery |-> "", texts |-> FALSE, handsets |-> 1]

MCTyped ==
    {Needs,
     [Needs EXCEPT !.answer = ""],
     [Needs EXCEPT !.answer = "NOTHING"],
     [Needs EXCEPT !.answer = "NOTHING",
                   !.phones = 1 :> Number("VOICEMAIL", FALSE, 0) @@ @],
     [Needs EXCEPT !.wifi = ""],
     [Needs EXCEPT !.wifi = "NO", !.phones = 2 :> Number("VOICEMAIL", FALSE, 0) @@ @],
     [Needs EXCEPT !.wifi = "NO", !.reason = TRUE, !.network = "UNSURE",
                   !.kinds = {"OTHER"}],
     [Needs EXCEPT !.printers = {"ETHERNET"}],
     [Needs EXCEPT !.network = "YES", !.printers = {"ETHERNET", "USB"}],
     [Needs EXCEPT !.phones = [i \in MCSlots |->
         IF i = 1 THEN Number("NONE", TRUE, 1) ELSE Number("DESK_PHONE", TRUE, 0)]]}
    \cup {[Needs EXCEPT !.phones = 1 :> Share(s, i)
                                @@ 2 :> Number("DESK_PHONE", FALSE, 2)] :
            s \in {hall, lobby}, i \in MCSlots}
=============================================================================
