----------------------------- MODULE ItemReview -----------------------------
(***************************************************************************)
(* What a request promises its department when one group decides it alone: *)
(* lines are put to the group together, each gets a verdict at most once,  *)
(* the request closes with the verdict that was missing last, and a        *)
(* verdict goes away only because a reviewer reopened that line or the     *)
(* whole request was sent back.  Questions between reviewer and department *)
(* are not visible here.                                                   *)
(***************************************************************************)
CONSTANTS Lines, Verdicts,
          NONE      \* no verdict; not one of Verdicts

VARIABLES
    phase,      \* "DRAFT", "OPEN" or "CLOSED"
    asked,      \* the lines before the group
    verdict     \* what the group said of each line

vars == <<phase, asked, verdict>>

Unasked == [l \in Lines |-> NONE]

Init ==
    /\ phase = "DRAFT"
    /\ asked = {}
    /\ verdict = Unasked

Submit ==
    /\ phase = "DRAFT"
    /\ phase' = "OPEN"
    /\ asked' \in (SUBSET Lines) \ {{}}
    /\ verdict' = Unasked

\* The last verdict closes the request in the same step.
Decide(l, v) ==
    /\ phase = "OPEN"
    /\ l \in asked
    /\ verdict[l] = NONE
    /\ verdict' = [verdict EXCEPT ![l] = v]
    /\ phase' = IF \E k \in asked : verdict'[k] = NONE THEN "OPEN" ELSE "CLOSED"
    /\ UNCHANGED asked

Reopen(l) ==
    /\ phase # "DRAFT"
    /\ verdict[l] # NONE
    /\ verdict' = [verdict EXCEPT ![l] = NONE]
    /\ phase' = "OPEN"
    /\ UNCHANGED asked

SendBack ==
    /\ phase # "DRAFT"
    /\ phase' = "DRAFT"
    /\ asked' = {}
    /\ verdict' = Unasked

Next ==
    \/ Submit
    \/ \E l \in Lines : Reopen(l) \/ \E v \in Verdicts : Decide(l, v)
    \/ SendBack

Spec == Init /\ [][Next]_vars
=============================================================================
