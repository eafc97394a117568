--------------------------- MODULE MCGroupReview ---------------------------
(* Instances of GroupReview and its pages.                                  *)
EXTENDS GroupPages, TLC

CONSTANTS s1, s2, net, phones

\* Each line is routed to a team of its own.
MCTeamOf == [l \in Lines |-> IF l = 1 THEN net ELSE phones]

=============================================================================
