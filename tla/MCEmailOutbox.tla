--------------------------- MODULE MCEmailOutbox ---------------------------
(* Instances of EmailOutbox: m1 announces the budget that is withdrawn. *)
EXTENDS EmailOutbox, TLC

CONSTANTS m1, m2, d1, d2
=============================================================================
