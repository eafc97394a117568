--------------------------- MODULE MCEventBudgets ---------------------------
(* One primary and one supplementary request of a department; two handlers *)
(* overlap, the slots are interchangeable.                                 *)
EXTENDS EventBudgets, TLC

Symmetry == Permutations(Slots)
=============================================================================
