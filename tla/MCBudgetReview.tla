--------------------------- MODULE MCBudgetReview ---------------------------
(* Instances of BudgetReview and its reports: a super admin, perhaps a      *)
(* budget admin who reviews for nobody, and a reviewer of g1.               *)
EXTENDS BudgetReports, TLC

CONSTANTS super, budget, r1, g1, l1, l2

MCGroupsOf == [u \in Users |-> IF u = r1 THEN {g1} ELSE {}]

\* Every account suggests the one group.
MCSuggested == [l \in Lines |-> g1]

MCBudgetAdmins == {super, budget} \cap Users

\* No property tells one line of a request from another.
MCSymmetry == Permutations(Lines)
=============================================================================
