-------------------------- MODULE MCReviewSessions --------------------------
(* Instances of ReviewSessions. *)
EXTENDS ReviewSessions, TLC

CONSTANTS r1, r2, a1, a2, owner, g1

\* Admins are interchangeable: no definition names one.
AdminSymmetry == Permutations(Admins)
=============================================================================
