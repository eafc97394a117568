--------------------------- MODULE MCVenueSpaces ---------------------------
(* Two events.  Every code reads as a slice, so that every room is offered *)
(* for repair; then all codes are alike.                                   *)
EXTENDS VenueSpaces, TLC

Symmetry == Permutations(Events) \cup Permutations(Codes)
=============================================================================
