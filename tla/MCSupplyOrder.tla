--------------------------- MODULE MCSupplyOrder ---------------------------
EXTENDS SupplyOrder, TLC

MCLines == 1..2

\* NEEDS_INFO differs from NEEDS_ADJUSTMENT in one way only: the line may not
\* be edited while it waits.
MCVerdicts == {"APPROVED", "REJECTED", "NEEDS_ADJUSTMENT"}

Symmetry == Permutations(Items)

=============================================================================
