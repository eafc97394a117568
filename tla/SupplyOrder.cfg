SPECIFICATION Spec
CONSTANTS
    Lines <- MCLines
    Items = {rope, tape}
    Verdicts <- MCVerdicts
    NULL = NULL
SYMMETRY Symmetry
INVARIANTS
    FinalizedIsAnswered
    OverridesAreNoted
    ReadyIsFinalizable
    QuantityIsForItsItem
