\* Two lines, any two requests overlapping, the form in one piece.
CONSTANTS
    NULL = NULL
    s1 = s1
    s2 = s2
    net = net
    phones = phones
    Slots = {s1, s2}
    Lines = {1, 2}
    Actions = {"APPROVE", "REJECT", "NEEDS_INFO"}
    FormOverlaps = FALSE
    Teams = {net, phones}
    TeamOf <- MCTeamOf
    Affirmations = {2}
SPECIFICATION Spec
INVARIANTS
    FinalizedIffDecided
    StaffPagesAgree
PROPERTIES
    PullBackErasesNothing
    KeepsPromise
